----------------------------- MODULE Iteration -----------------------------
(***************************************************************************)
(* What the proofs about the loops of the code rest on: induction over the *)
(* natural numbers for a set of them, and that a function defined by       *)
(* recursion over the naturals satisfies its equation.  Both follow from   *)
(* the least number principle.                                             *)
(***************************************************************************)
EXTENDS Integers, WellFoundedInduction, TLAPS

LEMMA LeastNatural ==
  ASSUME NEW T \in SUBSET Nat, T # {}
  PROVE  \E m \in T : \A k \in T : m <= k
<1>1. PICK R : R = {p \in Nat \X Nat : p[1] < p[2]}
  OBVIOUS
<1>2. IsWellFoundedOn(R, Nat)
  BY <1>1, NatLessThanWellFounded, Zenon DEF OpToRel
<1>3. PICK m \in T : \A k \in T : ~(<<k, m>> \in R)
  BY <1>2, WFMin
<1>4. \A k \in T : ~(<<k, m>> \in R) => ~(k < m)
  BY <1>1
<1>5. \A k \in T : m <= k
  <2> SUFFICES ASSUME NEW k \in T PROVE ~(k < m)
    OBVIOUS
  <2> QED BY <1>3, <1>4
<1> QED BY <1>5

(* Complete induction.                                                     *)
LEMMA CompleteInduction ==
  ASSUME NEW T, \A n \in Nat : (\A k \in 0..(n - 1) : k \in T) => n \in T
  PROVE  \A n \in Nat : n \in T
<1> SUFFICES ASSUME Nat \ T # {} PROVE FALSE
  OBVIOUS
<1>1. PICK m \in Nat \ T : \A k \in Nat \ T : m <= k
  BY LeastNatural
<1>2. \A k \in 0..(m - 1) : k \in T
  <2> SUFFICES ASSUME NEW k \in 0..(m - 1) PROVE k \in T
    OBVIOUS
  <2>1. k \in Nat /\ ~(m <= k)
    OBVIOUS
  <2> QED BY <1>1, <2>1
<1> QED BY <1>1, <1>2

LEMMA Induction ==
  ASSUME NEW T, 0 \in T, \A n \in Nat : n \in T => n + 1 \in T
  PROVE  \A n \in Nat : n \in T
<1>1. ASSUME NEW n \in Nat, \A k \in 0..(n - 1) : k \in T PROVE n \in T
  <2>1. CASE n = 0
    BY <2>1
  <2>2. CASE n # 0
    <3>1. n - 1 \in Nat /\ n - 1 \in 0..(n - 1) /\ n - 1 + 1 = n
      BY <2>2
    <3> QED BY <1>1, <3>1
  <2> QED BY <2>1, <2>2
<1> QED BY <1>1, CompleteInduction

(* A function on 0..(n - 1), and what comes next of it.                    *)
Pasts(A) == UNION {{n} \X [0..(n - 1) -> A] : n \in Nat}
Past(f, n) == [k \in 0..(n - 1) |-> f[k]]

(* The first n values that G determines. *)
Determined(A, G, n, h) == h \in [0..(n - 1) -> A] /\ \A k \in 0..(n - 1) : h[k] = G[<<k, Past(h, k)>>]

LEMMA PastType ==
  ASSUME NEW A, NEW n \in Nat, NEW h \in [0..(n - 1) -> A], NEW k \in 0..n
  PROVE  k \in Nat /\ Past(h, k) \in [0..(k - 1) -> A] /\ <<k, Past(h, k)>> \in Pasts(A)
<1>1. k \in Nat /\ \A i \in 0..(k - 1) : i \in 0..(n - 1)
  OBVIOUS
<1>2. Past(h, k) \in [0..(k - 1) -> A]
  BY <1>1 DEF Past
<1>3. <<k, Past(h, k)>> \in {k} \X [0..(k - 1) -> A]
  BY <1>2
<1> QED BY <1>1, <1>2, <1>3 DEF Pasts

LEMMA DeterminedOnce ==
  ASSUME NEW A, NEW G, NEW n \in Nat, NEW m \in Nat, NEW h, NEW g,
         Determined(A, G, n, h), Determined(A, G, m, g)
  PROVE  \A k \in Nat : k < n /\ k < m => h[k] = g[k]
<1> DEFINE T == {k \in Nat : k < n /\ k < m => h[k] = g[k]}
<1>1. ASSUME NEW k \in Nat, \A i \in 0..(k - 1) : i \in T PROVE k \in T
  <2> SUFFICES ASSUME k < n, k < m PROVE h[k] = g[k]
    OBVIOUS
  <2>1. \A i \in 0..(k - 1) : h[i] = g[i]
    BY <1>1
  <2>2. Past(h, k) = Past(g, k)
    BY <2>1 DEF Past
  <2>3. k \in 0..(n - 1) /\ k \in 0..(m - 1)
    OBVIOUS
  <2> QED BY <2>2, <2>3 DEF Determined
<1>2. \A k \in Nat : k \in T
  <2> HIDE DEF T
  <2> QED BY <1>1, CompleteInduction
<1> QED BY <1>2

LEMMA DeterminedLonger ==
  ASSUME NEW A, NEW G \in [Pasts(A) -> A], NEW n \in Nat, NEW h, Determined(A, G, n, h)
  PROVE  \E g : Determined(A, G, n + 1, g)
<1>1. h \in [0..(n - 1) -> A]
  BY DEF Determined
<1>2. PICK a \in A : a = G[<<n, Past(h, n)>>]
  <2>1. <<n, Past(h, n)>> \in Pasts(A)
    BY <1>1, PastType
  <2> QED BY <2>1
<1>3. PICK g : g = [k \in 0..n |-> IF k = n THEN a ELSE h[k]]
  OBVIOUS
<1>4. n + 1 - 1 = n
  OBVIOUS
<1>5. g \in [0..(n + 1 - 1) -> A]
  <2>1. \A k \in 0..n : k # n => k \in 0..(n - 1)
    OBVIOUS
  <2> QED BY <1>1, <1>2, <1>3, <1>4, <2>1
<1>6. ASSUME NEW k \in 0..n PROVE g[k] = G[<<k, Past(g, k)>>]
  <2>1. \A i \in 0..(k - 1) : i \in 0..n /\ g[i] = h[i]
    BY <1>3
  <2>2. Past(g, k) = Past(h, k)
    BY <2>1 DEF Past
  <2>3. CASE k = n
    BY <1>2, <1>3, <2>2, <2>3
  <2>4. CASE k # n
    <3>1. k \in 0..(n - 1)
      BY <2>4
    <3>2. g[k] = h[k]
      BY <1>3, <2>4
    <3> QED BY <2>2, <3>1, <3>2 DEF Determined
  <2> QED BY <2>3, <2>4
<1> QED BY <1>4, <1>5, <1>6 DEF Determined

(* Recursion over the values for all smaller arguments.                    *)
THEOREM Recursion ==
  ASSUME NEW A, NEW G \in [Pasts(A) -> A]
  PROVE  \E f \in [Nat -> A] : \A n \in Nat : f[n] = G[<<n, Past(f, n)>>]
<1> DEFINE T == {n \in Nat : \E h : Determined(A, G, n, h)}
<1>1. 0 \in T
  <2>1. PICK h : h = [k \in 0..(0 - 1) |-> k]
    OBVIOUS
  <2>2. Determined(A, G, 0, h)
    BY <2>1 DEF Determined
  <2> QED BY <2>2
<1>2. \A n \in Nat : n \in T => n + 1 \in T
  BY DeterminedLonger
<1>3. \A n \in Nat : n \in T
  <2> HIDE DEF T
  <2> QED BY <1>1, <1>2, Induction
<1>4. PICK c : c = [n \in Nat |-> CHOOSE h : Determined(A, G, n, h)]
  OBVIOUS
<1>5. \A n \in Nat : Determined(A, G, n, c[n])
  <2> SUFFICES ASSUME NEW n \in Nat PROVE Determined(A, G, n, c[n])
    OBVIOUS
  <2>1. \E h : Determined(A, G, n, h)
    BY <1>3
  <2>2. c[n] = CHOOSE h : Determined(A, G, n, h)
    BY <1>4
  <2> QED BY <2>1, <2>2
<1>6. PICK f : f = [n \in Nat |-> c[n + 1][n]]
  OBVIOUS
<1>7. ASSUME NEW n \in Nat, NEW k \in 0..n PROVE f[k] = c[n + 1][k]
  <2>1. k \in Nat /\ k + 1 \in Nat /\ n + 1 \in Nat /\ k < k + 1 /\ k < n + 1
    OBVIOUS
  <2>2. c[k + 1][k] = c[n + 1][k]
    BY <1>5, <2>1, DeterminedOnce
  <2> QED BY <1>6, <2>1, <2>2
<1>8. ASSUME NEW n \in Nat PROVE f[n] \in A /\ f[n] = G[<<n, Past(f, n)>>]
  <2>1. PICK h : h = c[n + 1]
    OBVIOUS
  <2>2. n + 1 \in Nat /\ n \in 0..n /\ n + 1 - 1 = n
    OBVIOUS
  <2>3. Determined(A, G, n + 1, h)
    BY <1>5, <2>1, <2>2
  <2>4. h[n] \in A /\ h[n] = G[<<n, Past(h, n)>>]
    BY <2>2, <2>3 DEF Determined
  <2>5. \A k \in 0..n : f[k] = h[k]
    BY <1>7, <2>1
  <2>6. Past(f, n) = Past(h, n)
    BY <2>5 DEF Past
  <2> QED BY <2>2, <2>4, <2>5, <2>6
<1>9. f \in [Nat -> A]
  BY <1>6, <1>8
<1> QED BY <1>8, <1>9

(* The states of a loop that starts with a: a step a pass.                 *)
Loops(f, a, step) == \A n \in Nat : f[n] = IF n = 0 THEN a ELSE step[<<n, f[n - 1]>>]

THEOREM Loop ==
  ASSUME NEW A, NEW a \in A, NEW step \in [Nat \X A -> A]
  PROVE  \E f \in [Nat -> A] : Loops(f, a, step)
<1>1. PICK G : G = [x \in Pasts(A) |-> IF x[1] = 0 THEN a ELSE step[<<x[1], x[2][x[1] - 1]>>]]
  OBVIOUS
<1>2. ASSUME NEW n \in Nat, NEW h \in [0..(n - 1) -> A]
      PROVE  G[<<n, h>>] = IF n = 0 THEN a ELSE step[<<n, h[n - 1]>>]
  <2>1. <<n, h>> \in Pasts(A)
    BY DEF Pasts
  <2> QED BY <1>1, <2>1
<1>3. ASSUME NEW x \in Pasts(A) PROVE G[x] \in A
  <2>1. PICK n \in Nat : x \in {n} \X [0..(n - 1) -> A]
    BY DEF Pasts
  <2>2. PICK h \in [0..(n - 1) -> A] : x = <<n, h>>
    BY <2>1
  <2>3. n # 0 => n - 1 \in 0..(n - 1)
    OBVIOUS
  <2>4. n # 0 => <<n, h[n - 1]>> \in Nat \X A
    BY <2>2, <2>3
  <2> QED BY <1>2, <2>2, <2>4
<1>4. G \in [Pasts(A) -> A]
  BY <1>1, <1>3
<1>5. PICK f \in [Nat -> A] : \A n \in Nat : f[n] = G[<<n, Past(f, n)>>]
  BY <1>4, Recursion
<1>6. ASSUME NEW n \in Nat PROVE f[n] = IF n = 0 THEN a ELSE step[<<n, f[n - 1]>>]
  <2>1. Past(f, n) \in [0..(n - 1) -> A]
    BY DEF Past
  <2>2. n # 0 => n - 1 \in 0..(n - 1)
    OBVIOUS
  <2>3. n # 0 => Past(f, n)[n - 1] = f[n - 1]
    BY <2>2 DEF Past
  <2> QED BY <1>2, <1>5, <2>1, <2>3
<1> QED BY <1>5, <1>6 DEF Loops

(* A step repeated.                                                        *)
Repeats(f, a, next) == f[0] = a /\ \A n \in Nat : f[n + 1] = next[f[n]]

THEOREM Repeat ==
  ASSUME NEW A, NEW a \in A, NEW next \in [A -> A]
  PROVE  \E f \in [Nat -> A] : Repeats(f, a, next)
<1>1. PICK step : step = [x \in Nat \X A |-> next[x[2]]]
  OBVIOUS
<1>2. step \in [Nat \X A -> A] /\ \A n \in Nat, x \in A : step[<<n, x>>] = next[x]
  BY <1>1
<1>3. PICK f \in [Nat -> A] : Loops(f, a, step)
  BY <1>2, Loop
<1>4. f[0] = a
  BY <1>3 DEF Loops
<1>5. ASSUME NEW n \in Nat PROVE f[n + 1] = next[f[n]]
  <2>1. n + 1 \in Nat /\ n + 1 # 0 /\ (n + 1) - 1 = n
    OBVIOUS
  <2>2. f[n + 1] = step[<<n + 1, f[n]>>]
    BY <1>3, <2>1 DEF Loops
  <2> QED BY <1>2, <2>1, <2>2
<1> QED BY <1>4, <1>5 DEF Repeats
=============================================================================
