--------------------------- MODULE Induction_proof ---------------------------
(***************************************************************************)
(* What the proofs use in the place of induction: a nonempty set of        *)
(* naturals has a least element, and a function that is defined by         *)
(* recursion along 1..n exists.                                            *)
(***************************************************************************)
EXTENDS Integers, FiniteSetTheorems, WellFoundedInduction, TLAPS

\* A set of naturals that has an element has a least one.
LEMMA LeastExists ==
    ASSUME NEW S \in SUBSET Nat, S # {}
    PROVE  \E x \in S : \A y \in S : x <= y
<1>1. PICK x \in S : \A y \in S : ~ (<<y, x>> \in OpToRel(<, Nat))
    BY NatLessThanWellFounded, WFMin
<1>2. \A y \in S : ~ (y < x)
  <2>1. SUFFICES ASSUME NEW y \in S, y < x
                 PROVE  FALSE
    OBVIOUS
  <2>2. <<y, x>> \in Nat \X Nat /\ <<y, x>>[1] < <<y, x>>[2]
    BY <2>1
  <2>3. <<y, x>> \in OpToRel(<, Nat)
    BY <2>2 DEF OpToRel
  <2> QED BY <1>1, <2>3
<1> QED BY <1>2

\* A set of places that has an element has a greatest one.
LEMMA GreatestExists ==
    ASSUME NEW n \in Nat, NEW S \in SUBSET (1..n), S # {}
    PROVE  \E x \in S : \A y \in S : y <= x
<1> DEFINE Mirror == {u \in 0..n : n - u \in S}
<1>1. Mirror \in SUBSET Nat /\ Mirror # {}
  <2>1. PICK s \in S : TRUE
    OBVIOUS
  <2>2. n - s \in 0..n /\ n - (n - s) = s
    OBVIOUS
  <2>3. n - s \in Mirror
    BY <2>2
  <2>4. \A u \in Mirror : u \in Nat
    OBVIOUS
  <2> HIDE DEF Mirror
  <2> QED BY <2>3, <2>4
<1>2. PICK u \in Mirror : \A v \in Mirror : u <= v
    BY <1>1, LeastExists
<1>3. n - u \in S
    BY <1>2
<1>4. \A y \in S : y <= n - u
  <2>1. SUFFICES ASSUME NEW y \in S
                 PROVE  y <= n - u
    OBVIOUS
  <2>2. n - y \in 0..n /\ n - (n - y) = y
    OBVIOUS
  <2>3. u <= n - y
    BY <1>2, <2>2
  <2> QED BY <1>2, <2>3
<1> QED BY <1>3, <1>4

\* f starts at a, and the step gives each further value from the one before it.
Recurs(f, n, a, step) ==
    /\ f[0] = a
    /\ \A k \in 1..n : f[k] = step[<<k, f[k - 1]>>]

\* A function by recursion along 1..n exists, whatever its start and its step.
LEMMA Recursion ==
    ASSUME NEW n \in Nat, NEW S, NEW a \in S, NEW step \in [(1..n) \X S -> S]
    PROVE  \E f \in [0..n -> S] : Recurs(f, n, a, step)
<1> DEFINE Upto(m, f) == /\ f \in [0..m -> S]
                         /\ f[0] = a
                         /\ \A k \in 1..m : f[k] = step[<<k, f[k - 1]>>]
           Missing == {m \in 0..n : ~ \E f \in [0..m -> S] : Upto(m, f)}
<1>1. SUFFICES ASSUME Missing # {}
               PROVE  FALSE
    BY n \in 0..n DEF Recurs
<1>2. Missing \in SUBSET Nat
    OBVIOUS
<1>3. PICK m \in Missing : \A y \in Missing : m <= y
  <2> HIDE DEF Missing
  <2> QED BY <1>1, <1>2, LeastExists
<1>4. m \in 0..n /\ ~ \E f \in [0..m -> S] : Upto(m, f)
    BY <1>3
<1>5. m # 0
  <2>1. SUFFICES ASSUME m = 0
                 PROVE  FALSE
    OBVIOUS
  <2>2. [k \in 0..0 |-> a] \in [0..m -> S] /\ Upto(m, [k \in 0..0 |-> a])
    BY <2>1
  <2> QED BY <1>4, <2>2
<1>6. m - 1 \in 0..n /\ m - 1 \notin Missing
    BY <1>3, <1>4, <1>5
<1>7. PICK f \in [0..(m - 1) -> S] : Upto(m - 1, f)
    BY <1>6
<1> DEFINE g == [k \in 0..m |-> IF k = m THEN step[<<m, f[m - 1]>>] ELSE f[k]]
<1>8. step[<<m, f[m - 1]>>] \in S
    BY <1>4, <1>5, <1>7
<1>9. g \in [0..m -> S] /\ Upto(m, g)
  <2>1. g \in [0..m -> S]
    BY <1>4, <1>5, <1>8
  <2>2. g[0] = a
    BY <1>4, <1>5, <1>7
  <2>3. \A k \in 1..m : g[k] = step[<<k, g[k - 1]>>]
    <3>1. SUFFICES ASSUME NEW k \in 1..m
                   PROVE  g[k] = step[<<k, g[k - 1]>>]
        OBVIOUS
    <3>2. k - 1 \in 0..m /\ k - 1 # m /\ g[k - 1] = f[k - 1]
        BY <1>4, <1>5
    <3>3. CASE k = m
        BY <3>2, <3>3, <1>4, <1>5
    <3>4. CASE k # m
      <4>1. k \in 1..(m - 1) /\ g[k] = f[k]
        BY <3>4, <1>4, <1>5
      <4>2. f[k] = step[<<k, f[k - 1]>>]
        BY <4>1, <1>7
      <4> HIDE DEF g
      <4> QED BY <4>1, <4>2, <3>2
    <3> QED BY <3>3, <3>4
  <2> QED BY <2>1, <2>2, <2>3
<1> QED BY <1>4, <1>9
=============================================================================
