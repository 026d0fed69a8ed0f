-------------------------------- MODULE Sums --------------------------------
(***************************************************************************)
(* Sums and products over finite sets: what the folds of the community     *)
(* modules compute (scoring/allocation.py and yield_score.py add up shares *)
(* and charges), for the proofs about the modules that use them.           *)
(*                                                                         *)
(* An induction is over the members of a set here, so that it can be cited *)
(* where the library's theorems would take a predicate.                    *)
(***************************************************************************)
EXTENDS Integers, Functions, FiniteSetTheorems, TLAPS

-----------------------------------------------------------------------------
(* Division. *)

\* Quotient and remainder.
LEMMA Division ==
  ASSUME NEW a \in Nat, NEW t \in Nat \ {0}
  PROVE  /\ a \div t \in Nat /\ a % t \in Nat /\ a % t < t
         /\ a = t * (a \div t) + (a % t)
OBVIOUS

\* The quotient is the largest number that goes in.
LEMMA Quotient ==
  ASSUME NEW a \in Nat, NEW t \in Nat \ {0}, NEW q \in Nat
  PROVE  /\ t * q <= a => q <= a \div t
         /\ a < t * q + t => a \div t <= q
<1>1. /\ a \div t \in Nat /\ a % t \in Nat /\ a % t < t
      /\ a = t * (a \div t) + (a % t)
  BY Division
<1>2. \A d, r \in Nat : r < t => /\ t * q <= t * d + r => q <= d
                                 /\ t * d + r < t * q + t => d <= q
  <2>1. SUFFICES ASSUME NEW d \in Nat, NEW r \in Nat, r < t
                 PROVE  /\ t * q <= t * d + r => q <= d
                        /\ t * d + r < t * q + t => d <= q
    OBVIOUS
  <2>2. \A x, y \in Nat : x + 1 <= y => t * x + t <= t * y
    <3>1. \A x, z \in Nat : t * (x + 1 + z) = t * x + t + t * z /\ t * z \in Nat
      OBVIOUS
    <3>2. \A x, y \in Nat : x + 1 <= y => y - (x + 1) \in Nat /\ x + 1 + (y - (x + 1)) = y
      OBVIOUS
    <3>3. ASSUME NEW x \in Nat, NEW y \in Nat, x + 1 <= y PROVE t * x + t <= t * y
      <4>1. PICK z \in Nat : x + 1 + z = y
        BY <3>2, <3>3
      <4>2. t * y = t * x + t + t * z /\ t * z \in Nat /\ t * x \in Nat
        BY <3>1, <4>1
      <4>. QED BY <4>2
    <3>. QED BY <3>3
  <2>3. t * d \in Nat /\ t * q \in Nat
    OBVIOUS
  <2>4. ASSUME t * q <= t * d + r, d + 1 <= q PROVE FALSE
    <3>1. t * d + t <= t * q
      BY <2>2, <2>4
    <3>. QED BY <2>1, <2>3, <2>4, <3>1
  <2>5. ASSUME t * d + r < t * q + t, q + 1 <= d PROVE FALSE
    <3>1. t * q + t <= t * d
      BY <2>2, <2>5
    <3>. QED BY <2>1, <2>3, <2>5, <3>1
  <2>. QED BY <2>4, <2>5
<1>. QED BY <1>1, <1>2

\* A common factor cancels.
LEMMA Cancels ==
  ASSUME NEW p \in Nat \ {0}, NEW x \in Nat, NEW y \in Nat
  PROVE  p * x <= p * y <=> x <= y
<1>1. \A a, b \in Nat : a <= b => p * a <= p * b
  <2>1. \A a, z \in Nat : p * (a + z) = p * a + p * z /\ p * z \in Nat /\ p * a \in Nat
    OBVIOUS
  <2>2. ASSUME NEW a \in Nat, NEW b \in Nat, a <= b PROVE p * a <= p * b
    <3>1. b - a \in Nat /\ a + (b - a) = b
      BY <2>2
    <3>2. p * b = p * a + p * (b - a) /\ p * (b - a) \in Nat /\ p * a \in Nat
      BY <2>1, <3>1
    <3>. QED BY <3>2
  <2>. QED BY <2>2
<1>2. ASSUME p * x <= p * y, y + 1 <= x PROVE FALSE
  <2>1. p * (y + 1) <= p * x
    BY <1>1, <1>2
  <2>2. p * (y + 1) = p * y + p /\ p * y \in Nat /\ p * x \in Nat
    OBVIOUS
  <2>. QED BY <1>2, <2>1, <2>2
<1>. QED BY <1>1, <1>2

-----------------------------------------------------------------------------
(* Induction. *)

\* A set of naturals that is not empty has a least member.
LEMMA LeastNatural ==
  ASSUME NEW S \in SUBSET Nat, S # {}
  PROVE  \E m \in S : \A y \in S : m <= y
<1>1. \E R : IsWellFoundedOn(R, Nat) /\ \A x, y \in Nat : x < y => <<x, y>> \in R
  <2>1. \A x, y \in Nat : x < y => <<x, y>> \in OpToRel(<, Nat)
    BY DEF OpToRel
  <2>. WITNESS OpToRel(<, Nat)
  <2>. QED BY <2>1, NatLessThanWellFounded
<1>2. PICK R : IsWellFoundedOn(R, Nat) /\ \A x, y \in Nat : x < y => <<x, y>> \in R
  BY <1>1
<1>3. IsWellFoundedOn(R, Nat) /\ S \subseteq Nat /\ S # {}
  BY <1>2
<1>4. PICK m \in S : \A y \in S : ~(<<y, m>> \in R)
  BY <1>3, WFMin, Zenon
<1>5. \A y \in S : ~(y < m)
  BY <1>2, <1>4
<1>. QED BY <1>4, <1>5

\* A set of naturals with 0, and with n + 1 where it has n, is all of them.
LEMMA NaturalsFromZero ==
  ASSUME NEW N \in SUBSET Nat, 0 \in N, \A n \in N : n + 1 \in N
  PROVE  N = Nat
<1>. SUFFICES ASSUME N # Nat PROVE FALSE
  OBVIOUS
<1>1. PICK m \in Nat \ N : \A y \in Nat \ N : m <= y
  <2>1. Nat \ N \in SUBSET Nat /\ Nat \ N # {}
    OBVIOUS
  <2>. QED BY <2>1, LeastNatural
<1>2. m - 1 \in Nat /\ m - 1 < m /\ (m - 1) + 1 = m
  BY <1>1
<1>3. m - 1 \in N
  BY <1>1, <1>2
<1>. QED BY <1>1, <1>2, <1>3

\* The subsets of a finite set are what is reached from the empty one by adding members.
LEMMA SubsetsFromEmpty ==
  ASSUME NEW S, IsFiniteSet(S), NEW B \in SUBSET (SUBSET S), {} \in B,
         \A T \in SUBSET S : T # {} /\ (\A x \in T : T \ {x} \in B) => T \in B
  PROVE  B = SUBSET S
<1>. DEFINE N == {n \in Nat : \A T \in SUBSET S : Cardinality(T) = n => T \in B}
<1>1. \A T \in SUBSET S : IsFiniteSet(T) /\ Cardinality(T) \in Nat
  BY FS_Subset, FS_CardinalityType
<1>2. 0 \in N
  <2>1. \A T \in SUBSET S : Cardinality(T) = 0 => T = {}
    BY <1>1, FS_EmptySet
  <2>. QED BY <2>1
<1>3. ASSUME NEW n \in N PROVE n + 1 \in N
  <2>1. SUFFICES ASSUME NEW T \in SUBSET S, Cardinality(T) = n + 1 PROVE T \in B
    OBVIOUS
  <2>2. T # {}
    BY <1>3, <2>1, FS_EmptySet
  <2>3. ASSUME NEW x \in T PROVE T \ {x} \in B
    <3>1. Cardinality(T \ {x}) = n
      BY <1>1, <1>3, <2>1, FS_RemoveElement
    <3>. QED BY <1>3, <3>1
  <2>. QED BY <2>2, <2>3
<1>4. N = Nat
  <2>. HIDE DEF N
  <2>1. N \in SUBSET Nat
    BY DEF N
  <2>. QED BY <1>2, <1>3, <2>1, NaturalsFromZero
<1>. QED BY <1>1, <1>4

-----------------------------------------------------------------------------
(* Numberings. *)

\* When the members of a set are numbered from 0, k of them have a number below k.
LEMMA FirstOfNumbering ==
  ASSUME NEW S, IsFiniteSet(S), NEW a \in [S -> Nat],
         \A x \in S : a[x] < Cardinality(S),
         \A x, y \in S : x # y => a[x] # a[y],
         NEW k \in Nat, k <= Cardinality(S)
  PROVE  Cardinality({x \in S : a[x] < k}) = k
<1>. DEFINE n == Cardinality(S)
            T == 0 .. n - 1
            First == {x \in S : a[x] < k}
            f == [x \in First |-> a[x]]
            Low == 0 .. k - 1
<1>1. n \in Nat
  BY FS_CardinalityType
<1>2. IsFiniteSet(T) /\ Cardinality(T) = n /\ IsFiniteSet(Low) /\ Cardinality(Low) = k
  <2>1. ASSUME NEW m \in Nat PROVE IsFiniteSet(0 .. m - 1) /\ Cardinality(0 .. m - 1) = m
    <3>1. 0 \in Int /\ m - 1 \in Int /\ (IF 0 > m - 1 THEN 0 ELSE (m - 1) - 0 + 1) = m
      OBVIOUS
    <3>. QED BY <3>1, FS_Interval
  <2>. QED BY <1>1, <2>1
<1>3. a \in Injection(S, T)
  BY <1>1 DEF Injection, IsInjective
<1>4. a \in Surjection(S, T)
  BY <1>2, <1>3, FS_Injection
<1>5. f \in Injection(First, Low)
  BY DEF Injection, IsInjective
<1>6. ASSUME NEW t \in Low PROVE \E x \in First : f[x] = t
  <2>1. t \in T /\ t < k
    BY <1>1
  <2>2. PICK x \in S : a[x] = t
    BY <1>4, <2>1 DEF Surjection
  <2>. QED BY <2>1, <2>2
<1>7. f \in Surjection(First, Low)
  BY <1>6 DEF Surjection
<1>. QED BY <1>2, <1>5, <1>7, FS_Injection

-----------------------------------------------------------------------------
(* What a fold computes. *)

\* The member of a set that a fold takes first.
Pick(s) == CHOOSE x \in s : TRUE

\* A set that is not empty has it.
LEMMA PickIsIn == ASSUME NEW s, s # {} PROVE Pick(s) \in s
BY DEF Pick

\* it is the fold of F over the subsets of S, from b.
Folding(it, S, b, F) ==
  \A s \in SUBSET S : it[s] = IF s = {} THEN b ELSE F[<<Pick(s), it[s \ {Pick(s)}]>>]

\* A fold over a finite set is well defined and has the type of its step.
LEMMA FoldExists ==
  ASSUME NEW S, IsFiniteSet(S), NEW A, NEW b \in A, NEW F \in [S \X A -> A]
  PROVE  \E it \in [SUBSET S -> A] : Folding(it, S, b, F)
<1>. DEFINE D(n) == {s \in SUBSET S : Cardinality(s) <= n}
            Folds(it, n) == \A s \in D(n) :
              it[s] = IF s = {} THEN b ELSE F[<<Pick(s), it[s \ {Pick(s)}]>>]
            N == {n \in Nat : \E it \in [D(n) -> A] : Folds(it, n)}
<1>1. \A s \in SUBSET S : IsFiniteSet(s) /\ Cardinality(s) \in Nat /\ Cardinality(s) <= Cardinality(S)
  BY FS_Subset, FS_CardinalityType
<1>2. 0 \in N
  <2>1. \A s \in D(0) : s = {}
    BY <1>1, FS_EmptySet
  <2>. DEFINE it == [s \in D(0) |-> b]
  <2>2. it \in [D(0) -> A] /\ Folds(it, 0)
    BY <2>1
  <2>. QED BY <2>2
<1>3. ASSUME NEW n \in N PROVE n + 1 \in N
  <2>1. PICK it \in [D(n) -> A] : Folds(it, n)
    BY <1>3
  <2>. DEFINE up == [s \in D(n + 1) |-> IF s = {} THEN b ELSE F[<<Pick(s), it[s \ {Pick(s)}]>>]]
  <2>2. ASSUME NEW s \in D(n + 1), s # {} PROVE Pick(s) \in S /\ s \ {Pick(s)} \in D(n)
    <3>1. Pick(s) \in s
      BY <2>2, PickIsIn
    <3>2. Cardinality(s \ {Pick(s)}) = Cardinality(s) - 1
      BY <1>1, <3>1, FS_RemoveElement
    <3>. QED BY <1>1, <1>3, <3>1, <3>2
  <2>3. up \in [D(n + 1) -> A]
    BY <2>1, <2>2
  <2>4. ASSUME NEW s \in D(n) PROVE s \in D(n + 1) /\ up[s] = it[s]
    <3>1. s \in D(n + 1)
      BY <1>1, <1>3
    <3>. QED BY <2>1, <3>1
  <2>5. Folds(up, n + 1)
    BY <2>2, <2>4
  <2>6. n + 1 \in Nat
    BY <1>3
  <2>. HIDE DEF up, Folds, D
  <2>. QED BY <2>3, <2>5, <2>6
<1>4. N = Nat
  <2>. HIDE DEF N
  <2>1. N \in SUBSET Nat
    BY DEF N
  <2>. QED BY <1>2, <1>3, <2>1, NaturalsFromZero
<1>5. Cardinality(S) \in N
  BY <1>4, FS_CardinalityType
<1>6. D(Cardinality(S)) = SUBSET S
  BY <1>1
<1>. QED BY <1>5, <1>6 DEF Folding

-----------------------------------------------------------------------------
(* Sums. *)

\* The sum over every subset of a finite set, from the sum over what is left when its
\* first member is taken.
LEMMA SumUnfolds ==
  ASSUME NEW S, IsFiniteSet(S), NEW v, \A x \in S : v[x] \in Nat
  PROVE  /\ SumFunctionOnSet(v, S) \in Nat
         /\ SumFunctionOnSet(v, S) = IF S = {} THEN 0
              ELSE v[Pick(S)] + SumFunctionOnSet(v, S \ {Pick(S)})
<1>. DEFINE F == [p \in S \X Nat |-> v[p[1]] + p[2]]
            Unfolds(it, T) == it = [s \in SUBSET T |-> IF s = {} THEN 0
                                                        ELSE v[Pick(s)] + it[s \ {Pick(s)}]]
<1>1. \A T : SumFunctionOnSet(v, T) = (CHOOSE it : Unfolds(it, T))[T]
  BY Zenon DEF SumFunctionOnSet, FoldFunctionOnSet, MapThenFoldSet, Pick
<1>2. F \in [S \X Nat -> Nat]
  OBVIOUS
<1>3. \A x \in S : \A a \in Nat : F[<<x, a>>] = v[x] + a
  OBVIOUS
<1>. HIDE DEF F
<1>4. PICK all \in [SUBSET S -> Nat] :
             Folding(all, S, 0, F)
  <2>1. 0 \in Nat
    OBVIOUS
  <2>. QED BY <1>2, <2>1, FoldExists, Zenon
<1>5. \A s \in SUBSET S : s # {} => Pick(s) \in S /\ s \ {Pick(s)} \in SUBSET S
  BY PickIsIn
<1>6. \A s \in SUBSET S : all[s] = IF s = {} THEN 0 ELSE v[Pick(s)] + all[s \ {Pick(s)}]
  BY <1>3, <1>4, <1>5 DEF Folding
<1>7. ASSUME NEW T \in SUBSET S PROVE SumFunctionOnSet(v, T) = all[T]
  <2>. DEFINE some == [s \in SUBSET T |-> all[s]]
  <2>1. Unfolds(some, T)
    BY <1>5, <1>6, PickIsIn
  <2>. DEFINE it == CHOOSE it : Unfolds(it, T)
  <2>2. Unfolds(it, T)
    BY <2>1
  <2>. HIDE DEF it
  <2>3. ASSUME NEW s \in SUBSET T PROVE it[s] = IF s = {} THEN 0 ELSE v[Pick(s)] + it[s \ {Pick(s)}]
    BY <2>2
  <2>. DEFINE B == {s \in SUBSET T : it[s] = all[s]}
  <2>4. {} \in B
    BY <1>6, <2>3
  <2>5. ASSUME NEW s \in SUBSET T, s # {}, \A x \in s : s \ {x} \in B PROVE s \in B
    BY <1>6, <2>3, <2>5, PickIsIn
  <2>6. B = SUBSET T
    <3>1. IsFiniteSet(T)
      BY FS_Subset
    <3>. HIDE DEF B
    <3>2. B \in SUBSET (SUBSET T)
      BY DEF B
    <3>. QED BY <2>4, <2>5, <3>1, <3>2, SubsetsFromEmpty
  <2>7. it[T] = all[T]
    BY <2>6
  <2>. QED BY <1>1, <2>7 DEF it
<1>. QED BY <1>5, <1>6, <1>7

\* A sum is a natural, and none but 0 over no members.
LEMMA SumType ==
  ASSUME NEW S, IsFiniteSet(S), NEW v, \A x \in S : v[x] \in Nat
  PROVE  SumFunctionOnSet(v, S) \in Nat /\ (S = {} => SumFunctionOnSet(v, S) = 0)
BY SumUnfolds

\* Any member may be taken first.
LEMMA SumTakes ==
  ASSUME NEW S, IsFiniteSet(S), NEW v, \A x \in S : v[x] \in Nat, NEW x \in S
  PROVE  /\ SumFunctionOnSet(v, S) = v[x] + SumFunctionOnSet(v, S \ {x})
         /\ SumFunctionOnSet(v, S \ {x}) \in Nat
<1>. DEFINE Sum(T) == SumFunctionOnSet(v, T)
            B == {T \in SUBSET S : \A y \in T : Sum(T) = v[y] + Sum(T \ {y})}
<1>1. \A T \in SUBSET S : IsFiniteSet(T) /\ \A y \in T : v[y] \in Nat
  BY FS_Subset
<1>2. \A T \in SUBSET S : Sum(T) \in Nat /\ (T # {} => Sum(T) = v[Pick(T)] + Sum(T \ {Pick(T)}))
  BY <1>1, SumUnfolds
<1>. HIDE DEF Sum
<1>3. {} \in B
  OBVIOUS
<1>4. ASSUME NEW T \in SUBSET S, T # {}, \A y \in T : T \ {y} \in B PROVE T \in B
  <2>. DEFINE p == Pick(T)
  <2>1. p \in T /\ Sum(T) = v[p] + Sum(T \ {p}) /\ T \ {p} \in B
    BY <1>2, <1>4, PickIsIn
  <2>. HIDE DEF p
  <2>2. ASSUME NEW y \in T PROVE Sum(T) = v[y] + Sum(T \ {y})
    <3>1. CASE y = p
      BY <2>1, <3>1
    <3>2. CASE y # p
      <4>1. Sum(T \ {p}) = v[y] + Sum((T \ {p}) \ {y})
        BY <2>1, <2>2, <3>2
      <4>2. Sum(T \ {y}) = v[p] + Sum((T \ {y}) \ {p})
        BY <1>4, <2>1, <2>2, <3>2
      <4>3. (T \ {p}) \ {y} = (T \ {y}) \ {p} /\ (T \ {p}) \ {y} \in SUBSET S
        OBVIOUS
      <4>4. v[p] \in Nat /\ v[y] \in Nat /\ Sum((T \ {p}) \ {y}) \in Nat
        BY <1>2, <2>1, <4>3
      <4>. QED BY <2>1, <4>1, <4>2, <4>3, <4>4
    <3>. QED BY <3>1, <3>2
  <2>. QED BY <2>2
<1>5. B = SUBSET S
  <2>. HIDE DEF B
  <2>1. B \in SUBSET (SUBSET S)
    BY DEF B
  <2>. QED BY <1>3, <1>4, <2>1, SubsetsFromEmpty
<1>6. Sum(S) = v[x] + Sum(S \ {x}) /\ S \ {x} \in SUBSET S
  BY <1>5
<1>. QED BY <1>2, <1>6 DEF Sum

\* No part of a sum exceeds it.
LEMMA SumOfPart ==
  ASSUME NEW S, IsFiniteSet(S), NEW v, \A x \in S : v[x] \in Nat, NEW T \in SUBSET S
  PROVE  SumFunctionOnSet(v, T) <= SumFunctionOnSet(v, S)
<1>. DEFINE Sum(R) == SumFunctionOnSet(v, R)
            B == {R \in SUBSET S : T \subseteq R => Sum(T) <= Sum(R)} 
<1>1. \A R \in SUBSET S : IsFiniteSet(R) /\ (\A y \in R : v[y] \in Nat) /\ Sum(R) \in Nat
  BY FS_Subset, SumType
<1>2. \A R \in SUBSET S : \A y \in R : Sum(R) = v[y] + Sum(R \ {y})
  BY <1>1, SumTakes
<1>. HIDE DEF Sum
<1>3. {} \in B
  <2>1. T \subseteq {} => T = {}
    OBVIOUS
  <2>2. Sum({}) \in Nat
    BY <1>1
  <2>. QED BY <2>1, <2>2
<1>4. ASSUME NEW R \in SUBSET S, R # {}, \A y \in R : R \ {y} \in B PROVE R \in B
  <2>1. SUFFICES ASSUME T \subseteq R PROVE Sum(T) <= Sum(R)
    OBVIOUS
  <2>2. CASE T = R
    BY <1>1, <2>2
  <2>3. CASE T # R
    <3>1. PICK y \in R : y \notin T
      BY <2>1, <2>3
    <3>2. Sum(T) <= Sum(R \ {y}) /\ Sum(R) = v[y] + Sum(R \ {y})
      BY <1>2, <1>4, <2>1, <3>1
    <3>3. v[y] \in Nat /\ Sum(R \ {y}) \in Nat /\ Sum(T) \in Nat
      BY <1>1
    <3>. QED BY <3>2, <3>3
  <2>. QED BY <2>2, <2>3
<1>5. B = SUBSET S
  <2>. HIDE DEF B
  <2>1. B \in SUBSET (SUBSET S)
    BY DEF B
  <2>. QED BY <1>3, <1>4, <2>1, SubsetsFromEmpty
<1>. QED BY <1>5 DEF Sum

\* Sums add up term by term, and a common factor goes outside.
LEMMA SumAdds ==
  ASSUME NEW S, IsFiniteSet(S), NEW v, \A x \in S : v[x] \in Nat,
         NEW w, \A x \in S : w[x] \in Nat, NEW c \in Nat,
         NEW u, \A x \in S : u[x] = c * v[x] + w[x]
  PROVE  SumFunctionOnSet(u, S) = c * SumFunctionOnSet(v, S) + SumFunctionOnSet(w, S)
<1>. DEFINE V(R) == SumFunctionOnSet(v, R)
            W(R) == SumFunctionOnSet(w, R)
            U(R) == SumFunctionOnSet(u, R)
            B == {R \in SUBSET S : U(R) = c * V(R) + W(R)} 
<1>1. \A R \in SUBSET S : IsFiniteSet(R)
  BY FS_Subset
<1>2. \A x \in S : u[x] \in Nat
  OBVIOUS
<1>3. \A R \in SUBSET S : V(R) \in Nat /\ W(R) \in Nat /\ U(R) \in Nat
  BY <1>1, <1>2, SumType
<1>4. \A R \in SUBSET S : \A y \in R : /\ V(R) = v[y] + V(R \ {y})
                                       /\ W(R) = w[y] + W(R \ {y})
                                       /\ U(R) = u[y] + U(R \ {y})
  BY <1>1, <1>2, SumTakes
<1>5. {} \in B
  <2>1. V({}) = 0 /\ W({}) = 0 /\ U({}) = 0
    BY <1>1, SumType
  <2>. HIDE DEF U, V, W
  <2>. QED BY <2>1
<1>. HIDE DEF U, V, W
<1>6. ASSUME NEW R \in SUBSET S, R # {}, \A y \in R : R \ {y} \in B PROVE R \in B
  <2>1. PICK y \in R : TRUE
    BY <1>6
  <2>2. U(R \ {y}) = c * V(R \ {y}) + W(R \ {y}) /\ R \ {y} \in SUBSET S
    BY <1>6, <2>1
  <2>3. /\ v[y] \in Nat /\ w[y] \in Nat /\ u[y] = c * v[y] + w[y]
        /\ V(R \ {y}) \in Nat /\ W(R \ {y}) \in Nat /\ c \in Nat
    BY <1>3, <2>1, <2>2
  <2>4. \A a, p, q, x, z \in Nat : a * (p + q) + (x + z) = (a * p + x) + (a * q + z)
    OBVIOUS
  <2>5. c * (v[y] + V(R \ {y})) + (w[y] + W(R \ {y}))
          = (c * v[y] + w[y]) + (c * V(R \ {y}) + W(R \ {y}))
    BY <2>3, <2>4
  <2>6. U(R) = c * V(R) + W(R)
    BY <1>4, <2>1, <2>2, <2>3, <2>5
  <2>. QED BY <2>6
<1>7. B = SUBSET S
  <2>. HIDE DEF B
  <2>1. B \in SUBSET (SUBSET S)
    BY DEF B
  <2>. QED BY <1>5, <1>6, <2>1, SubsetsFromEmpty
<1>. QED BY <1>7 DEF U, V, W

\* A sum of equal terms is a product.
LEMMA SumOfEqual ==
  ASSUME NEW S, IsFiniteSet(S), NEW c \in Nat, NEW v, \A x \in S : v[x] = c
  PROVE  SumFunctionOnSet(v, S) = c * Cardinality(S)
<1>. DEFINE V(R) == SumFunctionOnSet(v, R)
            B == {R \in SUBSET S : V(R) = c * Cardinality(R)} 
<1>1. \A R \in SUBSET S : IsFiniteSet(R) /\ Cardinality(R) \in Nat
  BY FS_Subset, FS_CardinalityType
<1>2. \A x \in S : v[x] \in Nat
  OBVIOUS
<1>3. \A R \in SUBSET S : V(R) \in Nat
  BY <1>1, <1>2, SumType
<1>4. \A R \in SUBSET S : \A y \in R : V(R) = v[y] + V(R \ {y})
  BY <1>1, <1>2, SumTakes
<1>5. {} \in B
  <2>1. V({}) = 0 /\ Cardinality({}) = 0
    BY <1>1, SumType, FS_EmptySet
  <2>. HIDE DEF V
  <2>. QED BY <2>1
<1>. HIDE DEF V
<1>6. ASSUME NEW R \in SUBSET S, R # {}, \A y \in R : R \ {y} \in B PROVE R \in B
  <2>1. PICK y \in R : TRUE
    BY <1>6
  <2>2. V(R \ {y}) = c * Cardinality(R \ {y}) /\ V(R) = c + V(R \ {y})
    BY <1>4, <1>6, <2>1
  <2>3. Cardinality(R) = Cardinality(R \ {y}) + 1 /\ Cardinality(R \ {y}) \in Nat
    BY <1>1, <2>1, FS_RemoveElement
  <2>4. \A a, p \in Nat : a * (p + 1) = a + a * p
    OBVIOUS
  <2>5. V(R) = c * Cardinality(R)
    BY <2>2, <2>3, <2>4
  <2>. QED BY <2>5
<1>7. B = SUBSET S
  <2>. HIDE DEF B
  <2>1. B \in SUBSET (SUBSET S)
    BY DEF B
  <2>. QED BY <1>5, <1>6, <2>1, SubsetsFromEmpty
<1>. QED BY <1>7 DEF V

\* Larger terms make a larger sum.
LEMMA SumIsMonotone ==
  ASSUME NEW S, IsFiniteSet(S), NEW v, \A x \in S : v[x] \in Nat,
         NEW w, \A x \in S : w[x] \in Nat /\ v[x] <= w[x]
  PROVE  SumFunctionOnSet(v, S) <= SumFunctionOnSet(w, S)
<1>. DEFINE d == [x \in S |-> w[x] - v[x]]
<1>1. \A x \in S : d[x] \in Nat /\ w[x] = 1 * v[x] + d[x]
  OBVIOUS
<1>. HIDE DEF d
<1>2. SumFunctionOnSet(w, S) = 1 * SumFunctionOnSet(v, S) + SumFunctionOnSet(d, S)
  BY <1>1, SumAdds
<1>3. SumFunctionOnSet(v, S) \in Nat /\ SumFunctionOnSet(d, S) \in Nat
  BY <1>1, SumType
<1>. QED BY <1>2, <1>3

\* Equal terms make equal sums.
LEMMA SumIsOfTerms ==
  ASSUME NEW S, IsFiniteSet(S), NEW v, \A x \in S : v[x] \in Nat,
         NEW w, \A x \in S : w[x] = v[x]
  PROVE  SumFunctionOnSet(w, S) = SumFunctionOnSet(v, S)
<1>1. SumFunctionOnSet(w, S) <= SumFunctionOnSet(v, S) /\ SumFunctionOnSet(v, S) <= SumFunctionOnSet(w, S)
  BY SumIsMonotone
<1>2. SumFunctionOnSet(v, S) \in Nat /\ SumFunctionOnSet(w, S) \in Nat
  BY SumType
<1>. QED BY <1>1, <1>2

\* A sum of ones and zeros counts the ones.
LEMMA SumOfBits ==
  ASSUME NEW S, IsFiniteSet(S), NEW v, \A x \in S : v[x] \in {0, 1}
  PROVE  SumFunctionOnSet(v, S) = Cardinality({x \in S : v[x] = 1})
<1>. DEFINE V(R) == SumFunctionOnSet(v, R)
            Ones(R) == {x \in R : v[x] = 1}
            B == {R \in SUBSET S : V(R) = Cardinality(Ones(R))} 
<1>1. \A R \in SUBSET S : IsFiniteSet(R) /\ IsFiniteSet(Ones(R)) /\ Cardinality(Ones(R)) \in Nat
  BY FS_Subset, FS_CardinalityType
<1>2. \A x \in S : v[x] \in Nat
  OBVIOUS
<1>4. \A R \in SUBSET S : \A y \in R : V(R) = v[y] + V(R \ {y})
  BY <1>1, <1>2, SumTakes
<1>5. {} \in B
  <2>1. V({}) = 0 /\ Cardinality({}) = 0 /\ Ones({}) = {}
    BY <1>1, SumType, FS_EmptySet
  <2>. HIDE DEF V, Ones
  <2>. QED BY <2>1
<1>. HIDE DEF V
<1>6. ASSUME NEW R \in SUBSET S, R # {}, \A y \in R : R \ {y} \in B PROVE R \in B
  <2>1. PICK y \in R : TRUE
    BY <1>6
  <2>2. V(R \ {y}) = Cardinality(Ones(R \ {y})) /\ V(R) = v[y] + V(R \ {y})
    BY <1>4, <1>6, <2>1
  <2>3. Cardinality(Ones(R \ {y})) \in Nat /\ IsFiniteSet(Ones(R \ {y}))
    BY <1>1
  <2>4. CASE v[y] = 1
    <3>1. Ones(R) = Ones(R \ {y}) \cup {y} /\ y \notin Ones(R \ {y})
      BY <2>1, <2>4
    <3>2. Cardinality(Ones(R)) = Cardinality(Ones(R \ {y})) + 1
      BY <2>3, <3>1, FS_AddElement
    <3>. QED BY <2>2, <2>3, <2>4, <3>2
  <2>5. CASE v[y] = 0
    <3>1. Ones(R) = Ones(R \ {y})
      BY <2>1, <2>5
    <3>. QED BY <2>2, <2>3, <2>5, <3>1
  <2>. QED BY <2>1, <2>4, <2>5
<1>7. B = SUBSET S
  <2>. HIDE DEF B
  <2>1. B \in SUBSET (SUBSET S)
    BY DEF B
  <2>. QED BY <1>5, <1>6, <2>1, SubsetsFromEmpty
<1>. QED BY <1>7 DEF V

-----------------------------------------------------------------------------
(* Products. *)

ProductOnSet(v, S) == FoldFunctionOnSet(LAMBDA x, y : x * y, 1, v, S)

\* The product over a finite set, from the product over what is left when its first
\* member is taken.
LEMMA ProductUnfolds ==
  ASSUME NEW S, IsFiniteSet(S), NEW v, \A x \in S : v[x] \in Nat
  PROVE  /\ ProductOnSet(v, S) \in Nat
         /\ ProductOnSet(v, S) = IF S = {} THEN 1
              ELSE v[Pick(S)] * ProductOnSet(v, S \ {Pick(S)})
<1>. DEFINE F == [p \in S \X Nat |-> v[p[1]] * p[2]]
            Unfolds(it, T) == it = [s \in SUBSET T |-> IF s = {} THEN 1
                                                        ELSE v[Pick(s)] * it[s \ {Pick(s)}]]
<1>1. \A T : ProductOnSet(v, T) = (CHOOSE it : Unfolds(it, T))[T]
  BY Zenon DEF ProductOnSet, FoldFunctionOnSet, MapThenFoldSet, Pick
<1>2. F \in [S \X Nat -> Nat]
  OBVIOUS
<1>3. \A x \in S : \A a \in Nat : F[<<x, a>>] = v[x] * a
  OBVIOUS
<1>. HIDE DEF F
<1>4. PICK all \in [SUBSET S -> Nat] :
             Folding(all, S, 1, F)
  <2>1. 1 \in Nat
    OBVIOUS
  <2>. QED BY <1>2, <2>1, FoldExists, Zenon
<1>5. \A s \in SUBSET S : s # {} => Pick(s) \in S /\ s \ {Pick(s)} \in SUBSET S
  BY PickIsIn
<1>6. \A s \in SUBSET S : all[s] = IF s = {} THEN 1 ELSE v[Pick(s)] * all[s \ {Pick(s)}]
  BY <1>3, <1>4, <1>5 DEF Folding
<1>7. ASSUME NEW T \in SUBSET S PROVE ProductOnSet(v, T) = all[T]
  <2>. DEFINE some == [s \in SUBSET T |-> all[s]]
  <2>1. Unfolds(some, T)
    BY <1>5, <1>6, PickIsIn
  <2>. DEFINE it == CHOOSE it : Unfolds(it, T)
  <2>2. Unfolds(it, T)
    BY <2>1
  <2>. HIDE DEF it
  <2>3. ASSUME NEW s \in SUBSET T PROVE it[s] = IF s = {} THEN 1 ELSE v[Pick(s)] * it[s \ {Pick(s)}]
    BY <2>2
  <2>. DEFINE B == {s \in SUBSET T : it[s] = all[s]}
  <2>4. {} \in B
    BY <1>6, <2>3
  <2>5. ASSUME NEW s \in SUBSET T, s # {}, \A x \in s : s \ {x} \in B PROVE s \in B
    BY <1>6, <2>3, <2>5, PickIsIn
  <2>6. B = SUBSET T
    <3>1. IsFiniteSet(T)
      BY FS_Subset
    <3>. HIDE DEF B
    <3>2. B \in SUBSET (SUBSET T)
      BY DEF B
    <3>. QED BY <2>4, <2>5, <3>1, <3>2, SubsetsFromEmpty
  <2>7. it[T] = all[T]
    BY <2>6
  <2>. QED BY <1>1, <2>7 DEF it
<1>. QED BY <1>5, <1>6, <1>7

\* A product of positive factors is positive, and at least each of them.
LEMMA ProductOfPositives ==
  ASSUME NEW S, IsFiniteSet(S), NEW v, \A x \in S : v[x] \in Nat \ {0}
  PROVE  /\ ProductOnSet(v, S) \in Nat \ {0}
         /\ \A x \in S : v[x] <= ProductOnSet(v, S)
<1>. DEFINE P(R) == ProductOnSet(v, R)
            B == {R \in SUBSET S : P(R) \in Nat \ {0} /\ \A x \in R : v[x] <= P(R)}
<1>1. \A R \in SUBSET S : IsFiniteSet(R) /\ \A x \in R : v[x] \in Nat
  BY FS_Subset
<1>2. \A R \in SUBSET S : P(R) = IF R = {} THEN 1 ELSE v[Pick(R)] * P(R \ {Pick(R)})
  BY <1>1, ProductUnfolds
<1>. HIDE DEF P
<1>3. {} \in B
  <2>1. P({}) = 1
    BY <1>2
  <2>. QED BY <2>1
<1>4. ASSUME NEW R \in SUBSET S, R # {}, \A y \in R : R \ {y} \in B PROVE R \in B
  <2>. DEFINE p == Pick(R)
  <2>1. p \in R /\ P(R) = v[p] * P(R \ {p})
    BY <1>2, <1>4, PickIsIn
  <2>. HIDE DEF p
  <2>2. v[p] \in Nat \ {0} /\ P(R \ {p}) \in Nat \ {0} /\ \A x \in R \ {p} : v[x] <= P(R \ {p})
    BY <1>4, <2>1
  <2>3. \A a, b \in Nat \ {0} : a * b \in Nat \ {0} /\ a <= a * b /\ b <= a * b
    OBVIOUS
  <2>4. P(R) \in Nat \ {0} /\ v[p] <= P(R) /\ P(R \ {p}) <= P(R)
    BY <2>1, <2>2, <2>3
  <2>5. ASSUME NEW x \in R PROVE v[x] <= P(R)
    <3>1. CASE x = p
      BY <2>4, <3>1
    <3>2. CASE x # p
      <4>1. v[x] \in Nat /\ v[x] <= P(R \ {p})
        BY <2>2, <3>2
      <4>. QED BY <2>2, <2>4, <4>1
    <3>. QED BY <3>1, <3>2
  <2>. QED BY <2>4, <2>5
<1>5. B = SUBSET S
  <2>. HIDE DEF B
  <2>1. B \in SUBSET (SUBSET S)
    BY DEF B
  <2>. QED BY <1>3, <1>4, <2>1, SubsetsFromEmpty
<1>. QED BY <1>5 DEF P

\* Any factor may be taken first.
LEMMA ProductTakes ==
  ASSUME NEW S, IsFiniteSet(S), NEW v, \A x \in S : v[x] \in Nat, NEW x \in S
  PROVE  /\ ProductOnSet(v, S) = v[x] * ProductOnSet(v, S \ {x})
         /\ ProductOnSet(v, S \ {x}) \in Nat
<1>. DEFINE P(T) == ProductOnSet(v, T)
            B == {T \in SUBSET S : \A y \in T : P(T) = v[y] * P(T \ {y})}
<1>1. \A T \in SUBSET S : IsFiniteSet(T) /\ \A y \in T : v[y] \in Nat
  BY FS_Subset
<1>2. \A T \in SUBSET S : P(T) \in Nat /\ (T # {} => P(T) = v[Pick(T)] * P(T \ {Pick(T)}))
  BY <1>1, ProductUnfolds
<1>. HIDE DEF P
<1>3. {} \in B
  OBVIOUS
<1>4. ASSUME NEW T \in SUBSET S, T # {}, \A y \in T : T \ {y} \in B PROVE T \in B
  <2>. DEFINE p == Pick(T)
  <2>1. p \in T /\ P(T) = v[p] * P(T \ {p}) /\ T \ {p} \in B
    BY <1>2, <1>4, PickIsIn
  <2>. HIDE DEF p
  <2>2. ASSUME NEW y \in T PROVE P(T) = v[y] * P(T \ {y})
    <3>1. CASE y = p
      BY <2>1, <3>1
    <3>2. CASE y # p
      <4>1. P(T \ {p}) = v[y] * P((T \ {p}) \ {y})
        BY <2>1, <2>2, <3>2
      <4>2. P(T \ {y}) = v[p] * P((T \ {y}) \ {p})
        BY <1>4, <2>1, <2>2, <3>2
      <4>3. (T \ {p}) \ {y} = (T \ {y}) \ {p} /\ (T \ {p}) \ {y} \in SUBSET S
        OBVIOUS
      <4>4. v[p] \in Nat /\ v[y] \in Nat /\ P((T \ {p}) \ {y}) \in Nat
        BY <1>2, <2>1, <4>3
      <4>5. \A a, b, c \in Nat : a * (b * c) = b * (a * c)
        OBVIOUS
      <4>. DEFINE rest == P((T \ {p}) \ {y})
      <4>6. v[p] * (v[y] * rest) = v[y] * (v[p] * rest)
        BY <4>4, <4>5
      <4>. QED BY <2>1, <4>1, <4>2, <4>3, <4>6
    <3>. QED BY <3>1, <3>2
  <2>. QED BY <2>2
<1>5. B = SUBSET S
  <2>. HIDE DEF B
  <2>1. B \in SUBSET (SUBSET S)
    BY DEF B
  <2>. QED BY <1>3, <1>4, <2>1, SubsetsFromEmpty
<1>6. P(S) = v[x] * P(S \ {x}) /\ S \ {x} \in SUBSET S
  BY <1>5
<1>. QED BY <1>2, <1>6 DEF P

\* Factors that are larger make a larger product.
LEMMA Factors ==
  ASSUME NEW a \in Nat, NEW b \in Nat, a <= b, NEW p \in Nat \ {0}, NEW q \in Nat, p <= q
  PROVE  a * p <= b * q /\ (a < b => a * p < b * q)
<1>1. b - a \in Nat /\ q - p \in Nat
  OBVIOUS
<1>2. b * q = a * p + (b - a) * p + b * (q - p)
  BY <1>1
<1>3. a * p \in Nat /\ (b - a) * p \in Nat /\ b * (q - p) \in Nat /\ b * q \in Nat
  BY <1>1
<1>4. a < b => (b - a) * p \in Nat \ {0}
  <2>1. \A x, y \in Nat \ {0} : x * y \in Nat \ {0}
    OBVIOUS
  <2>2. a < b => b - a \in Nat \ {0}
    BY <1>1
  <2>. QED BY <2>1, <2>2
<1>. QED BY <1>2, <1>3, <1>4

\* Larger factors make a larger product, and one strictly larger among them a strictly larger one.
LEMMA ProductIsMonotone ==
  ASSUME NEW S, IsFiniteSet(S), NEW v, NEW w,
         \A x \in S : v[x] \in Nat \ {0} /\ w[x] \in Nat /\ v[x] <= w[x]
  PROVE  /\ ProductOnSet(v, S) <= ProductOnSet(w, S)
         /\ \A y \in S : v[y] < w[y] => ProductOnSet(v, S) < ProductOnSet(w, S)
<1>. DEFINE P(T) == ProductOnSet(v, T)
            Q(T) == ProductOnSet(w, T)
            B == {T \in SUBSET S : P(T) <= Q(T)}
<1>1. \A T \in SUBSET S : IsFiniteSet(T) /\ \A y \in T : v[y] \in Nat \ {0} /\ w[y] \in Nat
  BY FS_Subset
<1>2. \A T \in SUBSET S : P(T) \in Nat \ {0} /\ Q(T) \in Nat /\ (T = {} => P(T) = 1 /\ Q(T) = 1)
  BY <1>1, ProductUnfolds, ProductOfPositives
<1>3. \A T \in SUBSET S : \A y \in T : P(T) = v[y] * P(T \ {y}) /\ Q(T) = w[y] * Q(T \ {y})
  BY <1>1, ProductTakes
<1>. HIDE DEF P, Q
<1>4. {} \in B
  BY <1>2
<1>5. ASSUME NEW T \in SUBSET S, NEW y \in T, T \ {y} \in B
      PROVE  P(T) <= Q(T) /\ (v[y] < w[y] => P(T) < Q(T))
  <2>. DEFINE R == T \ {y}
  <2>1. P(R) \in Nat \ {0} /\ Q(R) \in Nat /\ P(R) <= Q(R)
    BY <1>2, <1>5
  <2>2. v[y] \in Nat /\ w[y] \in Nat /\ v[y] <= w[y]
    BY <1>5
  <2>3. P(T) = v[y] * P(R) /\ Q(T) = w[y] * Q(R)
    BY <1>3, <1>5
  <2>. HIDE DEF R
  <2>. QED BY <2>1, <2>2, <2>3, Factors
<1>6. ASSUME NEW T \in SUBSET S, T # {}, \A y \in T : T \ {y} \in B PROVE T \in B
  <2>1. PICK y \in T : TRUE
    BY <1>6
  <2>. QED BY <1>5, <1>6, <2>1
<1>7. B = SUBSET S
  <2>. HIDE DEF B
  <2>1. B \in SUBSET (SUBSET S)
    BY DEF B
  <2>. QED BY <1>4, <1>6, <2>1, SubsetsFromEmpty
<1>8. S \in B /\ \A y \in S : S \ {y} \in B
  BY <1>7
<1>9. \A y \in S : v[y] < w[y] => P(S) < Q(S)
  BY <1>5, <1>8
<1>. QED BY <1>8, <1>9 DEF P, Q
=============================================================================
