---------------------------- MODULE SumTheorems ----------------------------
(***************************************************************************)
(* What the proofs need to know of sums over finite sets, of recursions    *)
(* over 0..n and of extremes.  Functions defines a sum by a recursive      *)
(* function, that is by a CHOOSE: SumExists and SumUnique show that there  *)
(* is exactly one to choose, by induction on the subsets of the set, and   *)
(* the rest follows from SumRemove.                                        *)
(***************************************************************************)
EXTENDS Integers, FiniteSetsExt, Functions, FiniteSetTheorems, TLAPS

-----------------------------------------------------------------------------
(* Induction *)

\* A set of natural numbers that is not empty has a least element.
LEMMA NatMin ==
  ASSUME NEW T \in SUBSET Nat, T # {}
  PROVE  \E m \in T : \A n \in T : m <= n
<1>1. IsWellFoundedOn(OpToRel(<, Nat), Nat)
  BY NatLessThanWellFounded
<1>2. PICK m \in T : \A n \in T : ~ (<<n, m>> \in OpToRel(<, Nat))
  BY <1>1, WFMin
<1>3. \A n \in T : m <= n
  <2> SUFFICES ASSUME NEW n \in T PROVE m <= n
    OBVIOUS
  <2>1. m \in Nat /\ n \in Nat
    BY <1>2
  <2>2. ~ (n < m)
    BY <1>2, <2>1 DEF OpToRel
  <2> QED
    BY <2>1, <2>2
<1> QED
  BY <1>3

\* Induction on the subsets of a finite set: what holds of a set when it holds of
\* its smaller subsets holds of all of them.
LEMMA SetInduction ==
  ASSUME NEW S, IsFiniteSet(S), NEW Good,
         \A s \in SUBSET S : (\A t \in SUBSET s : t # s => t \in Good) => s \in Good
  PROVE  \A s \in SUBSET S : s \in Good
<1> SUFFICES ASSUME NEW r \in SUBSET S, r \notin Good PROVE FALSE
  OBVIOUS
<1> DEFINE bad == {s \in SUBSET S : s \notin Good}
           sizes == {Cardinality(s) : s \in bad}
<1>1. \A s \in SUBSET S : IsFiniteSet(s) /\ Cardinality(s) \in Nat
  BY FS_Subset, FS_CardinalityType
<1>2. sizes \in SUBSET Nat /\ sizes # {}
  BY <1>1
<1>3. PICK m \in sizes : \A n \in sizes : m <= n
  BY <1>2, NatMin
<1>4. PICK s \in bad : Cardinality(s) = m
  BY <1>3
<1>5. \A t \in SUBSET s : t # s => t \in Good
  <2> SUFFICES ASSUME NEW t \in SUBSET s, t # s, t \notin Good PROVE FALSE
    OBVIOUS
  <2>1. t \in bad
    BY <1>4
  <2>2. Cardinality(t) < Cardinality(s)
    BY <1>1, <1>4, FS_Subset, FS_CardinalityType
  <2>3. m <= Cardinality(t)
    BY <1>3, <2>1
  <2> QED
    BY <1>1, <1>4, <2>2, <2>3
<1> QED
  BY <1>4, <1>5

\* Induction on the numbers up to n.
LEMMA UpTo ==
  ASSUME NEW n \in Nat, NEW Good, 0 \in Good, \A k \in 1..n : k - 1 \in Good => k \in Good
  PROVE  \A k \in 0..n : k \in Good
<1> SUFFICES ASSUME NEW k \in 0..n, k \notin Good PROVE FALSE
  OBVIOUS
<1> DEFINE bad == {j \in 0..n : j \notin Good}
<1>1. PICK m \in bad : \A j \in bad : m <= j
  <2>1. bad \in SUBSET Nat /\ bad # {}
    OBVIOUS
  <2> QED
    BY <2>1, NatMin
<1>2. m \in 1..n /\ m - 1 \notin bad
  BY <1>1
<1> QED
  BY <1>1, <1>2

\* f is the run of n steps that begins with v0.
IsRun(f, n, V, v0, step) ==
  f \in [0..n -> V] /\ f[0] = v0 /\ \A k \in 1..n : f[k] = step[k][f[k - 1]]

\* A recursion from a value to the next one has a solution.
LEMMA Recursion ==
  ASSUME NEW n \in Nat, NEW V, NEW v0 \in V, NEW step \in [1..n -> [V -> V]]
  PROVE  \E f : IsRun(f, n, V, v0, step)
<1> DEFINE Runs(f, k) ==
             /\ f \in [0..k -> V]
             /\ \A j \in 0..k : f[j] = IF j = 0 THEN v0 ELSE step[j][f[j - 1]]
           Good == {k \in 0..n : \E f : Runs(f, k)}
<1>1. 0 \in Good
  <2>1. Runs([j \in 0..0 |-> v0], 0)
    OBVIOUS
  <2>2. \E f : Runs(f, 0)
    BY <2>1
  <2> HIDE DEF Runs
  <2> QED
    BY <2>2
<1>2. ASSUME NEW k \in 1..n, k - 1 \in Good PROVE k \in Good
  <2>1. PICK f : Runs(f, k - 1)
    BY <1>2
  <2> DEFINE v == step[k][f[k - 1]]
             g == [j \in 0..k |-> IF j = k THEN v ELSE f[j]]
  <2>2. v \in V
    BY <2>1
  <2>3. g \in [0..k -> V]
    BY <2>1, <2>2
  <2>4. ASSUME NEW j \in 0..k
        PROVE  g[j] = IF j = 0 THEN v0 ELSE step[j][g[j - 1]]
    BY <2>1
  <2>5. Runs(g, k)
    BY <2>3, <2>4
  <2>6. \E h : Runs(h, k)
    BY <2>5
  <2> HIDE DEF Runs
  <2> QED
    BY <2>6
<1>3. n \in Good
  <2> HIDE DEF Good
  <2>1. \A k \in 0..n : k \in Good
    BY <1>1, <1>2, UpTo
  <2> QED
    BY <2>1
<1>4. PICK f : Runs(f, n)
  BY <1>3
<1> QED
  BY <1>4 DEF IsRun

-----------------------------------------------------------------------------
(* Sums *)

\* The element that a fold over s takes first.
AnyOf(s) == CHOOSE x \in s : TRUE

\* The equation of the recursive function behind SumFunctionOnSet.
SumEqn(g, S, F) ==
  F = [s \in SUBSET S |-> IF s = {} THEN 0 ELSE g[AnyOf(s)] + F[s \ {AnyOf(s)}]]

\* A sum is the value of the solution of its equation.
LEMMA SumUnfold ==
  ASSUME NEW g, NEW S
  PROVE  SumFunctionOnSet(g, S) = (CHOOSE F : SumEqn(g, S, F))[S]
BY DEF SumFunctionOnSet, FoldFunctionOnSet, MapThenFoldSet, SumEqn, AnyOf

\* The equation has one solution at most.
LEMMA SumUnique ==
  ASSUME NEW g, NEW S, IsFiniteSet(S), NEW F, NEW G, SumEqn(g, S, F), SumEqn(g, S, G)
  PROVE  F = G
<1> DEFINE Good == {s \in SUBSET S : F[s] = G[s]}
<1>1. ASSUME NEW s \in SUBSET S, \A t \in SUBSET s : t # s => t \in Good
      PROVE  s \in Good
  <2>1. CASE s = {}
    BY <2>1 DEF SumEqn
  <2>2. CASE s # {}
    <3>1. AnyOf(s) \in s
      BY <2>2 DEF AnyOf
    <3>2. s \ {AnyOf(s)} \in Good
      BY <1>1, <3>1
    <3>3. F[s] = g[AnyOf(s)] + F[s \ {AnyOf(s)}] /\ G[s] = g[AnyOf(s)] + G[s \ {AnyOf(s)}]
      BY <2>2 DEF SumEqn
    <3> QED
      BY <3>2, <3>3
  <2> QED
    BY <2>1, <2>2
<1> HIDE DEF Good
<1>2. \A s \in SUBSET S : s \in Good
  BY <1>1, SetInduction
<1>3. \A s \in SUBSET S : F[s] = G[s]
  BY <1>2 DEF Good
<1> QED
  BY <1>3 DEF SumEqn

\* On every subset of S the equation has a solution.
LEMMA SumExists ==
  ASSUME NEW g, NEW S, IsFiniteSet(S)
  PROVE  \E F : SumEqn(g, S, F)
<1> DEFINE Good == {s \in SUBSET S : \E F : SumEqn(g, s, F)}
<1>1. ASSUME NEW s \in SUBSET S, \A t \in SUBSET s : t # s => t \in Good
      PROVE  s \in Good
  <2>1. \A t \in SUBSET s : t # s => \E F : SumEqn(g, t, F)
    BY <1>1
  <2> DEFINE H(t) == CHOOSE F : SumEqn(g, t, F)
             value(t) == IF t = {} THEN 0 ELSE g[AnyOf(t)] + H(t \ {AnyOf(t)})[t \ {AnyOf(t)}]
             K == [t \in SUBSET s |-> value(t)]
  <2>2. \A t \in SUBSET s : t # s => SumEqn(g, t, H(t))
    BY <2>1
  <2>3. \A t \in SUBSET s : t # s => H(t)[t] = value(t)
    <3> SUFFICES ASSUME NEW t \in SUBSET s, t # s PROVE H(t)[t] = value(t)
      OBVIOUS
    <3>1. CASE t = {}
      <4>1. SumEqn(g, t, H(t)) /\ t \in SUBSET t
        BY <2>2
      <4> HIDE DEF H
      <4>2. H(t)[t] = 0
        BY <3>1, <4>1 DEF SumEqn
      <4> QED
        BY <3>1, <4>2
    <3>2. CASE t # {}
      <4> DEFINE u == t \ {AnyOf(t)}
      <4>1. AnyOf(t) \in t /\ u \in SUBSET t /\ u \in SUBSET s /\ u # s
        BY <3>2 DEF AnyOf
      <4>2. SumEqn(g, t, H(t)) /\ SumEqn(g, u, H(u))
        BY <2>2, <4>1
      <4> DEFINE R == [v \in SUBSET u |-> H(t)[v]]
      <4> HIDE DEF H, u
      <4>3. SumEqn(g, u, R)
        <5>1. \A v \in SUBSET u : R[v] = IF v = {} THEN 0 ELSE g[AnyOf(v)] + R[v \ {AnyOf(v)}]
          <6> SUFFICES ASSUME NEW v \in SUBSET u
                       PROVE R[v] = IF v = {} THEN 0 ELSE g[AnyOf(v)] + R[v \ {AnyOf(v)}]
            OBVIOUS
          <6>1. v \in SUBSET t /\ v \ {AnyOf(v)} \in SUBSET u
            BY <4>1
          <6>2. H(t)[v] = IF v = {} THEN 0 ELSE g[AnyOf(v)] + H(t)[v \ {AnyOf(v)}]
            BY <4>2, <6>1 DEF SumEqn
          <6> QED
            BY <6>1, <6>2
        <5> QED
          BY <5>1 DEF SumEqn
      <4>4. IsFiniteSet(u)
        BY <4>1, FS_Subset
      <4>5. R = H(u)
        BY <4>2, <4>3, <4>4, SumUnique
      <4>6. H(t)[t] = g[AnyOf(t)] + H(t)[u]
        BY <3>2, <4>2 DEF SumEqn, u
      <4>7. H(t)[u] = H(u)[u]
        BY <4>5
      <4> QED
        BY <3>2, <4>6, <4>7 DEF u
    <3> QED
      BY <3>1, <3>2
  <2> HIDE DEF H
  <2>4. \A t \in SUBSET s : K[t] = IF t = {} THEN 0 ELSE g[AnyOf(t)] + K[t \ {AnyOf(t)}]
    <3> SUFFICES ASSUME NEW t \in SUBSET s
                 PROVE K[t] = IF t = {} THEN 0 ELSE g[AnyOf(t)] + K[t \ {AnyOf(t)}]
      OBVIOUS
    <3>1. CASE t = {}
      BY <3>1
    <3>2. CASE t # {}
      <4>1. AnyOf(t) \in t /\ t \ {AnyOf(t)} \in SUBSET s /\ t \ {AnyOf(t)} # s
        BY <3>2 DEF AnyOf
      <4>2. K[t \ {AnyOf(t)}] = H(t \ {AnyOf(t)})[t \ {AnyOf(t)}]
        BY <2>3, <4>1
      <4> QED
        BY <3>2, <4>2
    <3> QED
      BY <3>1, <3>2
  <2>5. SumEqn(g, s, K)
    BY <2>4 DEF SumEqn
  <2> QED
    BY <2>5
<1> HIDE DEF Good
<1>2. S \in Good
  BY <1>1, SetInduction
<1> QED
  BY <1>2 DEF Good

\* The recursion of a sum.
LEMMA SumStep ==
  ASSUME NEW g, NEW S, IsFiniteSet(S)
  PROVE  SumFunctionOnSet(g, S) =
           IF S = {} THEN 0 ELSE g[AnyOf(S)] + SumFunctionOnSet(g, S \ {AnyOf(S)})
<1> DEFINE F(T) == CHOOSE f : SumEqn(g, T, f)
<1>1. \A T \in SUBSET S : SumEqn(g, T, F(T))
  BY SumExists, FS_Subset
<1>2. \A T : SumFunctionOnSet(g, T) = F(T)[T]
  BY SumUnfold
<1>3. CASE S = {}
  <2>1. SumEqn(g, S, F(S)) /\ S \in SUBSET S
    BY <1>1
  <2> HIDE DEF F
  <2>2. F(S)[S] = 0
    BY <1>3, <2>1 DEF SumEqn
  <2> QED
    BY <1>2, <1>3, <2>2
<1>4. CASE S # {}
  <2> DEFINE u == S \ {AnyOf(S)}
  <2>1. u \in SUBSET S
    OBVIOUS
  <2>2. SumEqn(g, S, F(S)) /\ SumEqn(g, u, F(u)) /\ IsFiniteSet(u)
    BY <1>1, <2>1, FS_Subset
  <2> DEFINE R == [v \in SUBSET u |-> F(S)[v]]
  <2> HIDE DEF F, u
  <2>3. \A v \in SUBSET u : R[v] = IF v = {} THEN 0 ELSE g[AnyOf(v)] + R[v \ {AnyOf(v)}]
    <3> SUFFICES ASSUME NEW v \in SUBSET u
                 PROVE R[v] = IF v = {} THEN 0 ELSE g[AnyOf(v)] + R[v \ {AnyOf(v)}]
      OBVIOUS
    <3>1. v \in SUBSET S /\ v \ {AnyOf(v)} \in SUBSET u
      BY <2>1
    <3>2. F(S)[v] = IF v = {} THEN 0 ELSE g[AnyOf(v)] + F(S)[v \ {AnyOf(v)}]
      BY <2>2, <3>1 DEF SumEqn
    <3> QED
      BY <3>1, <3>2
  <2>4. R = F(u)
    <3>1. SumEqn(g, u, R)
      BY <2>3 DEF SumEqn
    <3> QED
      BY <2>2, <3>1, SumUnique
  <2>5. F(S)[S] = g[AnyOf(S)] + F(S)[u]
    BY <1>4, <2>2 DEF SumEqn, u
  <2> QED
    BY <1>2, <1>4, <2>4, <2>5 DEF u
<1> QED
  BY <1>3, <1>4

\* A sum over a finite set, where every term is an integer, is an integer, and
\* any element can be taken out of it.
LEMMA SumRemove ==
  ASSUME NEW g, NEW S, IsFiniteSet(S), \A x \in S : g[x] \in Int
  PROVE  /\ SumFunctionOnSet(g, S) \in Int
         /\ \A x \in S : SumFunctionOnSet(g, S) = g[x] + SumFunctionOnSet(g, S \ {x})
<1> DEFINE Sum(s) == SumFunctionOnSet(g, s)
           Good == {s \in SUBSET S : Sum(s) \in Int /\ \A x \in s : Sum(s) = g[x] + Sum(s \ {x})}
<1>1. \A s \in SUBSET S :
        /\ s = {} => Sum(s) = 0
        /\ s # {} => AnyOf(s) \in s /\ Sum(s) = g[AnyOf(s)] + Sum(s \ {AnyOf(s)})
  BY SumStep, FS_Subset DEF AnyOf
<1> HIDE DEF Sum
<1>2. ASSUME NEW s \in SUBSET S, \A t \in SUBSET s : t # s => t \in Good
      PROVE  s \in Good
  <2>1. CASE s = {}
    <3>1. Sum(s) = 0
      BY <1>1, <2>1
    <3> QED
      BY <2>1, <3>1
  <2>2. CASE s # {}
    <3> DEFINE a == AnyOf(s)
    <3>1. a \in s /\ Sum(s) = g[a] + Sum(s \ {a})
      BY <1>1, <2>2
    <3> HIDE DEF a
    <3>2. s \ {a} \in Good
      BY <1>2, <3>1
    <3>3. Sum(s) \in Int
      BY <3>1, <3>2
    <3>4. ASSUME NEW x \in s
          PROVE  Sum(s) = g[x] + Sum(s \ {x})
      <4>1. CASE x = a
        BY <3>1, <4>1
      <4>2. CASE x # a
        <5> DEFINE r == (s \ {a}) \ {x}
        <5>1. r = (s \ {x}) \ {a} /\ s \ {x} \in Good /\ r \in Good
          BY <1>2, <3>1, <4>2
        <5>2. Sum(s \ {a}) = g[x] + Sum(r)
          BY <3>2, <4>2
        <5>3. Sum(s \ {x}) = g[a] + Sum(r)
          BY <3>1, <4>2, <5>1
        <5>4. g[x] \in Int /\ g[a] \in Int /\ Sum(r) \in Int
          BY <3>1, <5>1
        <5> QED
          BY <3>1, <5>2, <5>3, <5>4
      <4> QED
        BY <4>1, <4>2
    <3> QED
      BY <3>3, <3>4
  <2> QED
    BY <2>1, <2>2
<1> HIDE DEF Good
<1>3. S \in Good
  BY <1>2, SetInduction
<1> QED
  BY <1>3 DEF Good, Sum

\* The sum of nothing is 0.
LEMMA SumEmpty == \A g : SumFunctionOnSet(g, {}) = 0
BY SumStep, FS_EmptySet

\* A sum of larger terms is not smaller.
LEMMA SumMonotone ==
  ASSUME NEW g, NEW h, NEW S, IsFiniteSet(S),
         \A x \in S : g[x] \in Int /\ h[x] \in Int /\ g[x] <= h[x]
  PROVE  SumFunctionOnSet(g, S) <= SumFunctionOnSet(h, S)
<1> DEFINE Good == {s \in SUBSET S : SumFunctionOnSet(g, s) <= SumFunctionOnSet(h, s)}
<1>1. ASSUME NEW s \in SUBSET S, \A t \in SUBSET s : t # s => t \in Good
      PROVE  s \in Good
  <2>1. CASE s = {}
    BY <2>1, SumEmpty
  <2>2. CASE s # {}
    <3>1. PICK x \in s : TRUE
      BY <2>2
    <3>2. s \ {x} \in Good /\ IsFiniteSet(s) /\ IsFiniteSet(s \ {x})
      BY <1>1, FS_Subset
    <3>3. /\ SumFunctionOnSet(g, s) = g[x] + SumFunctionOnSet(g, s \ {x})
          /\ SumFunctionOnSet(h, s) = h[x] + SumFunctionOnSet(h, s \ {x})
          /\ SumFunctionOnSet(g, s \ {x}) \in Int /\ SumFunctionOnSet(h, s \ {x}) \in Int
      BY <3>2, SumRemove
    <3> QED
      BY <3>2, <3>3
  <2> QED
    BY <2>1, <2>2
<1> HIDE DEF Good
<1>2. S \in Good
  BY <1>1, SetInduction
<1> QED
  BY <1>2 DEF Good

\* A sum does not depend on what its terms are indexed with.
LEMMA SumReindex ==
  ASSUME NEW S, IsFiniteSet(S), NEW g, NEW h, NEW T, NEW p \in Bijection(S, T),
         \A x \in S : g[x] \in Int /\ h[p[x]] = g[x]
  PROVE  SumFunctionOnSet(h, T) = SumFunctionOnSet(g, S)
<1> DEFINE Image(s) == {p[x] : x \in s}
           Good == {s \in SUBSET S : SumFunctionOnSet(h, Image(s)) = SumFunctionOnSet(g, s)}
<1>0. /\ \A x, y \in S : p[x] = p[y] => x = y
      /\ Image(S) = T
  BY DEF Bijection, Injection, Surjection, IsInjective
<1>1. ASSUME NEW s \in SUBSET S, \A t \in SUBSET s : t # s => t \in Good
      PROVE  s \in Good
  <2>1. CASE s = {}
    BY <2>1, SumEmpty
  <2>2. CASE s # {}
    <3>1. PICK x \in s : TRUE
      BY <2>2
    <3>2. s \ {x} \in Good /\ IsFiniteSet(s)
      BY <1>1, FS_Subset
    <3>3. IsFiniteSet(Image(s))
      <4> DEFINE q == [y \in s |-> p[y]]
      <4>1. q \in Surjection(s, Image(s))
        BY DEF Surjection
      <4> QED
        BY <3>2, <4>1, FS_Surjection
    <3>4. Image(s \ {x}) = Image(s) \ {p[x]} /\ p[x] \in Image(s)
      BY <1>0
    <3>5. \A y \in Image(s) : h[y] \in Int
      OBVIOUS
    <3> HIDE DEF Image
    <3>6. SumFunctionOnSet(h, Image(s)) = h[p[x]] + SumFunctionOnSet(h, Image(s) \ {p[x]})
      BY <3>3, <3>4, <3>5, SumRemove
    <3>7. SumFunctionOnSet(g, s) = g[x] + SumFunctionOnSet(g, s \ {x})
      BY <3>2, SumRemove
    <3> QED
      BY <3>2, <3>4, <3>6, <3>7
  <2> QED
    BY <2>1, <2>2
<1> HIDE DEF Good, Image
<1>2. S \in Good
  BY <1>1, SetInduction
<1> QED
  BY <1>0, <1>2 DEF Good

\* Only the terms over the set count.
LEMMA SumSame ==
  ASSUME NEW g, NEW h, NEW S, IsFiniteSet(S), \A x \in S : g[x] \in Int /\ h[x] = g[x]
  PROVE  SumFunctionOnSet(h, S) = SumFunctionOnSet(g, S)
<1>1. SumFunctionOnSet(h, S) <= SumFunctionOnSet(g, S)
  BY SumMonotone
<1>2. SumFunctionOnSet(g, S) <= SumFunctionOnSet(h, S)
  BY SumMonotone
<1>3. SumFunctionOnSet(g, S) \in Int /\ SumFunctionOnSet(h, S) \in Int
  BY SumRemove
<1> QED
  BY <1>1, <1>2, <1>3

\* A sum of zeros.
LEMMA SumZero ==
  ASSUME NEW g, NEW S, IsFiniteSet(S), \A x \in S : g[x] = 0
  PROVE  SumFunctionOnSet(g, S) = 0
<1> DEFINE Good == {s \in SUBSET S : SumFunctionOnSet(g, s) = 0}
<1>1. ASSUME NEW s \in SUBSET S, \A t \in SUBSET s : t # s => t \in Good
      PROVE  s \in Good
  <2>1. CASE s = {}
    BY <2>1, SumEmpty
  <2>2. CASE s # {}
    <3>1. PICK x \in s : TRUE
      BY <2>2
    <3>2. s \ {x} \in Good
      BY <1>1, <3>1
    <3>3. IsFiniteSet(s) /\ \A y \in s : g[y] \in Int
      BY FS_Subset
    <3>4. SumFunctionOnSet(g, s) = g[x] + SumFunctionOnSet(g, s \ {x})
      BY <3>1, <3>3, SumRemove
    <3> QED
      BY <3>1, <3>2, <3>4
  <2> QED
    BY <2>1, <2>2
<1> HIDE DEF Good
<1>2. S \in Good
  BY <1>1, SetInduction
<1> QED
  BY <1>2 DEF Good

\* The sum over two sets that have nothing in common.
LEMMA SumUnion ==
  ASSUME NEW g, NEW S, NEW T, IsFiniteSet(S), IsFiniteSet(T), S \intersect T = {},
         \A x \in S \union T : g[x] \in Int
  PROVE  SumFunctionOnSet(g, S \union T) = SumFunctionOnSet(g, S) + SumFunctionOnSet(g, T)
<1> DEFINE Good == {s \in SUBSET S : SumFunctionOnSet(g, s \union T)
                                       = SumFunctionOnSet(g, s) + SumFunctionOnSet(g, T)}
<1>0. SumFunctionOnSet(g, T) \in Int
  BY SumRemove
<1>1. ASSUME NEW s \in SUBSET S, \A t \in SUBSET s : t # s => t \in Good
      PROVE  s \in Good
  <2>1. CASE s = {}
    BY <1>0, <2>1, SumEmpty
  <2>2. CASE s # {}
    <3>1. PICK x \in s : TRUE
      BY <2>2
    <3>2. s \ {x} \in Good /\ IsFiniteSet(s) /\ IsFiniteSet(s \ {x})
      BY <1>1, FS_Subset
    <3>3. IsFiniteSet(s \union T) /\ (s \union T) \ {x} = (s \ {x}) \union T
      BY <3>2, FS_Union
    <3>4. SumFunctionOnSet(g, s \union T) = g[x] + SumFunctionOnSet(g, (s \ {x}) \union T)
      BY <3>3, SumRemove
    <3>5. /\ SumFunctionOnSet(g, s) = g[x] + SumFunctionOnSet(g, s \ {x})
          /\ SumFunctionOnSet(g, s \ {x}) \in Int
      BY <3>2, SumRemove
    <3> QED
      BY <1>0, <3>2, <3>4, <3>5
  <2> QED
    BY <2>1, <2>2
<1> HIDE DEF Good
<1>2. S \in Good
  BY <1>1, SetInduction
<1> QED
  BY <1>2 DEF Good

\* The sum of two sums, term by term.
LEMMA SumAdd ==
  ASSUME NEW g, NEW h, NEW k, NEW S, IsFiniteSet(S),
         \A x \in S : g[x] \in Int /\ h[x] \in Int /\ k[x] = g[x] + h[x]
  PROVE  SumFunctionOnSet(k, S) = SumFunctionOnSet(g, S) + SumFunctionOnSet(h, S)
<1> DEFINE Good == {s \in SUBSET S :
                      SumFunctionOnSet(k, s) = SumFunctionOnSet(g, s) + SumFunctionOnSet(h, s)}
<1>1. ASSUME NEW s \in SUBSET S, \A t \in SUBSET s : t # s => t \in Good
      PROVE  s \in Good
  <2>1. CASE s = {}
    BY <2>1, SumEmpty
  <2>2. CASE s # {}
    <3>1. PICK x \in s : TRUE
      BY <2>2
    <3>2. s \ {x} \in Good /\ IsFiniteSet(s) /\ IsFiniteSet(s \ {x})
      BY <1>1, FS_Subset
    <3>3. /\ SumFunctionOnSet(g, s) = g[x] + SumFunctionOnSet(g, s \ {x})
          /\ SumFunctionOnSet(h, s) = h[x] + SumFunctionOnSet(h, s \ {x})
          /\ SumFunctionOnSet(g, s \ {x}) \in Int /\ SumFunctionOnSet(h, s \ {x}) \in Int
      BY <3>2, SumRemove
    <3>4. SumFunctionOnSet(k, s) = k[x] + SumFunctionOnSet(k, s \ {x})
      <4>1. \A y \in s : k[y] \in Int
        OBVIOUS
      <4> QED
        BY <3>2, <4>1, SumRemove
    <3> QED
      BY <3>2, <3>3, <3>4
  <2> QED
    BY <2>1, <2>2
<1> HIDE DEF Good
<1>2. S \in Good
  BY <1>1, SetInduction
<1> QED
  BY <1>2 DEF Good

\* A sum whose terms have their signs changed.
LEMMA SumNegate ==
  ASSUME NEW g, NEW h, NEW S, IsFiniteSet(S), \A x \in S : g[x] \in Int /\ h[x] = - g[x]
  PROVE  SumFunctionOnSet(h, S) = - SumFunctionOnSet(g, S) /\ SumFunctionOnSet(g, S) \in Int
<1> DEFINE Good == {s \in SUBSET S : SumFunctionOnSet(h, s) = - SumFunctionOnSet(g, s)}
<1>1. ASSUME NEW s \in SUBSET S, \A t \in SUBSET s : t # s => t \in Good
      PROVE  s \in Good
  <2>1. CASE s = {}
    BY <2>1, SumEmpty
  <2>2. CASE s # {}
    <3>1. PICK x \in s : TRUE
      BY <2>2
    <3>2. s \ {x} \in Good /\ IsFiniteSet(s) /\ IsFiniteSet(s \ {x})
      BY <1>1, FS_Subset
    <3>3. /\ SumFunctionOnSet(g, s) = g[x] + SumFunctionOnSet(g, s \ {x})
          /\ SumFunctionOnSet(g, s \ {x}) \in Int
      BY <3>2, SumRemove
    <3>4. SumFunctionOnSet(h, s) = h[x] + SumFunctionOnSet(h, s \ {x})
      <4>1. \A y \in s : h[y] \in Int
        OBVIOUS
      <4> QED
        BY <3>2, <4>1, SumRemove
    <3> QED
      BY <3>2, <3>3, <3>4
  <2> QED
    BY <2>1, <2>2
<1> HIDE DEF Good
<1>2. S \in Good
  BY <1>1, SetInduction
<1> QED
  BY <1>2, SumRemove DEF Good

-----------------------------------------------------------------------------
(* Extremes *)

\* The larger of a number and what is at most one other.
LEMMA MaxOfTwo ==
  ASSUME NEW a \in Int, NEW S, \A x, y \in S : x = y, S \subseteq Int
  PROVE  /\ Max({a} \union S) \in {a} \union S
         /\ \A x \in {a} \union S : x <= Max({a} \union S)
<1>1. \E x \in {a} \union S : \A y \in {a} \union S : x >= y
  <2>1. CASE S = {}
    BY <2>1
  <2>2. CASE S # {}
    <3>0. PICK b \in S : TRUE
      BY <2>2
    <3>1. S = {b} /\ b \in Int
      BY <3>0
    <3>2. CASE a <= b
      BY <3>1, <3>2
    <3>3. CASE b < a
      BY <3>1, <3>3
    <3> QED
      BY <3>1, <3>2, <3>3
  <2> QED
    BY <2>1, <2>2
<1> QED
  BY <1>1 DEF Max

\* A set of numbers up to n that is not empty has its maximum.
LEMMA MaxUpTo ==
  ASSUME NEW n \in Nat, NEW S \in SUBSET (0..n), S # {}
  PROVE  Max(S) \in S /\ \A x \in S : x <= Max(S)
<1> DEFINE below == {n - x : x \in S}
<1>1. PICK m \in below : \A k \in below : m <= k
  <2>1. \A x \in S : n - x \in Nat
    OBVIOUS
  <2>2. below \in SUBSET Nat /\ below # {}
    BY <2>1
  <2> QED
    BY <2>2, NatMin
<1>2. PICK z \in S : m = n - z
  BY <1>1
<1>3. \A x \in S : z >= x
  <2>1. \A x \in S : m <= n - x
    BY <1>1
  <2> QED
    BY <1>2, <2>1
<1> QED
  BY <1>2, <1>3 DEF Max

\* A set of natural numbers that is not empty has its minimum.
LEMMA MinUpTo ==
  ASSUME NEW S \in SUBSET Nat, S # {}
  PROVE  Min(S) \in S /\ \A x \in S : Min(S) <= x
BY NatMin DEF Min

\* The smaller of two numbers.
LEMMA MinOfTwo ==
  ASSUME NEW a \in Int, NEW b \in Int
  PROVE  Min({a, b}) <= a /\ Min({a, b}) <= b /\ Min({a, b}) \in Int
<1>1. \E x \in {a, b} : \A y \in {a, b} : x <= y
  <2>1. a <= b \/ b <= a
    OBVIOUS
  <2> QED
    BY <2>1
<1>2. Min({a, b}) \in {a, b} /\ \A y \in {a, b} : Min({a, b}) <= y
  BY <1>1 DEF Min
<1> QED
  BY <1>2
=============================================================================
