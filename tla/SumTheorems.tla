------------------------------ MODULE SumTheorems ------------------------------
(***************************************************************************)
(* What the proofs about the views know of sums over finite sets.          *)
(*                                                                         *)
(* MapThenSumSet is a fold: it takes the elements of a set in an order of  *)
(* its own.  That it has a value at all, and that the order does not       *)
(* matter, is shown by looking at a smallest set for which it would fail   *)
(* (Smallest): the library's induction theorems have a predicate as their  *)
(* parameter, which the provers cannot fill in, but sets of sets they can. *)
(***************************************************************************)
EXTENDS Sums, FiniteSetTheorems, TLAPS

\* The sum of the values of the function w over S.
Sum(w, S) == MapThenSumSet(LAMBDA x : w[x], S)

\* Among some subsets of a finite set there is a smallest one.
LEMMA Smallest ==
  ASSUME NEW S, IsFiniteSet(S), NEW some \in SUBSET SUBSET S, some # {}
  PROVE  \E s \in some : \A t \in SUBSET s : t # s => t \notin some
<1> DEFINE R == StrictSubsetOrdering(S)
<1>1. IsWellFoundedOn(R, SUBSET S)
  BY FS_StrictSubsetOrderingWellFounded, FS_FiniteSubsetsOfFinite
<1>2. PICK s \in some : \A t \in some : ~ (<<t, s>> \in R)
  <2> HIDE DEF R
  <2> QED
    BY <1>1, WFMin
<1>3. ASSUME NEW t \in SUBSET s, t # s, t \in some PROVE <<t, s>> \in R
  BY <1>3 DEF StrictSubsetOrdering
<1> HIDE DEF R
<1>4. \A t \in SUBSET s : t # s => t \notin some
  BY <1>2, <1>3
<1> QED
  BY <1>4

-----------------------------------------------------------------------------
(* The sum is what adding up the elements of S, one after the other, comes *)
(* to.                                                                     *)

Pick(s) == CHOOSE x \in s : TRUE
Rest(s) == s \ {Pick(s)}

Adds(iter, w, S) ==
  iter = [s \in SUBSET S |-> IF s = {} THEN 0 ELSE w[Pick(s)] + iter[Rest(s)]]

LEMMA PickIn ==
  ASSUME NEW s, s # {}
  PROVE  Pick(s) \in s /\ Rest(s) \in SUBSET s /\ Rest(s) # s
BY DEF Pick, Rest

LEMMA AddsNothing ==
  ASSUME NEW w, NEW S, NEW iter, Adds(iter, w, S)
  PROVE  iter[{}] = 0
<1>1. {} \in SUBSET S
  OBVIOUS
<1> QED
  BY <1>1 DEF Adds

LEMMA AddsStep ==
  ASSUME NEW w, NEW S, NEW iter, Adds(iter, w, S), NEW s \in SUBSET S, s # {}
  PROVE  iter[s] = w[Pick(s)] + iter[Rest(s)]
BY DEF Adds

\* There is only one way to do so ...
LEMMA AddsOnce ==
  ASSUME NEW w, NEW S, IsFiniteSet(S), NEW f, NEW g, Adds(f, w, S),
         NEW T \in SUBSET S, Adds(g, w, T)
  PROVE  \A s \in SUBSET T : f[s] = g[s]
<1> DEFINE bad == {s \in SUBSET T : f[s] # g[s]}
<1>1. SUFFICES ASSUME bad # {} PROVE FALSE
  OBVIOUS
<1>2. IsFiniteSet(T)
  BY FS_Subset
<1>3. PICK s \in bad : \A t \in SUBSET s : t # s => t \notin bad
  <2> HIDE DEF bad
  <2>1. bad \in SUBSET SUBSET T
    BY DEF bad
  <2> QED
    BY <1>1, <1>2, <2>1, Smallest
<1>4. s \in SUBSET T /\ s \in SUBSET S /\ f[s] # g[s]
  OBVIOUS
<1>5. s # {}
  <2>1. f[{}] = g[{}]
    BY AddsNothing
  <2> QED
    BY <2>1, <1>4
<1>6. f[Rest(s)] = g[Rest(s)]
  BY <1>3, <1>4, <1>5, PickIn
<1>7. f[s] = w[Pick(s)] + f[Rest(s)]
  BY <1>4, <1>5, AddsStep
<1>8. g[s] = w[Pick(s)] + g[Rest(s)]
  BY <1>4, <1>5, AddsStep
<1> QED
  BY <1>4, <1>6, <1>7, <1>8

\* ... and there is one.
LEMMA AddsSome ==
  ASSUME NEW w, NEW S, IsFiniteSet(S)
  PROVE  \E iter : Adds(iter, w, S)
<1> DEFINE bad == {s \in SUBSET S : ~ \E iter : Adds(iter, w, s)}
<1>1. SUFFICES ASSUME bad # {} PROVE FALSE
  OBVIOUS
<1>2. PICK s \in bad : \A t \in SUBSET s : t # s => t \notin bad
  <2> HIDE DEF bad
  <2>1. bad \in SUBSET SUBSET S
    BY DEF bad
  <2> QED
    BY <1>1, <2>1, Smallest
<1>3. s \in SUBSET S /\ ~ \E iter : Adds(iter, w, s)
  OBVIOUS
<1>4. \A t \in SUBSET s : t # s => \E iter : Adds(iter, w, t)
  BY <1>2, <1>3
<1> HIDE DEF bad
<1> DEFINE of(t) == CHOOSE iter : Adds(iter, w, t)
           sum(t) == IF t = {} THEN 0 ELSE w[Pick(t)] + of(Rest(t))[Rest(t)]
           all == [t \in SUBSET s |-> sum(t)]
<1>5. \A t \in SUBSET s : t # s => Adds(of(t), w, t)
  <2> TAKE t \in SUBSET s
  <2> HAVE t # s
  <2>1. \E iter : Adds(iter, w, t)
    BY <1>4
  <2> QED
    BY <2>1
<1>6. \A t \in SUBSET s : IsFiniteSet(t)
  BY <1>3, FS_Subset
<1> HIDE DEF of
<1>7. ASSUME NEW t \in SUBSET s, t # s PROVE of(t)[t] = sum(t)
  <2>1. Adds(of(t), w, t)
    BY <1>5, <1>7
  <2>2. CASE t = {}
    <3>1. of(t)[{}] = 0
      BY <2>1, AddsNothing
    <3> QED
      BY <3>1, <2>2
  <2>3. CASE t # {}
    <3>1. Rest(t) \in SUBSET t /\ Rest(t) \in SUBSET s /\ Rest(t) # s
      BY <2>3, PickIn, <1>7
    <3>2. Adds(of(Rest(t)), w, Rest(t))
      BY <3>1, <1>5
    <3>3. of(t)[Rest(t)] = of(Rest(t))[Rest(t)]
      <4>1. \A u \in SUBSET Rest(t) : of(t)[u] = of(Rest(t))[u]
        BY <2>1, <3>1, <3>2, <1>6, AddsOnce
      <4> QED
        BY <4>1
    <3>4. of(t)[t] = w[Pick(t)] + of(t)[Rest(t)]
      <4>1. t \in SUBSET t
        OBVIOUS
      <4> QED
        BY <4>1, <2>1, <2>3, AddsStep
    <3> QED
      BY <3>3, <3>4, <2>3
  <2> QED
    BY <2>2, <2>3
<1>8. \A t \in SUBSET s : sum(t) = IF t = {} THEN 0 ELSE w[Pick(t)] + all[Rest(t)]
  <2> TAKE t \in SUBSET s
  <2>1. CASE t = {}
    BY <2>1
  <2>2. CASE t # {}
    <3>1. Rest(t) \in SUBSET s /\ Rest(t) # s
      BY <2>2, PickIn
    <3>2. all[Rest(t)] = of(Rest(t))[Rest(t)]
      BY <3>1, <1>7
    <3> QED
      BY <2>2, <3>2
  <2> QED
    BY <2>1, <2>2
<1>9. Adds(all, w, s)
  BY <1>8 DEF Adds
<1> QED
  BY <1>3, <1>9

\* So this is what the fold computes, over S and over each of its subsets.
LEMMA SumAdds ==
  ASSUME NEW w, NEW S, IsFiniteSet(S), NEW iter, Adds(iter, w, S)
  PROVE  Sum(w, S) = iter[S]
<1> DEFINE P(i) == i = [s \in SUBSET S |->
                          IF s = {} THEN 0
                          ELSE w[CHOOSE x \in s : TRUE] + i[s \ {CHOOSE x \in s : TRUE}]]
<1>1. P(iter)
  BY DEF Adds, Pick, Rest
<1>2. P(CHOOSE i : P(i))
  <2> HIDE DEF P
  <2> QED
    BY <1>1
<1>3. Sum(w, S) = (CHOOSE i : P(i))[S]
  BY DEF Sum, MapThenSumSet, MapThenFoldSet
<1>4. Adds(CHOOSE i : P(i), w, S)
  BY <1>2 DEF Adds, Pick, Rest
<1> HIDE DEF P
<1> QED
  BY <1>3, <1>4, AddsOnce

LEMMA SumAddsPart ==
  ASSUME NEW w, NEW S, IsFiniteSet(S), NEW iter, Adds(iter, w, S), NEW T \in SUBSET S
  PROVE  Sum(w, T) = iter[T]
<1>1. IsFiniteSet(T)
  BY FS_Subset
<1>2. PICK part : Adds(part, w, T)
  BY <1>1, AddsSome
<1> QED
  <2>1. Sum(w, T) = part[T]
    BY <1>1, <1>2, SumAdds
  <2>2. \A s \in SUBSET T : iter[s] = part[s]
    BY <1>2, AddsOnce
  <2> QED
    BY <2>1, <2>2

-----------------------------------------------------------------------------

LEMMA SumEmpty == \A w : Sum(w, {}) = 0
<1> TAKE w
<1>1. IsFiniteSet({}) /\ {} \in SUBSET {}
  BY FS_EmptySet
<1>2. PICK iter : Adds(iter, w, {})
  BY <1>1, AddsSome
<1>3. iter[{}] = 0
  BY <1>2, AddsNothing
<1> QED
  BY <1>1, <1>2, <1>3, SumAdds

LEMMA SumPick ==
  ASSUME NEW w, NEW S, IsFiniteSet(S), S # {}
  PROVE  Sum(w, S) = w[Pick(S)] + Sum(w, Rest(S))
<1>1. PICK iter : Adds(iter, w, S)
  BY AddsSome
<1>2. Sum(w, S) = iter[S] /\ Sum(w, Rest(S)) = iter[Rest(S)]
  BY <1>1, PickIn, SumAdds, SumAddsPart
<1>3. S \in SUBSET S
  OBVIOUS
<1>4. iter[S] = w[Pick(S)] + iter[Rest(S)]
  BY <1>1, <1>3, AddsStep
<1> QED
  BY <1>2, <1>4

\* A sum of integers is an integer.
LEMMA SumInt ==
  ASSUME NEW w, NEW S, IsFiniteSet(S), \A x \in S : w[x] \in Int
  PROVE  Sum(w, S) \in Int
<1> DEFINE bad == {s \in SUBSET S : Sum(w, s) \notin Int}
<1>1. SUFFICES ASSUME bad # {} PROVE FALSE
  OBVIOUS
<1>2. PICK s \in bad : \A t \in SUBSET s : t # s => t \notin bad
  <2> HIDE DEF bad
  <2>1. bad \in SUBSET SUBSET S
    BY DEF bad
  <2> QED
    BY <1>1, <2>1, Smallest
<1>3. IsFiniteSet(s) /\ s # {}
  <2>1. Sum(w, {}) \in Int
    BY SumEmpty
  <2>2. s # {}
    BY <2>1
  <2> QED
    BY <2>2, FS_Subset
<1>4. Sum(w, Rest(s)) \in Int
  BY <1>2, <1>3, PickIn
<1>5. w[Pick(s)] \in Int
  BY <1>3, PickIn
<1>6. Sum(w, s) = w[Pick(s)] + Sum(w, Rest(s))
  BY <1>3, SumPick
<1> QED
  BY <1>4, <1>5, <1>6

\* It depends on the values of the elements of S only.
LEMMA SumSame ==
  ASSUME NEW w, NEW v, NEW S, IsFiniteSet(S), \A x \in S : w[x] = v[x]
  PROVE  Sum(w, S) = Sum(v, S)
<1> DEFINE bad == {s \in SUBSET S : Sum(w, s) # Sum(v, s)}
<1>1. SUFFICES ASSUME bad # {} PROVE FALSE
  OBVIOUS
<1>2. PICK s \in bad : \A t \in SUBSET s : t # s => t \notin bad
  <2> HIDE DEF bad
  <2>1. bad \in SUBSET SUBSET S
    BY DEF bad
  <2> QED
    BY <1>1, <2>1, Smallest
<1>3. IsFiniteSet(s) /\ s # {}
  BY FS_Subset, SumEmpty
<1>4. Sum(w, Rest(s)) = Sum(v, Rest(s))
  BY <1>2, <1>3, PickIn
<1>5. w[Pick(s)] = v[Pick(s)]
  BY <1>3, PickIn
<1>6. Sum(w, s) = w[Pick(s)] + Sum(w, Rest(s)) /\ Sum(v, s) = v[Pick(s)] + Sum(v, Rest(s))
  BY <1>3, SumPick
<1> QED
  BY <1>4, <1>5, <1>6

\* Any element may be taken first.
LEMMA SumTake ==
  ASSUME NEW w, NEW S, IsFiniteSet(S), \A x \in S : w[x] \in Int, NEW x \in S
  PROVE  Sum(w, S) = w[x] + Sum(w, S \ {x})
<1> DEFINE wrong(s, y) == Sum(w, s) # w[y] + Sum(w, s \ {y})
           bad == {s \in SUBSET S : \E y \in s : wrong(s, y)}
<1>1. SUFFICES ASSUME bad # {} PROVE FALSE
  OBVIOUS
<1>2. PICK s \in bad : \A t \in SUBSET s : t # s => t \notin bad
  <2> HIDE DEF bad
  <2>1. bad \in SUBSET SUBSET S
    BY DEF bad
  <2> QED
    BY <1>1, <2>1, Smallest
<1>3. PICK y \in s : wrong(s, y)
  OBVIOUS
<1>4. \A t \in SUBSET s : t # s => \A z \in t : Sum(w, t) = w[z] + Sum(w, t \ {z})
  BY <1>2
<1>5. \A t \in SUBSET s : IsFiniteSet(t) /\ Sum(w, t) \in Int
  <2> TAKE t \in SUBSET s
  <2>1. IsFiniteSet(t) /\ t \in SUBSET S
    BY FS_Subset
  <2> QED
    BY <2>1, SumInt
<1>6. Sum(w, s) = w[Pick(s)] + Sum(w, Rest(s)) /\ Pick(s) \in s
  BY <1>3, <1>5, SumPick, PickIn
<1>7. y # Pick(s)
  BY <1>3, <1>6 DEF Rest
<1> DEFINE both == s \ {y, Pick(s)}
<1>8. Sum(w, Rest(s)) = w[y] + Sum(w, both)
  <2>1. y \in Rest(s) /\ Rest(s) \ {y} = both /\ Rest(s) \in SUBSET s /\ Rest(s) # s
    BY <1>6, <1>7 DEF Rest
  <2> QED
    BY <2>1, <1>4
<1>9. Sum(w, s \ {y}) = w[Pick(s)] + Sum(w, both)
  <2>1. Pick(s) \in s \ {y} /\ (s \ {y}) \ {Pick(s)} = both /\ s \ {y} \in SUBSET s /\ s \ {y} # s
    BY <1>6, <1>7
  <2> QED
    BY <2>1, <1>4
<1>10. w[y] \in Int /\ w[Pick(s)] \in Int /\ Sum(w, both) \in Int
  BY <1>3, <1>5, <1>6
<1> QED
  BY <1>3, <1>6, <1>8, <1>9, <1>10

\* Two sets without a common element.
LEMMA SumUnion ==
  ASSUME NEW w, NEW S, NEW T, IsFiniteSet(S), IsFiniteSet(T), S \cap T = {},
         \A x \in S \cup T : w[x] \in Int
  PROVE  Sum(w, S \cup T) = Sum(w, S) + Sum(w, T)
<1> DEFINE bad == {s \in SUBSET S : Sum(w, s \cup T) # Sum(w, s) + Sum(w, T)}
<1>1. SUFFICES ASSUME bad # {} PROVE FALSE
  OBVIOUS
<1>2. PICK s \in bad : \A t \in SUBSET s : t # s => t \notin bad
  <2> HIDE DEF bad
  <2>1. bad \in SUBSET SUBSET S
    BY DEF bad
  <2> QED
    BY <1>1, <2>1, Smallest
<1>3. s \in SUBSET S /\ Sum(w, s \cup T) # Sum(w, s) + Sum(w, T)
  OBVIOUS
<1>4. IsFiniteSet(s) /\ IsFiniteSet(s \cup T)
  BY FS_Subset, FS_Union
<1>5. Sum(w, T) \in Int
  BY SumInt
<1>6. PICK x \in s : TRUE
  <2>1. SUFFICES ASSUME s = {} PROVE FALSE
    OBVIOUS
  <2>2. Sum(w, {}) + Sum(w, T) = Sum(w, T)
    BY <1>5, SumEmpty
  <2>3. {} \cup T = T
    OBVIOUS
  <2>4. Sum(w, {} \cup T) # Sum(w, {}) + Sum(w, T)
    BY <1>3, <2>1, Zenon
  <2> QED
    BY <2>2, <2>3, <2>4
<1> DEFINE rest == s \ {x}
<1>7. Sum(w, rest \cup T) = Sum(w, rest) + Sum(w, T)
  <2>1. rest \in SUBSET s /\ rest # s /\ rest \in SUBSET S
    BY <1>3
  <2> QED
    BY <2>1, <1>2
<1>8. Sum(w, s) = w[x] + Sum(w, rest)
  BY <1>3, <1>4, SumTake
<1>9. Sum(w, s \cup T) = w[x] + Sum(w, rest \cup T)
  <2>1. (s \cup T) \ {x} = rest \cup T
    BY <1>3
  <2>2. x \in s \cup T /\ \A z \in s \cup T : w[z] \in Int
    BY <1>3
  <2> QED
    BY <2>1, <2>2, <1>4, SumTake
<1>10. w[x] \in Int /\ Sum(w, rest) \in Int
  <2>1. IsFiniteSet(rest) /\ \A z \in rest : w[z] \in Int
    BY <1>3, <1>4, FS_Subset
  <2> QED
    BY <2>1, <1>3, SumInt
<1> QED
  BY <1>3, <1>5, <1>7, <1>8, <1>9, <1>10

-----------------------------------------------------------------------------

\* The elements of S with the key c.
Class(S, key, c) == {x \in S : key[x] = c}

\* The elements of S, sorted into the classes K by a key: the sum over S is
\* the sum of what each class comes to.
LEMMA SumGroup ==
  ASSUME NEW w, NEW S, IsFiniteSet(S), \A x \in S : w[x] \in Int,
         NEW key, NEW K, IsFiniteSet(K), \A x \in S : key[x] \in K,
         NEW g, \A c \in K : g[c] = Sum(w, Class(S, key, c))
  PROVE  Sum(w, S) = Sum(g, K)
<1> DEFINE class(c) == Class(S, key, c)
           in(k) == {x \in S : key[x] \in k}
           bad == {k \in SUBSET K : Sum(w, in(k)) # Sum(g, k)}
<1>1. \A c \in K : IsFiniteSet(class(c)) /\ g[c] \in Int
  <2> TAKE c \in K
  <2>1. class(c) \in SUBSET S /\ \A x \in class(c) : w[x] \in Int
    BY DEF Class
  <2>2. IsFiniteSet(class(c))
    BY <2>1, FS_Subset
  <2>3. Sum(w, class(c)) \in Int
    BY <2>1, <2>2, SumInt
  <2> QED
    BY <2>2, <2>3
<1>2. bad = {}
  <2>1. SUFFICES ASSUME bad # {} PROVE FALSE
    OBVIOUS
  <2>2. PICK k \in bad : \A t \in SUBSET k : t # k => t \notin bad
    <3> HIDE DEF bad
    <3>1. bad \in SUBSET SUBSET K
      BY DEF bad
    <3> QED
      BY <2>1, <3>1, Smallest
  <2>3. k \in SUBSET K /\ Sum(w, in(k)) # Sum(g, k)
    OBVIOUS
  <2>4. k # {}
    <3>1. in({}) = {}
      OBVIOUS
    <3>2. Sum(w, in({})) = Sum(g, {})
      BY <3>1, SumEmpty
    <3> QED
      BY <2>3, <3>2
  <2>5. PICK c \in k : TRUE
    BY <2>4
  <2> DEFINE rest == k \ {c}
  <2>6. Sum(w, in(rest)) = Sum(g, rest)
    <3>1. rest \in SUBSET k /\ rest # k /\ rest \in SUBSET K
      BY <2>3
    <3> QED
      BY <3>1, <2>2
  <2>7. Sum(g, k) = g[c] + Sum(g, rest)
    <3>1. IsFiniteSet(k) /\ \A z \in k : g[z] \in Int
      BY <2>3, <1>1, FS_Subset
    <3> QED
      BY <3>1, SumTake
  <2>8. Sum(w, in(k)) = Sum(w, class(c)) + Sum(w, in(rest))
    <3>1. class(c) \cup in(rest) = in(k) /\ class(c) \cap in(rest) = {}
      BY <2>3 DEF Class
    <3>2. class(c) \in SUBSET S /\ in(rest) \in SUBSET S
      BY DEF Class
    <3>3. IsFiniteSet(class(c)) /\ IsFiniteSet(in(rest))
      BY <3>2, FS_Subset
    <3>4. \A x \in class(c) \cup in(rest) : w[x] \in Int
      BY <3>2
    <3> HIDE DEF class, in
    <3>5. Sum(w, class(c) \cup in(rest)) = Sum(w, class(c)) + Sum(w, in(rest))
      BY <3>1, <3>3, <3>4, SumUnion
    <3> QED
      BY <3>1, <3>5
  <2>9. g[c] = Sum(w, class(c))
    BY <2>3
  <2> QED
    BY <2>3, <2>6, <2>7, <2>8, <2>9
<1>3. K \notin bad /\ K \in SUBSET K
  BY <1>2
<1>4. in(K) = S
  OBVIOUS
<1>5. Sum(w, in(K)) = Sum(g, K)
  BY <1>3
<1> QED
  BY <1>4, <1>5

LEMMA SumSingle ==
  ASSUME NEW w, NEW x, w[x] \in Int
  PROVE  Sum(w, {x}) = w[x]
<1>1. IsFiniteSet({x}) /\ x \in {x} /\ {x} \ {x} = {} /\ \A y \in {x} : w[y] \in Int
  BY FS_Singleton
<1>2. Sum(w, {x}) = w[x] + Sum(w, {x} \ {x})
  BY <1>1, SumTake
<1>3. {x} \ {x} = {} /\ Sum(w, {}) = 0
  BY SumEmpty
<1>4. Sum(w, {x} \ {x}) = 0
  BY <1>3
<1> QED
  BY <1>2, <1>4

\* Renaming the elements changes nothing.
LEMMA SumRenamed ==
  ASSUME NEW w, NEW S, IsFiniteSet(S), \A x \in S : w[x] \in Int,
         NEW name, \A x, y \in S : name[x] = name[y] => x = y,
         NEW v, NEW T, T = {name[x] : x \in S}, \A x \in S : v[name[x]] = w[x]
  PROVE  IsFiniteSet(T) /\ Sum(w, S) = Sum(v, T)
<1> DEFINE f == [x \in S |-> name[x]]
<1>1. f \in Surjection(S, T)
  BY DEF Surjection
<1>2. IsFiniteSet(T)
  BY <1>1, FS_Surjection
<1>3. \A c \in T : v[c] = Sum(w, Class(S, name, c))
  <2> TAKE c \in T
  <2>1. PICK x \in S : c = name[x]
    OBVIOUS
  <2>2. Class(S, name, c) = {x}
    BY <2>1 DEF Class
  <2>3. Sum(w, {x}) = w[x]
    BY SumSingle
  <2> QED
    BY <2>1, <2>2, <2>3
<1>4. \A x \in S : name[x] \in T
  OBVIOUS
<1>5. Sum(w, S) = Sum(v, T)
  BY <1>2, <1>3, <1>4, SumGroup
<1> QED
  BY <1>2, <1>5

\* A set has as many elements as a sum of ones comes to.
LEMMA SumOnes ==
  ASSUME NEW one, NEW S, IsFiniteSet(S), \A x \in S : one[x] = 1
  PROVE  Sum(one, S) = Cardinality(S)
<1> DEFINE bad == {s \in SUBSET S : Sum(one, s) # Cardinality(s)}
<1>1. SUFFICES ASSUME bad # {} PROVE FALSE
  OBVIOUS
<1>2. PICK s \in bad : \A t \in SUBSET s : t # s => t \notin bad
  <2> HIDE DEF bad
  <2>1. bad \in SUBSET SUBSET S
    BY DEF bad
  <2> QED
    BY <1>1, <2>1, Smallest
<1>3. s \in SUBSET S /\ Sum(one, s) # Cardinality(s) /\ IsFiniteSet(s)
  BY FS_Subset
<1>4. s # {}
  <2>1. Sum(one, {}) = Cardinality({})
    BY SumEmpty, FS_EmptySet
  <2> QED
    BY <2>1, <1>3
<1>5. Sum(one, s) = 1 + Sum(one, Rest(s))
  BY <1>3, <1>4, SumPick, PickIn
<1>6. Sum(one, Rest(s)) = Cardinality(Rest(s))
  BY <1>2, <1>3, <1>4, PickIn
<1>7. Cardinality(Rest(s)) = Cardinality(s) - 1 /\ Cardinality(s) \in Nat
  BY <1>3, <1>4, PickIn, FS_RemoveElement, FS_CardinalityType DEF Rest
<1> QED
  BY <1>3, <1>5, <1>6, <1>7

-----------------------------------------------------------------------------
(* The best of a finite set. *)

LEMMA SumPositive ==
  ASSUME NEW w, NEW S, IsFiniteSet(S), S # {}, \A x \in S : w[x] \in Int /\ w[x] > 0
  PROVE  Sum(w, S) > 0
<1> DEFINE bad == {s \in SUBSET S : s # {} /\ ~ (Sum(w, s) > 0)}
<1>1. SUFFICES ASSUME bad # {} PROVE FALSE
  OBVIOUS
<1>2. PICK s \in bad : \A t \in SUBSET s : t # s => t \notin bad
  <2> HIDE DEF bad
  <2>1. bad \in SUBSET SUBSET S
    BY DEF bad
  <2> QED
    BY <1>1, <2>1, Smallest
<1>3. s \in SUBSET S /\ s # {} /\ ~ (Sum(w, s) > 0) /\ IsFiniteSet(s)
  BY FS_Subset
<1>4. Pick(s) \in s /\ Rest(s) \in SUBSET s /\ Rest(s) # s
  BY <1>3, PickIn
<1>5. Sum(w, s) = w[Pick(s)] + Sum(w, Rest(s))
  BY <1>3, SumPick
<1>6. Sum(w, Rest(s)) >= 0 /\ Sum(w, Rest(s)) \in Int
  <2>1. CASE Rest(s) = {}
    <3>1. Sum(w, {}) >= 0 /\ Sum(w, {}) \in Int
      BY SumEmpty
    <3> QED
      BY <2>1, <3>1
  <2>2. CASE Rest(s) # {}
    <3>1. Sum(w, Rest(s)) > 0
      BY <2>2, <1>2, <1>3, <1>4
    <3>2. IsFiniteSet(Rest(s)) /\ \A x \in Rest(s) : w[x] \in Int
      BY <1>3, <1>4, FS_Subset
    <3>3. Sum(w, Rest(s)) \in Int
      BY <3>2, SumInt
    <3> QED
      BY <3>1, <3>3
  <2> QED
    BY <2>1, <2>2
<1>7. w[Pick(s)] \in Int /\ w[Pick(s)] > 0
  BY <1>3, <1>4
<1> QED
  BY <1>3, <1>5, <1>6, <1>7

LEMMA LeastValue ==
  ASSUME NEW w, NEW S, IsFiniteSet(S), S # {}, \A x \in S : w[x] \in Int
  PROVE  \E x \in S : \A y \in S : w[x] <= w[y]
<1> DEFINE below(x) == {y \in S : w[y] <= w[x]}
           some == {below(x) : x \in S}
<1>1. some \in SUBSET SUBSET S /\ some # {}
  OBVIOUS
<1>2. PICK s \in some : \A t \in SUBSET s : t # s => t \notin some
  <2> HIDE DEF some
  <2> QED
    BY <1>1, Smallest
<1>3. PICK x \in S : s = below(x)
  OBVIOUS
<1>4. ASSUME NEW y \in S, w[y] < w[x] PROVE FALSE
  <2>1. below(y) \in some
    BY <1>4
  <2>2. below(y) \in SUBSET s
    BY <1>3, <1>4
  <2>3. x \in s /\ x \notin below(y)
    BY <1>3, <1>4
  <2>4. below(y) # s
    BY <2>3
  <2> HIDE DEF some, below
  <2> QED
    BY <1>2, <2>1, <2>2, <2>4
<1> QED
  BY <1>4

\* There are the n best of a set, for every n.
LEMMA BestExist ==
  ASSUME NEW w, NEW S, IsFiniteSet(S), \A x \in S : w[x] \in Int,
         NEW n \in Nat, n <= Cardinality(S)
  PROVE  \E top \in SUBSET S : Cardinality(top) = n /\ \A p \in top, q \in S \ top : w[p] >= w[q]
<1> DEFINE best(t) == \A p \in t, q \in S \ t : w[p] >= w[q]
           some == {t \in SUBSET S : n <= Cardinality(t) /\ best(t)}
<1>1. S \in some
  OBVIOUS
<1>2. PICK s \in some : \A t \in SUBSET s : t # s => t \notin some
  <2> HIDE DEF some
  <2>1. some \in SUBSET SUBSET S /\ some # {}
    BY <1>1 DEF some
  <2> QED
    BY <2>1, Smallest
<1>3. s \in SUBSET S /\ n <= Cardinality(s) /\ best(s)
  OBVIOUS
<1>4. IsFiniteSet(s) /\ Cardinality(s) \in Nat
  BY <1>3, FS_Subset, FS_CardinalityType
<1>5. ASSUME n < Cardinality(s) PROVE FALSE
  <2>1. s # {}
    BY <1>4, <1>5, FS_EmptySet
  <2>2. PICK x \in s : \A y \in s : w[x] <= w[y]
    BY <1>3, <1>4, <2>1, LeastValue
  <2> DEFINE t == s \ {x}
  <2>3. n <= Cardinality(t)
    <3>1. Cardinality(t) = Cardinality(s) - 1
      BY <1>4, FS_RemoveElement
    <3> HIDE DEF t
    <3> QED
      BY <1>4, <1>5, <3>1
  <2>4. best(t)
    <3>1. SUFFICES ASSUME NEW p \in t, NEW q \in S \ t PROVE w[p] >= w[q]
      OBVIOUS
    <3>2. p \in s /\ p \in S /\ w[p] \in Int /\ w[q] \in Int
      BY <1>3
    <3>3. CASE q = x
      BY <3>2, <3>3, <2>2
    <3>4. CASE q # x
      BY <3>2, <3>4, <1>3
    <3> QED
      BY <3>3, <3>4
  <2>5. t \in SUBSET s /\ t # s /\ t \in SUBSET S
    BY <1>3
  <2>6. t \in some
    BY <2>3, <2>4, <2>5
  <2> HIDE DEF some, t
  <2> QED
    BY <1>2, <2>5, <2>6
<1>6. Cardinality(s) = n
  BY <1>3, <1>4, <1>5
<1> QED
  BY <1>3, <1>6
=============================================================================
