----------------------------- MODULE SumLemmas -----------------------------
(***************************************************************************)
(* Facts about SumFunction, the sum of the values of an integer function   *)
(* over a finite domain, for the proofs about balances.                    *)
(*                                                                         *)
(* SumFunction is a fold: a function g over the subsets of the domain that *)
(* takes one element off at a time, chosen by CHOOSE as the one equation   *)
(* the fold satisfies.  The first lemmas show that such a g exists; a fact *)
(* about a sum is then proved for the g of every subset, by induction.     *)
(***************************************************************************)
EXTENDS Integers, FiniteSets, Functions, FiniteSetTheorems, WellFoundedInduction, TLAPS

Pick(T) == CHOOSE x \in T : TRUE

Rest(T) == T \ {Pick(T)}

(* g holds the sum of f over every subset of S. *)
Unrolls(g, f, S) ==
    g = [T \in SUBSET S |-> IF T = {} THEN 0 ELSE f[Pick(T)] + g[Rest(T)]]

-----------------------------------------------------------------------------
(* Induction over the subsets of a finite set, with the predicate given as *)
(* the set of the subsets that satisfy it.                                 *)
LEMMA SubsetInduction ==
    ASSUME NEW S, IsFiniteSet(S), NEW Good,
           \A T \in SUBSET S : (\A V \in SUBSET T : V # T => V \in Good) => T \in Good
    PROVE  \A T \in SUBSET S : T \in Good
<1> DEFINE R == StrictSubsetOrdering(S)
           Bad == {T \in SUBSET S : T \notin Good}
<1>1. IsWellFoundedOn(R, SUBSET S)
  BY FS_StrictSubsetOrderingWellFounded, FS_FiniteSubsetsOfFinite
<1>2. SUFFICES ASSUME Bad # {} PROVE FALSE
  OBVIOUS
<1>3. PICK T \in Bad : \A V \in Bad : <<V, T>> \notin R
  <2>1. Bad \subseteq SUBSET S OBVIOUS
  <2> HIDE DEF R, Bad
  <2> QED BY <1>1, <1>2, <2>1, WFMin
<1>4. \A V \in SUBSET T : V # T => V \in Good
  BY <1>3 DEF StrictSubsetOrdering
<1> QED BY <1>3, <1>4

LEMMA PickInSet ==
    ASSUME NEW T, T # {} PROVE Pick(T) \in T /\ Rest(T) \subseteq T /\ Rest(T) # T
BY DEF Pick, Rest

(* The same, for a step that takes off the element the sum takes off. *)
LEMMA RestInduction ==
    ASSUME NEW S, IsFiniteSet(S), NEW Good, {} \in Good,
           \A T \in SUBSET S : T # {} /\ Rest(T) \in Good => T \in Good
    PROVE  \A T \in SUBSET S : T \in Good
<1>1. ASSUME NEW T \in SUBSET S, \A V \in SUBSET T : V # T => V \in Good
      PROVE  T \in Good
  <2>1. CASE T = {} BY <2>1
  <2>2. CASE T # {}
    <3>1. Rest(T) \in Good BY <2>2, <1>1, PickInSet
    <3> QED BY <2>2, <3>1
  <2> QED BY <2>1, <2>2
<1> QED BY <1>1, SubsetInduction

-----------------------------------------------------------------------------
(* The equation of the fold has one solution. *)

LEMMA UnrollsAt ==
    ASSUME NEW g, NEW f, NEW S, Unrolls(g, f, S), NEW T \in SUBSET S
    PROVE  g[T] = IF T = {} THEN 0 ELSE f[Pick(T)] + g[Rest(T)]
BY DEF Unrolls

LEMMA UnrollsEmpty ==
    ASSUME NEW g, NEW f, NEW S, Unrolls(g, f, S)
    PROVE  g[{}] = 0
BY UnrollsAt

LEMMA UnrollsUnique ==
    ASSUME NEW f, NEW U, NEW V, NEW g, NEW h, Unrolls(g, f, U), Unrolls(h, f, V),
           NEW W, W \subseteq U, W \subseteq V, IsFiniteSet(W)
    PROVE  g[W] = h[W]
<1> DEFINE Good == {T \in SUBSET W : g[T] = h[T]}
<1>1. {} \in Good
  BY UnrollsAt
<1>2. ASSUME NEW T \in SUBSET W, T # {}, Rest(T) \in Good PROVE T \in Good
  <2>1. T \in SUBSET U /\ T \in SUBSET V OBVIOUS
  <2>2. g[T] = f[Pick(T)] + g[Rest(T)] BY <1>2, <2>1, UnrollsAt
  <2>3. h[T] = f[Pick(T)] + h[Rest(T)] BY <1>2, <2>1, UnrollsAt
  <2> QED BY <1>2, <2>2, <2>3
<1>3. \A T \in SUBSET W : T \in Good
  <2> HIDE DEF Good
  <2> QED BY <1>1, <1>2, RestInduction
<1> QED BY <1>3

LEMMA UnrollsExists ==
    ASSUME NEW f, NEW S, IsFiniteSet(S)
    PROVE  \E g : Unrolls(g, f, S)
<1> DEFINE Good == {T \in SUBSET S : \E g : Unrolls(g, f, T)}
           G(V) == CHOOSE g : Unrolls(g, f, V)
<1>1. ASSUME NEW W \in SUBSET S, \A V \in SUBSET W : V # W => V \in Good
      PROVE  W \in Good
  <2> DEFINE g == [T \in SUBSET W |-> IF T = {} THEN 0
                                       ELSE f[Pick(T)] + G(Rest(T))[Rest(T)]]
  <2>1. ASSUME NEW V \in SUBSET W, V # W PROVE Unrolls(G(V), f, V)
    <3>1. \E k : Unrolls(k, f, V) BY <1>1, <2>1
    <3> QED BY <3>1
  <2>2. ASSUME NEW T \in SUBSET W, T # {} PROVE g[Rest(T)] = G(Rest(T))[Rest(T)]
    <3> DEFINE V == Rest(T)
    <3>1. V \in SUBSET W /\ V # W BY <2>2, PickInSet
    <3>2. Unrolls(G(V), f, V) BY <2>1, <3>1
    <3>3. CASE V = {}
      <4>1. G(V)[V] = 0
        <5> HIDE DEF G
        <5> QED BY <3>2, <3>3, UnrollsAt
      <4> QED BY <4>1, <3>1, <3>3
    <3>4. CASE V # {}
      <4>1. Rest(V) \in SUBSET W /\ Rest(V) # W /\ Rest(V) \subseteq V
        BY <3>1, <3>4, PickInSet
      <4>2. Unrolls(G(Rest(V)), f, Rest(V)) BY <2>1, <4>1
      <4>3. IsFiniteSet(Rest(V)) BY <4>1, FS_Subset
      <4>4. G(V)[Rest(V)] = G(Rest(V))[Rest(V)]
        <5> HIDE DEF G, V
        <5> QED BY <3>2, <4>1, <4>2, <4>3, UnrollsUnique
      <4>5. G(V)[V] = f[Pick(V)] + G(V)[Rest(V)]
        <5> HIDE DEF G, V
        <5> QED BY <3>2, <3>4, UnrollsAt
      <4>6. g[V] = f[Pick(V)] + G(Rest(V))[Rest(V)]
        <5> HIDE DEF G, V
        <5> QED BY <3>1, <3>4
      <4> QED BY <4>4, <4>5, <4>6
    <3> QED BY <3>3, <3>4
  <2>3. Unrolls(g, f, W)
    <3>1. g = [T \in SUBSET W |-> IF T = {} THEN 0 ELSE f[Pick(T)] + g[Rest(T)]]
      <4>1. \A T \in SUBSET W :
              g[T] = IF T = {} THEN 0 ELSE f[Pick(T)] + g[Rest(T)]
        <5>1. TAKE T \in SUBSET W
        <5>2. CASE T = {} BY <5>2
        <5>3. CASE T # {}
          <6>1. g[Rest(T)] = G(Rest(T))[Rest(T)] BY <2>2, <5>3
          <6>2. g[T] = f[Pick(T)] + G(Rest(T))[Rest(T)] BY <5>3
          <6> QED BY <5>3, <6>1, <6>2
        <5> QED BY <5>2, <5>3
      <4>2. g = [T \in SUBSET W |-> g[T]] OBVIOUS
      <4> HIDE DEF g
      <4> QED BY <4>1, <4>2
    <3> HIDE DEF g
    <3> QED BY <3>1 DEF Unrolls
  <2> QED BY <2>3
<1>2. \A T \in SUBSET S : T \in Good
  <2> HIDE DEF Good
  <2> QED BY <1>1, SubsetInduction
<1> QED BY <1>2

(* So a sum is the value at the whole domain of some such function. *)
LEMMA SumUnrolls ==
    ASSUME NEW S, IsFiniteSet(S), NEW f, f = [x \in S |-> f[x]]
    PROVE  \E g : Unrolls(g, f, S) /\ SumFunction(f) = g[S]
<1>1. DOMAIN f = S
  OBVIOUS
<1>2. SumFunction(f) = (CHOOSE g : Unrolls(g, f, S))[S]
  BY <1>1 DEF SumFunction, SumFunctionOnSet, FoldFunctionOnSet, MapThenFoldSet,
              Unrolls, Pick, Rest
<1>3. \E g : Unrolls(g, f, S)
  BY UnrollsExists
<1> QED BY <1>2, <1>3
-----------------------------------------------------------------------------
(* The sums of two functions are compared element by element, through the  *)
(* two functions that unroll them.                                         *)

LEMMA SumType ==
    ASSUME NEW S, IsFiniteSet(S), NEW f \in [S -> Int]
    PROVE  SumFunction(f) \in Int
<1>1. PICK g : Unrolls(g, f, S) /\ SumFunction(f) = g[S]
  BY SumUnrolls
<1> DEFINE Good == {T \in SUBSET S : g[T] \in Int}
<1>2. {} \in Good
  BY <1>1, UnrollsEmpty
<1>3. ASSUME NEW T \in SUBSET S, T # {}, Rest(T) \in Good PROVE T \in Good
  <2>1. g[T] = f[Pick(T)] + g[Rest(T)] BY <1>1, <1>3, UnrollsAt
  <2>2. Pick(T) \in S BY <1>3, PickInSet
  <2> QED BY <2>1, <2>2, <1>3
<1>4. \A T \in SUBSET S : T \in Good
  <2> HIDE DEF Good
  <2> QED BY <1>2, <1>3, RestInduction
<1> QED BY <1>1, <1>4

(* A sum is monotone in the function. *)
LEMMA SumMonotone ==
    ASSUME NEW S, IsFiniteSet(S), NEW f \in [S -> Int], NEW h \in [S -> Int],
           \A x \in S : f[x] <= h[x]
    PROVE  SumFunction(f) <= SumFunction(h)
<1>1. PICK g : Unrolls(g, f, S) /\ SumFunction(f) = g[S]
  BY SumUnrolls
<1>2. PICK k : Unrolls(k, h, S) /\ SumFunction(h) = k[S]
  BY SumUnrolls
<1> DEFINE Good == {T \in SUBSET S : g[T] \in Int /\ k[T] \in Int /\ g[T] <= k[T]}
<1>3. {} \in Good
  BY <1>1, <1>2, UnrollsEmpty
<1>4. ASSUME NEW T \in SUBSET S, T # {}, Rest(T) \in Good PROVE T \in Good
  <2>1. g[T] = f[Pick(T)] + g[Rest(T)] BY <1>1, <1>4, UnrollsAt
  <2>2. k[T] = h[Pick(T)] + k[Rest(T)] BY <1>2, <1>4, UnrollsAt
  <2>3. Pick(T) \in S BY <1>4, PickInSet
  <2>4. f[Pick(T)] \in Int /\ h[Pick(T)] \in Int /\ f[Pick(T)] <= h[Pick(T)] BY <2>3
  <2> QED BY <2>1, <2>2, <2>4, <1>4
<1>5. \A T \in SUBSET S : T \in Good
  <2> HIDE DEF Good
  <2> QED BY <1>3, <1>4, RestInduction
<1> QED BY <1>1, <1>2, <1>5

(* A sum is linear: h = f + c * k. *)
LEMMA SumLinear ==
    ASSUME NEW S, IsFiniteSet(S), NEW f \in [S -> Int], NEW k \in [S -> Int],
           NEW c \in Int, NEW h \in [S -> Int],
           \A x \in S : h[x] = f[x] + c * k[x]
    PROVE  SumFunction(h) = SumFunction(f) + c * SumFunction(k)
<1>1. PICK F : Unrolls(F, f, S) /\ SumFunction(f) = F[S]
  BY SumUnrolls
<1>2. PICK K : Unrolls(K, k, S) /\ SumFunction(k) = K[S]
  BY SumUnrolls
<1>3. PICK H : Unrolls(H, h, S) /\ SumFunction(h) = H[S]
  BY SumUnrolls
<1> DEFINE Good == {T \in SUBSET S : F[T] \in Int /\ K[T] \in Int /\ H[T] \in Int
                                     /\ H[T] = F[T] + c * K[T]}
<1>4. {} \in Good
  BY <1>1, <1>2, <1>3, UnrollsEmpty
<1>5. ASSUME NEW T \in SUBSET S, T # {}, Rest(T) \in Good PROVE T \in Good
  <2> DEFINE x == Pick(T)
  <2>1. F[T] = f[x] + F[Rest(T)] BY <1>1, <1>5, UnrollsAt
  <2>2. K[T] = k[x] + K[Rest(T)] BY <1>2, <1>5, UnrollsAt
  <2>3. H[T] = h[x] + H[Rest(T)] BY <1>3, <1>5, UnrollsAt
  <2>4. x \in S BY <1>5, PickInSet
  <2>5. f[x] \in Int /\ k[x] \in Int /\ h[x] \in Int /\ h[x] = f[x] + c * k[x] BY <2>4
  <2>6. ASSUME NEW a \in Int, NEW b \in Int PROVE c * (a + b) = c * a + c * b OBVIOUS
  <2>7. c * K[T] = c * k[x] + c * K[Rest(T)] BY <2>2, <2>5, <2>6, <1>5
  <2>8. c * k[x] \in Int /\ c * K[Rest(T)] \in Int BY <2>5, <1>5
  <2> QED BY <2>1, <2>2, <2>3, <2>5, <2>7, <2>8, <1>5
<1>6. \A T \in SUBSET S : T \in Good
  <2> HIDE DEF Good
  <2> QED BY <1>4, <1>5, RestInduction
<1> QED BY <1>1, <1>2, <1>3, <1>6

(* Changing the value of one element changes the sum by the difference. *)
LEMMA SumUpdate ==
    ASSUME NEW S, IsFiniteSet(S), NEW f \in [S -> Int], NEW h \in [S -> Int],
           NEW x \in S, \A y \in S : y # x => h[y] = f[y]
    PROVE  SumFunction(h) = SumFunction(f) + (h[x] - f[x])
<1>1. PICK F : Unrolls(F, f, S) /\ SumFunction(f) = F[S]
  BY SumUnrolls
<1>2. PICK H : Unrolls(H, h, S) /\ SumFunction(h) = H[S]
  BY SumUnrolls
<1> DEFINE Good == {T \in SUBSET S :
                      F[T] \in Int /\ H[T] = F[T] + IF x \in T THEN h[x] - f[x] ELSE 0}
<1>3. {} \in Good
  BY <1>1, <1>2, UnrollsEmpty
<1>4. ASSUME NEW T \in SUBSET S, T # {}, Rest(T) \in Good PROVE T \in Good
  <2> DEFINE p == Pick(T)
  <2>1. F[T] = f[p] + F[Rest(T)] BY <1>1, <1>4, UnrollsAt
  <2>2. H[T] = h[p] + H[Rest(T)] BY <1>2, <1>4, UnrollsAt
  <2>3. p \in S /\ Rest(T) = T \ {p} /\ p \in T BY <1>4, PickInSet DEF Rest
  <2>4. f[p] \in Int /\ h[p] \in Int /\ f[x] \in Int /\ h[x] \in Int BY <2>3
  <2>5. CASE p = x
    <3>1. H[Rest(T)] = F[Rest(T)] + 0 BY <1>4, <2>3, <2>5
    <3> QED BY <2>1, <2>2, <2>3, <2>4, <2>5, <3>1, <1>4
  <2>6. CASE p # x
    <3>1. h[p] = f[p] /\ (x \in T <=> x \in Rest(T)) BY <2>3, <2>6
    <3> QED BY <2>1, <2>2, <2>3, <2>4, <3>1, <1>4
  <2> QED BY <2>5, <2>6
<1>5. \A T \in SUBSET S : T \in Good
  <2> HIDE DEF Good
  <2> QED BY <1>3, <1>4, RestInduction
<1>6. S \in Good BY <1>5
<1> QED BY <1>1, <1>2, <1>6

(* A sum of zeros. *)
LEMMA SumZero ==
    ASSUME NEW S, IsFiniteSet(S), NEW f \in [S -> Int], \A x \in S : f[x] = 0
    PROVE  SumFunction(f) = 0
<1>1. PICK g : Unrolls(g, f, S) /\ SumFunction(f) = g[S]
  BY SumUnrolls
<1> DEFINE Good == {T \in SUBSET S : g[T] = 0}
<1>2. {} \in Good
  BY <1>1, UnrollsEmpty
<1>3. ASSUME NEW T \in SUBSET S, T # {}, Rest(T) \in Good PROVE T \in Good
  <2>1. g[T] = f[Pick(T)] + g[Rest(T)] BY <1>1, <1>3, UnrollsAt
  <2>2. Pick(T) \in S BY <1>3, PickInSet
  <2> QED BY <2>1, <2>2, <1>3
<1>4. \A T \in SUBSET S : T \in Good
  <2> HIDE DEF Good
  <2> QED BY <1>2, <1>3, RestInduction
<1> QED BY <1>1, <1>4

(* No element of a sum of natural numbers exceeds the sum. *)
LEMMA SumElement ==
    ASSUME NEW S, IsFiniteSet(S), NEW f \in [S -> Nat], NEW x \in S
    PROVE  f[x] <= SumFunction(f)
<1> DEFINE h == [y \in S |-> IF y = x THEN 0 ELSE f[y]]
           z == [y \in S |-> 0]
<1>1. f \in [S -> Int] /\ h \in [S -> Int] /\ z \in [S -> Int]
  OBVIOUS
<1>2. SumFunction(h) = SumFunction(f) + (0 - f[x])
  BY <1>1, SumUpdate
<1>3. SumFunction(z) <= SumFunction(h)
  BY <1>1, SumMonotone
<1>4. SumFunction(z) = 0
  BY <1>1, SumZero
<1>5. SumFunction(f) \in Int /\ SumFunction(h) \in Int
  BY <1>1, SumType
<1>6. f[x] \in Int
  OBVIOUS
<1> HIDE DEF h, z
<1> QED BY <1>2, <1>3, <1>4, <1>5, <1>6

LEMMA SumTimes ==
    ASSUME NEW S, IsFiniteSet(S), NEW f \in [S -> Int], NEW h \in [S -> Int], NEW c \in Int,
           \A x \in S : h[x] = c * f[x]
    PROVE  SumFunction(h) = c * SumFunction(f)
<1> DEFINE z == [x \in S |-> 0]
<1>1. z \in [S -> Int] /\ \A x \in S : z[x] = 0
  OBVIOUS
<1> HIDE DEF z
<1>2. \A x \in S : h[x] = z[x] + c * f[x]
  BY <1>1
<1>3. SumFunction(h) = SumFunction(z) + c * SumFunction(f)
  <2>1. \A k \in [S -> Int] : (\A x \in S : h[x] = z[x] + c * k[x])
           => SumFunction(h) = SumFunction(z) + c * SumFunction(k)
    BY <1>1, SumLinear
  <2> QED BY <1>2, <2>1
<1>4. SumFunction(z) = 0 /\ SumFunction(f) \in Int
  BY <1>1, SumZero, SumType
<1> QED BY <1>3, <1>4

=============================================================================
