----------------------------- MODULE SumTheorems -----------------------------
(***************************************************************************)
(* Facts about SumFunctionOnSet(v, S), the sum of v[x] over the elements x *)
(* of a finite set S, for the proofs that money adds up. The sum is a      *)
(* recursive function that takes out the elements in an order of its own;  *)
(* the proofs are by induction on finite sets, stated with the set of      *)
(* counterexamples in the place of a predicate.                            *)
(***************************************************************************)
EXTENDS Integers, FiniteSets, Functions, FiniteSetTheorems, WellFoundedInduction, TLAPS

(* A set of subsets of a finite set has a minimal element.                  *)
LEMMA NoMinimalCounterexample ==
    ASSUME NEW S, IsFiniteSet(S), NEW Bad \in SUBSET (SUBSET S),
           \A s \in Bad : \E t \in Bad : t \subseteq s /\ t # s
    PROVE  Bad = {}
<1> SUFFICES ASSUME Bad # {} PROVE FALSE
  OBVIOUS
<1>1. IsWellFoundedOn(StrictSubsetOrdering(S), FiniteSubsetsOf(S))
  BY FS_StrictSubsetOrderingWellFounded
<1>2. Bad \subseteq FiniteSubsetsOf(S)
  BY FS_FiniteSubsetsOfFinite
<1>3. PICK s \in Bad : \A t \in Bad : <<t, s>> \notin StrictSubsetOrdering(S)
  BY <1>1, <1>2, WFMin
<1>4. PICK t \in Bad : t \subseteq s /\ t # s
  OBVIOUS
<1> QED
  BY <1>3, <1>4 DEF StrictSubsetOrdering

-----------------------------------------------------------------------------
(* The recursive function behind a sum *)

First(s) == CHOOSE x \in s : TRUE

IsSum(g, v, S) ==
    g = [s \in SUBSET S |-> IF s = {} THEN 0 ELSE v[First(s)] + g[s \ {First(s)}]]

LEMMA FirstIn ==
    ASSUME NEW s, s # {}
    PROVE  First(s) \in s
BY DEF First

LEMMA SumChosen ==
    ASSUME NEW v, NEW S
    PROVE  SumFunctionOnSet(v, S) = (CHOOSE g : IsSum(g, v, S))[S]
BY DEF SumFunctionOnSet, FoldFunctionOnSet, MapThenFoldSet, IsSum, First

LEMMA SumAt ==
    ASSUME NEW v, NEW S, NEW g, IsSum(g, v, S), NEW s \in SUBSET S
    PROVE  g[s] = IF s = {} THEN 0 ELSE v[First(s)] + g[s \ {First(s)}]
BY DEF IsSum

LEMMA SumUnique ==
    ASSUME NEW v, NEW A, NEW B, IsFiniteSet(A), NEW g, NEW h,
           IsSum(g, v, A), IsSum(h, v, B)
    PROVE  \A s \in SUBSET (A \cap B) : g[s] = h[s]
<1> DEFINE Bad == {s \in SUBSET (A \cap B) : g[s] # h[s]}
<1>1. ASSUME NEW s \in Bad
      PROVE  \E t \in Bad : t \subseteq s /\ t # s
  <2>1. s # {}
    <3> SUFFICES ASSUME s = {} PROVE FALSE
      OBVIOUS
    <3>1. s \in SUBSET A /\ s \in SUBSET B
      OBVIOUS
    <3>2. g[s] = 0 /\ h[s] = 0
      BY <3>1, SumAt
    <3> QED
      BY <3>2
  <2>2. First(s) \in s
    BY <2>1, FirstIn
  <2>3. /\ g[s] = v[First(s)] + g[s \ {First(s)}]
        /\ h[s] = v[First(s)] + h[s \ {First(s)}]
    BY <2>1, SumAt
  <2>4. s \ {First(s)} \in Bad
    BY <2>3
  <2> QED
    BY <2>2, <2>4
<1>2. Bad \in SUBSET (SUBSET A)
  OBVIOUS
<1>3. Bad = {}
  <2> HIDE DEF Bad
  <2> QED
    BY <1>1, <1>2, NoMinimalCounterexample
<1> QED
  BY <1>3

LEMMA SumExists ==
    ASSUME NEW v, NEW S, IsFiniteSet(S)
    PROVE  \E g : IsSum(g, v, S)
<1> DEFINE Bad == {s \in SUBSET S : ~ \E g : IsSum(g, v, s)}
<1>1. ASSUME NEW T \in Bad
      PROVE  \E t \in Bad : t \subseteq T /\ t # T
  <2> SUFFICES ASSUME \A t \in SUBSET T : t # T => \E g : IsSum(g, v, t)
               PROVE  FALSE
    BY <1>1
  <2> DEFINE part(t) == CHOOSE g : IsSum(g, v, t)
             below(t) == part(t)[t]
             f == [s \in SUBSET T |-> IF s = {} THEN 0
                                      ELSE v[First(s)] + below(s \ {First(s)})]
  <2>1. ASSUME NEW t \in SUBSET T, t # T
        PROVE  IsSum(part(t), v, t)
    BY <2>1
  <2> HIDE DEF part
  <2>2. ASSUME NEW s \in SUBSET T, s # {}
        PROVE  f[s \ {First(s)}] = below(s \ {First(s)})
    <3> DEFINE t == s \ {First(s)}
    <3>1. t \in SUBSET T /\ t # T
      BY <2>2, FirstIn
    <3> HIDE DEF t
    <3>2. IsSum(part(t), v, t)
      BY <2>1, <3>1
    <3>3. CASE t = {}
      <4>1. part(t)[t] = 0
        BY <3>2, <3>3, SumAt
      <4>2. f[t] = 0
        BY <3>1, <3>3
      <4> QED
        BY <4>1, <4>2 DEF t
    <3>4. CASE t # {}
      <4> DEFINE u == t \ {First(t)}
      <4>1. below(t) = v[First(t)] + part(t)[u]
        BY <3>2, <3>4, SumAt
      <4>2. u \in SUBSET T /\ u # T /\ u \in SUBSET t
        BY <3>1, <3>4, FirstIn
      <4>3. IsSum(part(u), v, u)
        BY <2>1, <4>2
      <4>4. IsFiniteSet(u)
        BY <4>2, FS_Subset
      <4>5. part(t)[u] = part(u)[u]
        <5>1. u \in SUBSET (u \cap t)
          BY <4>2
        <5> HIDE DEF u
        <5> QED
          BY <3>2, <4>3, <4>4, <5>1, SumUnique
      <4>6. f[t] = v[First(t)] + below(u)
        BY <3>1, <3>4
      <4> QED
        BY <4>1, <4>5, <4>6 DEF t
    <3> QED
      BY <3>3, <3>4
  <2>3. IsSum(f, v, T)
    <3>1. \A s \in SUBSET T :
            f[s] = IF s = {} THEN 0 ELSE v[First(s)] + f[s \ {First(s)}]
      <4> TAKE s \in SUBSET T
      <4>1. f[s] = IF s = {} THEN 0 ELSE v[First(s)] + below(s \ {First(s)})
        OBVIOUS
      <4> HIDE DEF f, below
      <4> QED
        BY <2>2, <4>1
    <3> HIDE DEF below
    <3>2. f = [s \in SUBSET T |-> f[s]]
      OBVIOUS
    <3> HIDE DEF f
    <3> QED
      BY <3>1, <3>2 DEF IsSum
  <2> QED
    BY <1>1, <2>3
<1>2. Bad = {}
  <2>1. Bad \in SUBSET (SUBSET S)
    OBVIOUS
  <2> HIDE DEF Bad
  <2> QED
    BY <1>1, <2>1, NoMinimalCounterexample
<1>3. S \in SUBSET S /\ S \notin Bad
  BY <1>2
<1> QED
  BY <1>3

-----------------------------------------------------------------------------
(* Sums *)

LEMMA SumEmpty ==
    ASSUME NEW v
    PROVE  SumFunctionOnSet(v, {}) = 0
<1>1. IsFiniteSet({})
  BY FS_EmptySet
<1>2. PICK g : IsSum(g, v, {}) /\ SumFunctionOnSet(v, {}) = g[{}]
  BY <1>1, SumExists, SumChosen
<1> QED
  BY <1>2, SumAt

(* The sum over a subset is a value of the sum over the set.                *)
LEMMA SumOfSubset ==
    ASSUME NEW v, NEW S, IsFiniteSet(S), NEW g, IsSum(g, v, S), NEW s \in SUBSET S
    PROVE  SumFunctionOnSet(v, s) = g[s]
<1>1. IsFiniteSet(s)
  BY FS_Subset
<1>2. PICK h : IsSum(h, v, s) /\ SumFunctionOnSet(v, s) = h[s]
  BY <1>1, SumExists, SumChosen
<1>3. s \in SUBSET (s \cap S)
  OBVIOUS
<1>4. g[s] = h[s]
  BY <1>1, <1>2, <1>3, SumUnique
<1> QED
  BY <1>2, <1>4

LEMMA SumFirst ==
    ASSUME NEW v, NEW S, IsFiniteSet(S), S # {}
    PROVE  SumFunctionOnSet(v, S)
             = v[First(S)] + SumFunctionOnSet(v, S \ {First(S)})
<1>1. PICK g : IsSum(g, v, S)
  BY SumExists
<1>2. g[S] = v[First(S)] + g[S \ {First(S)}]
  <2>1. S \in SUBSET S
    OBVIOUS
  <2> QED
    BY <1>1, <2>1, SumAt
<1>3. /\ S \in SUBSET S
      /\ S \ {First(S)} \in SUBSET S
  OBVIOUS
<1>4. SumFunctionOnSet(v, S) = g[S]
  BY <1>1, <1>3, SumOfSubset
<1>5. SumFunctionOnSet(v, S \ {First(S)}) = g[S \ {First(S)}]
  BY <1>1, <1>3, SumOfSubset
<1> QED
  BY <1>2, <1>4, <1>5

LEMMA SumInt ==
    ASSUME NEW v, NEW S, IsFiniteSet(S), \A x \in S : v[x] \in Int
    PROVE  SumFunctionOnSet(v, S) \in Int
<1> DEFINE Bad == {s \in SUBSET S : SumFunctionOnSet(v, s) \notin Int}
<1>1. ASSUME NEW s \in Bad
      PROVE  \E t \in Bad : t \subseteq s /\ t # s
  <2>1. s # {}
    BY SumEmpty
  <2>2. IsFiniteSet(s)
    BY FS_Subset
  <2>3. First(s) \in s
    BY <2>1, FirstIn
  <2>4. SumFunctionOnSet(v, s) = v[First(s)] + SumFunctionOnSet(v, s \ {First(s)})
    BY <2>1, <2>2, SumFirst
  <2>5. v[First(s)] \in Int
    BY <2>3
  <2>6. s \ {First(s)} \in Bad
    BY <2>4, <2>5
  <2> QED
    BY <2>3, <2>6
<1>2. Bad = {}
  <2>1. Bad \in SUBSET (SUBSET S)
    OBVIOUS
  <2> HIDE DEF Bad
  <2> QED
    BY <1>1, <2>1, NoMinimalCounterexample
<1>3. S \in SUBSET S /\ S \notin Bad
  BY <1>2
<1> QED
  BY <1>3

(* Any element may be taken out of the sum.                                 *)
LEMMA SumWithout ==
    ASSUME NEW v, NEW S, IsFiniteSet(S), \A x \in S : v[x] \in Int, NEW x \in S
    PROVE  SumFunctionOnSet(v, S) = v[x] + SumFunctionOnSet(v, S \ {x})
<1> DEFINE Holds(s, y) == SumFunctionOnSet(v, s) = v[y] + SumFunctionOnSet(v, s \ {y})
           Bad == {s \in SUBSET S : \E y \in s : ~Holds(s, y)}
<1>1. ASSUME NEW s \in Bad
      PROVE  \E t \in Bad : t \subseteq s /\ t # s
  <2> SUFFICES ASSUME \A t \in SUBSET s : t # s => \A y \in t : Holds(t, y)
               PROVE  FALSE
    OBVIOUS
  <2>1. PICK y \in s : ~Holds(s, y)
    OBVIOUS
  <2>2. s \in SUBSET S /\ s # {} /\ IsFiniteSet(s)
    BY <2>1, FS_Subset
  <2> DEFINE f == First(s)
             rest == s \ {f, y}
  <2>3. f \in s /\ Holds(s, f)
    BY <2>2, FirstIn, SumFirst
  <2>4. f # y
    BY <2>1, <2>3
  <2> HIDE DEF f
  <2>5. SumFunctionOnSet(v, s \ {f}) = v[y] + SumFunctionOnSet(v, rest)
    <3>1. Holds(s \ {f}, y)
      BY <2>3, <2>4
    <3>2. (s \ {f}) \ {y} = rest
      OBVIOUS
    <3> QED
      BY <3>1, <3>2
  <2>6. SumFunctionOnSet(v, s \ {y}) = v[f] + SumFunctionOnSet(v, rest)
    <3>1. Holds(s \ {y}, f)
      BY <2>3, <2>4
    <3>2. (s \ {y}) \ {f} = rest
      OBVIOUS
    <3> QED
      BY <3>1, <3>2
  <2>7. v[f] \in Int /\ v[y] \in Int /\ SumFunctionOnSet(v, rest) \in Int
    <3>1. IsFiniteSet(rest)
      BY <2>2, FS_Subset
    <3>2. \A z \in rest : v[z] \in Int
      BY <2>2
    <3>3. SumFunctionOnSet(v, rest) \in Int
      BY <3>1, <3>2, SumInt
    <3> QED
      BY <2>2, <2>3, <3>3
  <2>8. SumFunctionOnSet(v, s) = v[f] + SumFunctionOnSet(v, s \ {f})
    BY <2>3
  <2>9. Holds(s, y)
    <3> HIDE DEF rest
    <3> QED
      BY <2>5, <2>6, <2>7, <2>8
  <2> QED
    BY <2>1, <2>9
<1>2. Bad = {}
  <2>1. Bad \in SUBSET (SUBSET S)
    OBVIOUS
  <2> HIDE DEF Bad
  <2> QED
    BY <1>1, <2>1, NoMinimalCounterexample
<1>3. S \in SUBSET S /\ S \notin Bad
  BY <1>2
<1> QED
  BY <1>3

(* Equal addends have equal sums.                                           *)
LEMMA SumSame ==
    ASSUME NEW v, NEW w, NEW S, IsFiniteSet(S), \A x \in S : v[x] = w[x]
    PROVE  SumFunctionOnSet(v, S) = SumFunctionOnSet(w, S)
<1> DEFINE Bad == {s \in SUBSET S : SumFunctionOnSet(v, s) # SumFunctionOnSet(w, s)}
<1>1. ASSUME NEW s \in Bad
      PROVE  \E t \in Bad : t \subseteq s /\ t # s
  <2>1. s # {}
    BY SumEmpty
  <2>2. IsFiniteSet(s)
    BY FS_Subset
  <2>3. First(s) \in s
    BY <2>1, FirstIn
  <2>4. /\ SumFunctionOnSet(v, s) = v[First(s)] + SumFunctionOnSet(v, s \ {First(s)})
        /\ SumFunctionOnSet(w, s) = w[First(s)] + SumFunctionOnSet(w, s \ {First(s)})
    BY <2>1, <2>2, SumFirst
  <2>5. v[First(s)] = w[First(s)]
    BY <2>3
  <2>6. s \ {First(s)} \in Bad
    BY <2>4, <2>5
  <2> QED
    BY <2>3, <2>6
<1>2. Bad = {}
  <2>1. Bad \in SUBSET (SUBSET S)
    OBVIOUS
  <2> HIDE DEF Bad
  <2> QED
    BY <1>1, <2>1, NoMinimalCounterexample
<1>3. S \in SUBSET S /\ S \notin Bad
  BY <1>2
<1> QED
  BY <1>3

(* When one addend changes, the sum changes by as much.                     *)
LEMMA SumChange ==
    ASSUME NEW v, NEW w, NEW S, IsFiniteSet(S), NEW x \in S,
           \A y \in S : v[y] \in Int /\ w[y] \in Int,
           \A y \in S \ {x} : w[y] = v[y]
    PROVE  SumFunctionOnSet(w, S) = SumFunctionOnSet(v, S) + w[x] - v[x]
<1>1. /\ SumFunctionOnSet(v, S) = v[x] + SumFunctionOnSet(v, S \ {x})
      /\ SumFunctionOnSet(w, S) = w[x] + SumFunctionOnSet(w, S \ {x})
  BY SumWithout
<1>2. IsFiniteSet(S \ {x})
  BY FS_Subset
<1>3. SumFunctionOnSet(v, S \ {x}) = SumFunctionOnSet(w, S \ {x})
  BY <1>2, SumSame
<1>4. SumFunctionOnSet(v, S \ {x}) \in Int
  BY <1>2, SumInt
<1> QED
  BY <1>1, <1>3, <1>4

(* An element more adds its value.                                          *)
LEMMA SumWith ==
    ASSUME NEW v, NEW S, IsFiniteSet(S), NEW x, x \notin S,
           \A y \in S \cup {x} : v[y] \in Int
    PROVE  SumFunctionOnSet(v, S \cup {x}) = SumFunctionOnSet(v, S) + v[x]
<1> DEFINE T == S \cup {x}
<1>1. /\ IsFiniteSet(T) /\ x \in T /\ T \ {x} = S
      /\ \A y \in T : v[y] \in Int
  BY FS_AddElement
<1>2. SumFunctionOnSet(v, S) \in Int
  BY SumInt
<1>3. v[x] \in Int
  BY <1>1
<1> HIDE DEF T
<1>4. SumFunctionOnSet(v, T) = v[x] + SumFunctionOnSet(v, T \ {x})
  BY <1>1, SumWithout
<1>5. SumFunctionOnSet(v, T) = v[x] + SumFunctionOnSet(v, S)
  BY <1>1, <1>4
<1>6. SumFunctionOnSet(v, T) = SumFunctionOnSet(v, S) + v[x]
  BY <1>2, <1>3, <1>5
<1> QED
  BY <1>6 DEF T

(* Leaving out addends that are not negative leaves no more than the sum.   *)
LEMMA SumOfPart ==
    ASSUME NEW v, NEW S, IsFiniteSet(S), \A x \in S : v[x] \in Nat, NEW T \in SUBSET S
    PROVE  SumFunctionOnSet(v, T) <= SumFunctionOnSet(v, S)
<1> DEFINE Less(t, s) == SumFunctionOnSet(v, t) <= SumFunctionOnSet(v, s)
           Bad == {s \in SUBSET S : \E t \in SUBSET s : ~Less(t, s)}
<1>1. ASSUME NEW s \in Bad
      PROVE  \E u \in Bad : u \subseteq s /\ u # s
  <2> SUFFICES ASSUME \A u \in SUBSET s : u # s => \A t \in SUBSET u : Less(t, u)
               PROVE  FALSE
    OBVIOUS
  <2>1. PICK t \in SUBSET s : ~Less(t, s)
    OBVIOUS
  <2>2. IsFiniteSet(s) /\ IsFiniteSet(t) /\ \A x \in s : v[x] \in Nat
    BY FS_Subset
  <2>3. SumFunctionOnSet(v, s) \in Int /\ SumFunctionOnSet(v, t) \in Int
    BY <2>2, SumInt
  <2>4. t # s
    BY <2>1, <2>3
  <2>5. PICK x \in s : x \notin t
    BY <2>4
  <2> DEFINE u == s \ {x}
  <2>6. Less(t, u)
    BY <2>5
  <2>7. IsFiniteSet(u) /\ \A y \in u : v[y] \in Int
    BY <2>2, FS_Subset
  <2>8. SumFunctionOnSet(v, s) = v[x] + SumFunctionOnSet(v, u)
    BY <2>2, SumWithout
  <2>9. SumFunctionOnSet(v, u) \in Int
    <3> HIDE DEF u
    <3> QED
      BY <2>7, SumInt
  <2>10. v[x] \in Nat
    BY <2>2
  <2> HIDE DEF u
  <2>11. Less(t, s)
    BY <2>3, <2>6, <2>8, <2>9, <2>10
  <2> QED
    BY <2>1, <2>11
<1>2. Bad = {}
  <2>1. Bad \in SUBSET (SUBSET S)
    OBVIOUS
  <2> HIDE DEF Bad
  <2> QED
    BY <1>1, <2>1, NoMinimalCounterexample
<1>3. S \in SUBSET S /\ S \notin Bad
  BY <1>2
<1> QED
  BY <1>3

(* A sum of zeros is zero.                                                 *)
LEMMA SumOfZeros ==
    ASSUME NEW v, NEW S, IsFiniteSet(S), \A x \in S : v[x] = 0
    PROVE  SumFunctionOnSet(v, S) = 0
<1> DEFINE Bad == {s \in SUBSET S : SumFunctionOnSet(v, s) # 0}
<1>1. ASSUME NEW s \in Bad
      PROVE  \E t \in Bad : t \subseteq s /\ t # s
  <2>1. s # {}
    BY SumEmpty
  <2>2. IsFiniteSet(s)
    BY FS_Subset
  <2>3. First(s) \in s
    BY <2>1, FirstIn
  <2>4. SumFunctionOnSet(v, s) = v[First(s)] + SumFunctionOnSet(v, s \ {First(s)})
    BY <2>1, <2>2, SumFirst
  <2>5. s \ {First(s)} \in Bad
    BY <2>3, <2>4
  <2> QED
    BY <2>3, <2>5
<1>2. Bad = {}
  <2>1. Bad \in SUBSET (SUBSET S)
    OBVIOUS
  <2> HIDE DEF Bad
  <2> QED
    BY <1>1, <2>1, NoMinimalCounterexample
<1>3. S \in SUBSET S /\ S \notin Bad
  BY <1>2
<1> QED
  BY <1>3
=============================================================================
