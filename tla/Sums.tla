-------------------------------- MODULE Sums --------------------------------
(***************************************************************************)
(* Facts about finite sums, as SumFunctionOnSet, FoldFunction and          *)
(* MapThenSumSet of the community modules compute them: recursively, in    *)
(* an order that CHOOSE picks.  Induction is over the subsets of a finite  *)
(* set: of the subsets that lack a property, if there are any, one is      *)
(* minimal.                                                                *)
(***************************************************************************)
EXTENDS Integers, FiniteSets, FiniteSetsExt, Functions, FiniteSetTheorems,
        TLAPS

\* A set that has every subset of S all smaller subsets of which it has, has
\* them all.
LEMMA FiniteInduction ==
    ASSUME NEW S, IsFiniteSet(S), NEW G,
           \A T \in SUBSET S : (\A U \in SUBSET T : U # T => U \in G) => T \in G
    PROVE  \A T \in SUBSET S : T \in G
  <1> DEFINE Bad == {T \in SUBSET S : T \notin G}
  <1> SUFFICES ASSUME Bad # {} PROVE FALSE
    OBVIOUS
  <1>1. IsWellFoundedOn(StrictSubsetOrdering(S), SUBSET S)
    <2>1. IsWellFoundedOn(StrictSubsetOrdering(S), FiniteSubsetsOf(S))
      BY FS_StrictSubsetOrderingWellFounded
    <2>2. FiniteSubsetsOf(S) = SUBSET S
      BY FS_FiniteSubsetsOfFinite
    <2> QED
      BY <2>1, <2>2, Zenon
  <1>2. PICK T \in Bad : \A U \in Bad : <<U, T>> \notin StrictSubsetOrdering(S)
    <2> HIDE DEF Bad
    <2>1. Bad \subseteq SUBSET S
      BY DEF Bad
    <2> QED
      BY <1>1, <2>1, WFMin
  <1>3. ASSUME NEW U \in SUBSET T, U # T PROVE U \in G
    <2>1. T \in SUBSET S /\ U \in SUBSET S
      OBVIOUS
    <2>2. <<U, T>> \in StrictSubsetOrdering(S)
      BY <2>1, <1>3 DEF StrictSubsetOrdering
    <2> QED
      BY <1>2, <2>1, <2>2
  <1> QED
    BY <1>3

\* The element that comes first, and the recursive function that adds up f over
\* the subsets of S.
PickOf(s) == CHOOSE x \in s : TRUE

Adds(g, f, S) ==
    g = [s \in SUBSET S |->
            IF s = {} THEN 0 ELSE f[PickOf(s)] + g[s \ {PickOf(s)}]]

Adder(f, S) == CHOOSE g : Adds(g, f, S)

LEMMA SumIsAdder ==
    ASSUME NEW f, NEW S
    PROVE  SumFunctionOnSet(f, S) = Adder(f, S)[S]
  BY DEF SumFunctionOnSet, FoldFunctionOnSet, MapThenFoldSet, Adder, Adds,
         PickOf

\* There is such a function, for every finite set.
LEMMA AdderExists ==
    ASSUME NEW f, NEW S, IsFiniteSet(S)
    PROVE  Adds(Adder(f, S), f, S)
  <1> DEFINE Unique(T) == \A g, h : Adds(g, f, T) /\ Adds(h, f, T) => g = h
             G == {T \in SUBSET S : Adds(Adder(f, T), f, T) /\ Unique(T)}
  <1>1. ASSUME NEW T \in SUBSET S, \A U \in SUBSET T : U # T => U \in G
        PROVE  T \in G
    <2> DEFINE V(s) == Adder(f, s)[s]
               R(g, s) == IF s = {} THEN 0
                          ELSE f[PickOf(s)] + g[s \ {PickOf(s)}]
               k == [s \in SUBSET T |-> IF s = T
                        THEN IF T = {} THEN 0 ELSE f[PickOf(T)] + V(T \ {PickOf(T)})
                        ELSE V(s)]
    <2>0. \A s : s # {} => PickOf(s) \in s
      BY DEF PickOf
    <2>1. ASSUME NEW s \in SUBSET T, s # T, NEW u \in SUBSET s
          PROVE  Adder(f, s)[u] = V(u)
      <3>1. Adds(Adder(f, s), f, s) /\ s \in G /\ u \in G
        BY <1>1, <2>1
      <3> DEFINE a == Adder(f, s)
                 b == [w \in SUBSET u |-> a[w]]
      <3>2. Adds(b, f, u)
        <4>1. \A w \in SUBSET u :
                 a[w] = IF w = {} THEN 0 ELSE f[PickOf(w)] + a[w \ {PickOf(w)}]
          BY <3>1 DEF Adds
        <4>2. \A w \in SUBSET u : w \ {PickOf(w)} \in SUBSET u
          OBVIOUS
        <4> HIDE DEF a
        <4>3. \A w \in SUBSET u : b[w \ {PickOf(w)}] = a[w \ {PickOf(w)}]
          BY <4>2
        <4>4. b = [w \in SUBSET u |-> IF w = {} THEN 0
                       ELSE f[PickOf(w)] + b[w \ {PickOf(w)}]]
          BY <4>1, <4>3
        <4> QED
          BY <4>4 DEF Adds
      <3>3. Adds(Adder(f, u), f, u) /\ Unique(u)
        BY <3>1
      <3> HIDE DEF b
      <3>4. b = Adder(f, u)
        BY <3>2, <3>3
      <3> QED
        BY <3>4 DEF b
    <2>2. ASSUME NEW s \in SUBSET T, s # T
          PROVE  V(s) = IF s = {} THEN 0 ELSE f[PickOf(s)] + V(s \ {PickOf(s)})
      <3>1. Adds(Adder(f, s), f, s)
        BY <1>1, <2>2
      <3>2. Adder(f, s)[s] = IF s = {} THEN 0
              ELSE f[PickOf(s)] + Adder(f, s)[s \ {PickOf(s)}]
        BY <3>1 DEF Adds
      <3>3. Adder(f, s)[s \ {PickOf(s)}] = V(s \ {PickOf(s)})
        BY <2>1, <2>2
      <3> QED
        BY <3>2, <3>3
    <2> HIDE DEF V
    <2>3. Adds(k, f, T)
      <3>1. ASSUME NEW s \in SUBSET T
            PROVE  k[s] = IF s = {} THEN 0 ELSE f[PickOf(s)] + k[s \ {PickOf(s)}]
        <4>1. s # {} => s \ {PickOf(s)} # T /\ s \ {PickOf(s)} \in SUBSET T
          BY <2>0
        <4>2. s # {} => k[s \ {PickOf(s)}] = V(s \ {PickOf(s)})
          BY <4>1
        <4>3. CASE s = T
          BY <4>2, <4>3
        <4>4. CASE s # T
          BY <2>2, <4>2, <4>4
        <4> QED
          BY <4>3, <4>4
      <3> HIDE DEF k
      <3>2. k = [s \in SUBSET T |-> k[s]]
        BY DEF k
      <3> QED
        BY <3>1, <3>2 DEF Adds
    <2>4. Adds(Adder(f, T), f, T)
      BY <2>3 DEF Adder
    <2>5. ASSUME NEW g, NEW h, Adds(g, f, T), Adds(h, f, T) PROVE g = h
      <3> DEFINE E == {s \in SUBSET T : g[s] = h[s]}
      <3>1. ASSUME NEW s \in SUBSET T, \A u \in SUBSET s : u # s => u \in E
            PROVE  s \in E
        <4>1. /\ g[s] = IF s = {} THEN 0 ELSE f[PickOf(s)] + g[s \ {PickOf(s)}]
              /\ h[s] = IF s = {} THEN 0 ELSE f[PickOf(s)] + h[s \ {PickOf(s)}]
          BY <2>5 DEF Adds
        <4>2. s # {} => g[s \ {PickOf(s)}] = h[s \ {PickOf(s)}]
          BY <2>0, <3>1
        <4> QED
          BY <4>1, <4>2
      <3>2. IsFiniteSet(T)
        BY FS_Subset
      <3> HIDE DEF E
      <3>3. \A s \in SUBSET T : s \in E
        BY <3>1, <3>2, FiniteInduction
      <3> QED
        BY <2>5, <3>3 DEF Adds, E
    <2> QED
      BY <2>4, <2>5
  <1> HIDE DEF G
  <1>2. S \in G
    BY <1>1, FiniteInduction
  <1> QED
    BY <1>2 DEF G

\* The recursion: one element less at a time.
LEMMA SumUnfolds ==
    ASSUME NEW f, NEW S, IsFiniteSet(S), NEW T \in SUBSET S
    PROVE  /\ T = {} => Adder(f, S)[T] = 0
           /\ T # {} => Adder(f, S)[T]
                           = f[PickOf(T)] + Adder(f, S)[T \ {PickOf(T)}]
  <1> DEFINE g == Adder(f, S)
  <1>1. Adds(g, f, S)
    BY AdderExists
  <1> HIDE DEF g
  <1>2. g[T] = IF T = {} THEN 0 ELSE f[PickOf(T)] + g[T \ {PickOf(T)}]
    BY <1>1 DEF Adds
  <1> QED
    BY <1>2 DEF g

\* The subsets of S have the same sums as on their own.
LEMMA SumOfSubset ==
    ASSUME NEW f, NEW S, IsFiniteSet(S), NEW T \in SUBSET S
    PROVE  Adder(f, S)[T] = SumFunctionOnSet(f, T)
  <1> DEFINE G == {U \in SUBSET S : \A W \in SUBSET S :
                      U \subseteq W => Adder(f, W)[U] = Adder(f, U)[U]}
  <1>1. ASSUME NEW U \in SUBSET S, \A W \in SUBSET U : W # U => W \in G
        PROVE  U \in G
    <2> SUFFICES ASSUME NEW W \in SUBSET S, U \subseteq W
                 PROVE  Adder(f, W)[U] = Adder(f, U)[U]
      OBVIOUS
    <2>1. IsFiniteSet(W) /\ IsFiniteSet(U)
      BY FS_Subset
    <2>2. CASE U = {}
      BY <2>1, <2>2, SumUnfolds
    <2>3. CASE U # {}
      <3> DEFINE V == U \ {PickOf(U)}
      <3>1. V \in SUBSET U /\ V # U
        BY <2>3 DEF PickOf
      <3>2. /\ Adder(f, W)[V] = Adder(f, V)[V]
            /\ Adder(f, U)[V] = Adder(f, V)[V]
        BY <1>1, <3>1
      <3>3. /\ Adder(f, W)[U] = f[PickOf(U)] + Adder(f, W)[V]
            /\ Adder(f, U)[U] = f[PickOf(U)] + Adder(f, U)[V]
        BY <2>1, <2>3, SumUnfolds
      <3> QED
        BY <3>2, <3>3
    <2> QED
      BY <2>2, <2>3
  <1> HIDE DEF G
  <1>2. T \in G
    BY <1>1, FiniteInduction
  <1> QED
    BY <1>2, SumIsAdder DEF G

\* Sums of natural numbers are natural numbers, nothing adds up to zero, and
\* any element may be taken out of a sum, whichever CHOOSE takes first.
LEMMA SumOfNone ==
    ASSUME NEW f
    PROVE  SumFunctionOnSet(f, {}) = 0
  <1>1. IsFiniteSet({}) /\ {} \in SUBSET {}
    BY FS_EmptySet
  <1> QED
    BY <1>1, SumUnfolds, SumIsAdder

LEMMA SumLess ==
    ASSUME NEW f, NEW S, IsFiniteSet(S), \A x \in S : f[x] \in Nat
    PROVE  /\ SumFunctionOnSet(f, S) \in Nat
           /\ \A x \in S : SumFunctionOnSet(f, S)
                                = f[x] + SumFunctionOnSet(f, S \ {x})
  <1> DEFINE Sum(T) == SumFunctionOnSet(f, T)
             G == {T \in SUBSET S :
                      /\ Sum(T) \in Nat
                      /\ \A x \in T : Sum(T) = f[x] + Sum(T \ {x})}
  <1> HIDE DEF Sum
  <1>1. ASSUME NEW T \in SUBSET S, \A U \in SUBSET T : U # T => U \in G
        PROVE  T \in G
    <2>1. CASE T = {}
      BY <2>1, SumOfNone DEF Sum
    <2>2. CASE T # {}
      <3> DEFINE p == PickOf(T)
      <3>1. p \in T
        BY <2>2 DEF PickOf
      <3>2. IsFiniteSet(T)
        BY FS_Subset
      <3>3. Sum(T) = f[p] + Sum(T \ {p})
        <4>1. Adder(f, T)[T] = f[p] + Adder(f, T)[T \ {p}]
          BY <2>2, <3>2, SumUnfolds
        <4>2. Adder(f, T)[T] = Sum(T) /\ Adder(f, T)[T \ {p}] = Sum(T \ {p})
          BY <3>2, SumOfSubset DEF Sum
        <4> QED
          BY <4>1, <4>2
      <3> HIDE DEF p
      <3>4. ASSUME NEW x \in T PROVE Sum(T \ {x}) \in Nat
        BY <1>1, <3>4
      <3>5. ASSUME NEW x \in T, x # p PROVE Sum(T) = f[x] + Sum(T \ {x})
        <4>1. /\ T \ {p} \in G /\ x \in T \ {p}
              /\ T \ {x} \in G /\ p \in T \ {x}
          BY <1>1, <3>1, <3>5
        <4>2. /\ Sum(T \ {p}) = f[x] + Sum((T \ {p}) \ {x})
              /\ Sum(T \ {x}) = f[p] + Sum((T \ {x}) \ {p})
          BY <4>1
        <4>3. (T \ {p}) \ {x} = (T \ {x}) \ {p}
          OBVIOUS
        <4>4. (T \ {p}) \ {x} \in G
          BY <1>1, <3>1, <3>5
        <4>5. Sum((T \ {p}) \ {x}) \in Nat
          BY <4>4
        <4>6. f[x] \in Nat /\ f[p] \in Nat
          BY <3>1
        <4> DEFINE rest == Sum((T \ {p}) \ {x})
        <4>7. /\ Sum(T) = f[p] + (f[x] + rest)
              /\ Sum(T \ {x}) = f[p] + rest
              /\ rest \in Nat
          BY <3>3, <4>2, <4>3, <4>5
        <4> HIDE DEF rest
        <4> QED
          BY <4>6, <4>7
      <3>6. Sum(T) \in Nat
        BY <3>1, <3>3, <3>4
      <3> QED
        BY <3>3, <3>5, <3>6
    <2> QED
      BY <2>1, <2>2
  <1> HIDE DEF G
  <1>2. S \in G
    BY <1>1, FiniteInduction
  <1> QED
    BY <1>2 DEF G, Sum

\* A sum grows by what is added to it.
LEMMA SumMore ==
    ASSUME NEW f, NEW S, IsFiniteSet(S), NEW x, x \notin S,
           \A y \in S \cup {x} : f[y] \in Nat
    PROVE  SumFunctionOnSet(f, S \cup {x}) = f[x] + SumFunctionOnSet(f, S)
  <1>1. IsFiniteSet(S \cup {x}) /\ (S \cup {x}) \ {x} = S
    BY FS_AddElement
  <1>2. SumFunctionOnSet(f, S \cup {x})
           = f[x] + SumFunctionOnSet(f, (S \cup {x}) \ {x})
    BY <1>1, SumLess
  <1> QED
    BY <1>1, <1>2

\* A sum is at least each of its elements, and zero if they all are.
LEMMA SumBounds ==
    ASSUME NEW f, NEW S, IsFiniteSet(S), \A x \in S : f[x] \in Nat
    PROVE  /\ \A x \in S : f[x] <= SumFunctionOnSet(f, S)
           /\ (\A x \in S : f[x] = 0) => SumFunctionOnSet(f, S) = 0
  <1>1. ASSUME NEW x \in S PROVE f[x] <= SumFunctionOnSet(f, S)
    <2>1. IsFiniteSet(S \ {x})
      BY FS_RemoveElement
    <2>2. SumFunctionOnSet(f, S \ {x}) \in Nat
      BY <2>1, SumLess
    <2> QED
      BY <2>2, SumLess
  <1>2. ASSUME \A x \in S : f[x] = 0 PROVE SumFunctionOnSet(f, S) = 0
    <2> DEFINE G == {T \in SUBSET S : SumFunctionOnSet(f, T) = 0}
    <2>1. ASSUME NEW T \in SUBSET S, \A U \in SUBSET T : U # T => U \in G
          PROVE  T \in G
      <3>1. CASE T = {}
        BY <3>1, SumOfNone
      <3>2. CASE T # {}
        <4>1. PICK x \in T : TRUE
          BY <3>2
        <4>2. IsFiniteSet(T) /\ T \ {x} \in G
          BY <2>1, <4>1, FS_Subset
        <4>3. SumFunctionOnSet(f, T) = f[x] + SumFunctionOnSet(f, T \ {x})
          BY <4>1, <4>2, SumLess
        <4> QED
          BY <1>2, <4>2, <4>3
      <3> QED
        BY <3>1, <3>2
    <2> HIDE DEF G
    <2>2. S \in G
      BY <2>1, FiniteInduction
    <2> QED
      BY <2>2 DEF G
  <1> QED
    BY <1>1, <1>2
=============================================================================
