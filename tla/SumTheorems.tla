----------------------------- MODULE SumTheorems -----------------------------
(***************************************************************************)
(* What the sum of a function's values over a finite set is, for every     *)
(* finite set: the facts the proofs about amounts, weights and counts rest *)
(* on.  The sum is defined by CHOOSE over a recursion, so each fact is     *)
(* proved from a smallest subset for which it would fail.                  *)
(***************************************************************************)
EXTENDS Integers, FiniteSets, Functions, FiniteSetTheorems, TLAPS

Pick(s) == CHOOSE x \in s : TRUE

\* The value at s of the recursion that defines the sum.
Added(f, g, s) == IF s = {} THEN 0 ELSE f[Pick(s)] + g[s \ {Pick(s)}]

IsIter(f, S, g) == g = [s \in SUBSET S |-> Added(f, g, s)]

Iter(f, S) == CHOOSE g : IsIter(f, S, g)

\* The sum is the value the recursion has on the whole set.
LEMMA SumIsIter == \A f, S : SumFunctionOnSet(f, S) = Iter(f, S)[S]
BY Zenon DEF SumFunctionOnSet, FoldFunctionOnSet, MapThenFoldSet, Iter, IsIter, Added, Pick

\* A set of subsets of a finite set has a member none other lies within.
LEMMA MinimalSubset ==
  ASSUME NEW S, IsFiniteSet(S), NEW B, B \subseteq SUBSET S, B # {}
  PROVE  \E T \in B : \A U \in B : U \subseteq T => U = T
<1>1. FiniteSubsetsOf(S) = SUBSET S
  BY FS_FiniteSubsetsOfFinite
<1>2. IsWellFoundedOn(StrictSubsetOrdering(S), SUBSET S)
  BY <1>1, FS_StrictSubsetOrderingWellFounded
<1>3. PICK T \in B : \A U \in B : <<U, T>> \notin StrictSubsetOrdering(S)
  BY <1>2, WFMin
<1> QED BY <1>3 DEF StrictSubsetOrdering

\* The element picked from a set is one of its own.
LEMMA PickIn == \A s : s # {} => Pick(s) \in s
BY DEF Pick

\* Two solutions agree where both are defined.
LEMMA IterUnique ==
  ASSUME NEW f, NEW S, IsFiniteSet(S), NEW R, IsFiniteSet(R),
         NEW g, NEW h, IsIter(f, S, g), IsIter(f, R, h),
         NEW s, s \subseteq S, s \subseteq R
  PROVE  g[s] = h[s]
<1> DEFINE B == {t \in SUBSET S : t \subseteq R /\ g[t] # h[t]}
<1>1. \A t : t \subseteq S => g[t] = Added(f, g, t)
  BY DEF IsIter
<1>2. \A t : t \subseteq R => h[t] = Added(f, h, t)
  BY DEF IsIter
<1>3. SUFFICES ASSUME B # {} PROVE FALSE
  OBVIOUS
<1>4. PICK t \in B : \A u \in B : u \subseteq t => u = t
  <2>1. B \subseteq SUBSET S
    OBVIOUS
  <2> HIDE DEF B
  <2> QED BY <1>3, <2>1, MinimalSubset
<1>5. t # {}
  BY <1>1, <1>2, <1>4 DEF Added
<1>6. t \ {Pick(t)} \notin B
  BY <1>4, <1>5, PickIn
<1>7. g[t \ {Pick(t)}] = h[t \ {Pick(t)}]
  BY <1>4, <1>6
<1> QED BY <1>1, <1>2, <1>4, <1>5, <1>7 DEF Added

\* There is a solution on the subsets of every finite set.
LEMMA IterExists ==
  ASSUME NEW f, NEW S, IsFiniteSet(S)
  PROVE  IsIter(f, S, Iter(f, S))
<1> DEFINE Bad == {T \in SUBSET S : ~IsIter(f, T, Iter(f, T))}
<1>1. SUFFICES ASSUME Bad # {} PROVE FALSE
  OBVIOUS
<1>2. PICK T \in Bad : \A U \in Bad : U \subseteq T => U = T
  <2>1. Bad \subseteq SUBSET S
    OBVIOUS
  <2> HIDE DEF Bad
  <2> QED BY <1>1, <2>1, MinimalSubset
<1>3. \A U : U \subseteq T /\ U # T => IsIter(f, U, Iter(f, U))
  BY <1>2
<1>4. \A U : U \subseteq T => IsFiniteSet(U)
  BY <1>2, FS_Subset
<1> DEFINE val(s) == Iter(f, s)[s]
           rest(s) == s \ {Pick(s)}
           g == [s \in SUBSET T |-> IF s = {} THEN 0 ELSE f[Pick(s)] + val(rest(s))]
<1>5. ASSUME NEW s, s \subseteq T, s # {}
      PROVE  g[rest(s)] = val(rest(s))
  <2> DEFINE u == rest(s)
  <2>1. u \subseteq T /\ u # T
    BY <1>5, PickIn
  <2>2. IsIter(f, u, Iter(f, u))
    BY <1>3, <2>1
  <2>3. CASE u = {}
    <3>1. Iter(f, u)[u] = Added(f, Iter(f, u), u)
      BY <2>2 DEF IsIter
    <3> QED BY <2>1, <2>3, <3>1 DEF Added
  <2>4. CASE u # {}
    <3> DEFINE v == rest(u)
    <3>1. v \subseteq u /\ v # T /\ v \subseteq T
      BY <2>1, <2>4, PickIn
    <3>2. Iter(f, u)[u] = f[Pick(u)] + Iter(f, u)[v]
      <4>1. Iter(f, u)[u] = Added(f, Iter(f, u), u)
        BY <2>2 DEF IsIter
      <4> QED BY <4>1, <2>4 DEF Added
    <3>3. Iter(f, u)[v] = Iter(f, v)[v]
      <4>1. IsIter(f, v, Iter(f, v)) /\ IsFiniteSet(u) /\ IsFiniteSet(v)
        BY <1>3, <1>4, <2>1, <3>1
      <4> HIDE DEF u, v
      <4> QED BY <2>2, <3>1, <4>1, IterUnique
    <3>4. g[u] = f[Pick(u)] + val(v)
      BY <2>1, <2>4
    <3> QED BY <3>2, <3>3, <3>4
  <2> QED BY <2>3, <2>4
<1>6. \A s \in SUBSET T : g[s] = Added(f, g, s)
  <2> TAKE s \in SUBSET T
  <2>1. CASE s = {}
    BY <2>1 DEF Added
  <2>2. CASE s # {}
    <3>1. g[s] = f[Pick(s)] + val(rest(s))
      BY <2>2
    <3>2. g[rest(s)] = val(rest(s))
      BY <1>5, <2>2
    <3> HIDE DEF g, val
    <3> QED BY <3>1, <3>2, <2>2 DEF Added
  <2> QED BY <2>1, <2>2
<1>7. IsIter(f, T, g)
  <2>1. g = [s \in SUBSET T |-> g[s]]
    OBVIOUS
  <2> HIDE DEF g
  <2> QED BY <1>6, <2>1 DEF IsIter
<1> HIDE DEF g
<1>8. IsIter(f, T, Iter(f, T))
  BY <1>7 DEF Iter
<1> QED BY <1>2, <1>8

-----------------------------------------------------------------------------
\* Induction over the subsets of a finite set, in the form the proofs use: of the
\* subsets that fail some condition, one stops failing when it loses any element.
LEMMA SmallestFailure ==
  ASSUME NEW S, IsFiniteSet(S), NEW B, B \subseteq SUBSET S, B # {}, {} \notin B
  PROVE  \E T \in B : /\ T # {} /\ IsFiniteSet(T)
                      /\ \A x \in T : T \ {x} \notin B /\ IsFiniteSet(T \ {x})
<1>1. PICK T \in B : \A U \in B : U \subseteq T => U = T
  BY MinimalSubset
<1>2. IsFiniteSet(T)
  BY <1>1, FS_Subset
<1>3. \A x \in T : IsFiniteSet(T \ {x})
  BY <1>2, FS_RemoveElement
<1> QED BY <1>1, <1>2, <1>3

\* Nothing adds up to zero.
LEMMA SumEmpty == \A f : SumFunctionOnSet(f, {}) = 0
<1> SUFFICES ASSUME NEW f PROVE SumFunctionOnSet(f, {}) = 0
  OBVIOUS
<1>1. IsIter(f, {}, Iter(f, {}))
  BY IterExists, FS_EmptySet
<1>2. Iter(f, {})[{}] = Added(f, Iter(f, {}), {})
  BY <1>1 DEF IsIter
<1> QED BY <1>2, SumIsIter DEF Added

\* The iteration over a set goes through the sums of its parts.
LEMMA IterOnPart ==
  ASSUME NEW f, NEW S, IsFiniteSet(S), NEW T, T \subseteq S
  PROVE  Iter(f, S)[T] = Iter(f, T)[T]
<1>1. IsFiniteSet(T) /\ T \subseteq T
  BY FS_Subset
<1>2. IsIter(f, S, Iter(f, S))
  BY IterExists
<1>3. IsIter(f, T, Iter(f, T))
  BY <1>1, IterExists
<1>4. \A g, h : IsIter(f, S, g) /\ IsIter(f, T, h) => g[T] = h[T]
  BY <1>1, IterUnique
<1> QED BY <1>2, <1>3, <1>4

\* The sum is the value picked first and the sum of the others.
LEMMA SumPick ==
  ASSUME NEW f, NEW S, IsFiniteSet(S), S # {}
  PROVE  SumFunctionOnSet(f, S) = f[Pick(S)] + SumFunctionOnSet(f, S \ {Pick(S)})
<1> DEFINE R == S \ {Pick(S)}
<1>1. IsFiniteSet(R) /\ R \subseteq S
  BY FS_Subset
<1>2. IsIter(f, S, Iter(f, S)) /\ IsIter(f, R, Iter(f, R))
  BY <1>1, IterExists
<1>3. Iter(f, S)[R] = Iter(f, R)[R]
  BY <1>1, IterOnPart
<1>4. Iter(f, S)[S] = Added(f, Iter(f, S), S)
  BY <1>2 DEF IsIter
<1> QED BY <1>3, <1>4, SumIsIter DEF Added

\* Only the values on the set matter.
LEMMA SumAgrees ==
  ASSUME NEW f, NEW g, NEW S, IsFiniteSet(S), \A s \in S : f[s] = g[s]
  PROVE  SumFunctionOnSet(f, S) = SumFunctionOnSet(g, S)
<1> DEFINE Bad == {T \in SUBSET S : SumFunctionOnSet(f, T) # SumFunctionOnSet(g, T)}
<1>1. SUFFICES ASSUME Bad # {} PROVE FALSE
  OBVIOUS
<1>2. {} \notin Bad
  BY SumEmpty
<1>3. PICK T \in Bad : /\ T # {} /\ IsFiniteSet(T)
                       /\ \A x \in T : T \ {x} \notin Bad /\ IsFiniteSet(T \ {x})
  <2>1. Bad \subseteq SUBSET S
    OBVIOUS
  <2> HIDE DEF Bad
  <2> QED BY <1>1, <1>2, <2>1, SmallestFailure
<1>4. Pick(T) \in T
  BY <1>3, PickIn
<1>5. /\ SumFunctionOnSet(f, T) = f[Pick(T)] + SumFunctionOnSet(f, T \ {Pick(T)})
      /\ SumFunctionOnSet(g, T) = g[Pick(T)] + SumFunctionOnSet(g, T \ {Pick(T)})
  BY <1>3, SumPick
<1> QED BY <1>3, <1>4, <1>5

\* Integers add up to an integer.
LEMMA SumInt ==
  ASSUME NEW f, NEW S, IsFiniteSet(S), \A s \in S : f[s] \in Int
  PROVE  SumFunctionOnSet(f, S) \in Int
<1> DEFINE Bad == {T \in SUBSET S : SumFunctionOnSet(f, T) \notin Int}
<1>1. SUFFICES ASSUME Bad # {} PROVE FALSE
  OBVIOUS
<1>2. {} \notin Bad
  BY SumEmpty
<1>3. PICK T \in Bad : /\ T # {} /\ IsFiniteSet(T)
                       /\ \A x \in T : T \ {x} \notin Bad /\ IsFiniteSet(T \ {x})
  <2>1. Bad \subseteq SUBSET S
    OBVIOUS
  <2> HIDE DEF Bad
  <2> QED BY <1>1, <1>2, <2>1, SmallestFailure
<1>4. Pick(T) \in T
  BY <1>3, PickIn
<1>5. SumFunctionOnSet(f, T) = f[Pick(T)] + SumFunctionOnSet(f, T \ {Pick(T)})
  BY <1>3, SumPick
<1> QED BY <1>3, <1>4, <1>5

\* One summand more or less, whichever it is.
LEMMA SumRemove ==
  ASSUME NEW f, NEW S, IsFiniteSet(S), \A s \in S : f[s] \in Int, NEW x \in S
  PROVE  SumFunctionOnSet(f, S) = f[x] + SumFunctionOnSet(f, S \ {x})
<1> DEFINE Sum(T) == SumFunctionOnSet(f, T)
           Bad == {T \in SUBSET S : \E y \in T : Sum(T) # f[y] + Sum(T \ {y})}
<1>1. SUFFICES ASSUME Bad # {} PROVE FALSE
  OBVIOUS
<1>3. PICK T \in Bad : /\ T # {} /\ IsFiniteSet(T)
                       /\ \A z \in T : T \ {z} \notin Bad /\ IsFiniteSet(T \ {z})
  <2>1. Bad \subseteq SUBSET S /\ {} \notin Bad
    OBVIOUS
  <2> HIDE DEF Bad
  <2> QED BY <1>1, <2>1, SmallestFailure
<1>4. PICK y \in T : Sum(T) # f[y] + Sum(T \ {y})
  BY <1>3
<1> DEFINE p == Pick(T)
<1>5. p \in T /\ Sum(T) = f[p] + Sum(T \ {p})
  BY <1>3, SumPick, PickIn
<1>6. p # y
  BY <1>4, <1>5
<1> DEFINE R == (T \ {p}) \ {y}
<1> HIDE DEF p
<1>7. R = (T \ {y}) \ {p} /\ R \subseteq S
  BY <1>3
<1>8. IsFiniteSet(R)
  BY <1>3, <1>5, FS_RemoveElement
<1>9. Sum(T \ {p}) = f[y] + Sum(R)
  BY <1>3, <1>5, <1>6
<1>10. Sum(T \ {y}) = f[p] + Sum(R)
  <2>1. p \in T \ {y} /\ T \ {y} \in SUBSET S /\ T \ {y} \notin Bad
    BY <1>3, <1>4, <1>5, <1>6
  <2>2. Sum(T \ {y}) = f[p] + Sum((T \ {y}) \ {p})
    BY <2>1
  <2> QED BY <1>7, <2>2
<1>11. Sum(R) \in Int
  BY <1>7, <1>8, SumInt
<1>12. f[p] \in Int /\ f[y] \in Int
  BY <1>3, <1>5
<1> QED BY <1>4, <1>5, <1>9, <1>10, <1>11, <1>12

\* A member that joins adds its value.
LEMMA SumAdd ==
  ASSUME NEW f, NEW S, IsFiniteSet(S), NEW x, x \notin S,
         \A s \in S \cup {x} : f[s] \in Int
  PROVE  SumFunctionOnSet(f, S \cup {x}) = SumFunctionOnSet(f, S) + f[x]
<1>1. IsFiniteSet(S \cup {x}) /\ (S \cup {x}) \ {x} = S
  BY FS_AddElement
<1>2. SumFunctionOnSet(f, S) \in Int /\ f[x] \in Int
  BY SumInt
<1>3. SumFunctionOnSet(f, S \cup {x}) = f[x] + SumFunctionOnSet(f, (S \cup {x}) \ {x})
  BY <1>1, SumRemove
<1>4. SumFunctionOnSet(f, (S \cup {x}) \ {x}) = SumFunctionOnSet(f, S)
  BY <1>1, Zenon
<1> QED BY <1>2, <1>3, <1>4

\* Changing one summand changes the sum by as much.
LEMMA SumUpdate ==
  ASSUME NEW f, NEW g, NEW S, IsFiniteSet(S), NEW x \in S,
         \A s \in S : f[s] \in Int, g[x] \in Int,
         \A s \in S \ {x} : g[s] = f[s]
  PROVE  SumFunctionOnSet(g, S) = SumFunctionOnSet(f, S) - f[x] + g[x]
<1> DEFINE R == S \ {x}
<1>1. IsFiniteSet(R)
  BY FS_RemoveElement
<1>2. SumFunctionOnSet(f, S) = f[x] + SumFunctionOnSet(f, R)
  BY SumRemove
<1>3. SumFunctionOnSet(g, S) = g[x] + SumFunctionOnSet(g, R)
  <2>1. \A s \in S : g[s] \in Int
    OBVIOUS
  <2> QED BY <2>1, SumRemove
<1>4. SumFunctionOnSet(f, R) = SumFunctionOnSet(g, R)
  BY <1>1, SumAgrees
<1>5. SumFunctionOnSet(f, R) \in Int
  BY <1>1, SumInt
<1> QED BY <1>2, <1>3, <1>4, <1>5

\* Larger values have the larger sum.
LEMMA SumMonotone ==
  ASSUME NEW f, NEW g, NEW S, IsFiniteSet(S),
         \A s \in S : f[s] \in Int /\ g[s] \in Int /\ f[s] <= g[s]
  PROVE  SumFunctionOnSet(f, S) <= SumFunctionOnSet(g, S)
<1> DEFINE Bad == {T \in SUBSET S : ~(SumFunctionOnSet(f, T) <= SumFunctionOnSet(g, T))}
<1>1. SUFFICES ASSUME Bad # {} PROVE FALSE
  OBVIOUS
<1>2. {} \notin Bad
  BY SumEmpty
<1>3. PICK T \in Bad : /\ T # {} /\ IsFiniteSet(T)
                       /\ \A z \in T : T \ {z} \notin Bad /\ IsFiniteSet(T \ {z})
  <2>1. Bad \subseteq SUBSET S
    OBVIOUS
  <2> HIDE DEF Bad
  <2> QED BY <1>1, <1>2, <2>1, SmallestFailure
<1>4. PICK x : x \in T
  BY <1>3
<1> DEFINE R == T \ {x}
<1>5. R \subseteq S /\ IsFiniteSet(R) /\ SumFunctionOnSet(f, R) <= SumFunctionOnSet(g, R)
  BY <1>3, <1>4
<1>6. SumFunctionOnSet(f, R) \in Int /\ SumFunctionOnSet(g, R) \in Int
  BY <1>5, SumInt
<1>7. /\ SumFunctionOnSet(f, T) = f[x] + SumFunctionOnSet(f, R)
      /\ SumFunctionOnSet(g, T) = g[x] + SumFunctionOnSet(g, R)
  BY <1>3, <1>4, SumRemove
<1> QED BY <1>3, <1>4, <1>5, <1>6, <1>7

\* Zeros add up to zero.
LEMMA SumZero ==
  ASSUME NEW f, NEW S, IsFiniteSet(S), \A s \in S : f[s] = 0
  PROVE  SumFunctionOnSet(f, S) = 0
<1> DEFINE Bad == {T \in SUBSET S : SumFunctionOnSet(f, T) # 0}
<1>1. SUFFICES ASSUME Bad # {} PROVE FALSE
  OBVIOUS
<1>2. {} \notin Bad
  BY SumEmpty
<1>3. PICK T \in Bad : /\ T # {} /\ IsFiniteSet(T)
                       /\ \A x \in T : T \ {x} \notin Bad /\ IsFiniteSet(T \ {x})
  <2>1. Bad \subseteq SUBSET S
    OBVIOUS
  <2> HIDE DEF Bad
  <2> QED BY <1>1, <1>2, <2>1, SmallestFailure
<1>4. Pick(T) \in T
  BY <1>3, PickIn
<1>5. SumFunctionOnSet(f, T) = f[Pick(T)] + SumFunctionOnSet(f, T \ {Pick(T)})
  BY <1>3, SumPick
<1> QED BY <1>3, <1>4, <1>5

\* Natural numbers add up to a natural number.
LEMMA SumNat ==
  ASSUME NEW f, NEW S, IsFiniteSet(S), \A s \in S : f[s] \in Nat
  PROVE  SumFunctionOnSet(f, S) \in Nat
<1> DEFINE none == [s \in S |-> 0]
<1>1. SumFunctionOnSet(none, S) = 0
  BY SumZero
<1>2. SumFunctionOnSet(none, S) <= SumFunctionOnSet(f, S)
  BY SumMonotone
<1>3. SumFunctionOnSet(f, S) \in Int
  BY SumInt
<1> QED BY <1>1, <1>2, <1>3

\* The sum of the sums.
LEMMA SumPlus ==
  ASSUME NEW f, NEW g, NEW h, NEW S, IsFiniteSet(S),
         \A s \in S : f[s] \in Int /\ g[s] \in Int /\ h[s] = f[s] + g[s]
  PROVE  SumFunctionOnSet(h, S) = SumFunctionOnSet(f, S) + SumFunctionOnSet(g, S)
<1> DEFINE Bad == {T \in SUBSET S : SumFunctionOnSet(h, T)
                       # SumFunctionOnSet(f, T) + SumFunctionOnSet(g, T)}
<1>1. SUFFICES ASSUME Bad # {} PROVE FALSE
  OBVIOUS
<1>2. {} \notin Bad
  BY SumEmpty
<1>3. PICK T \in Bad : /\ T # {} /\ IsFiniteSet(T)
                       /\ \A z \in T : T \ {z} \notin Bad /\ IsFiniteSet(T \ {z})
  <2>1. Bad \subseteq SUBSET S
    OBVIOUS
  <2> HIDE DEF Bad
  <2> QED BY <1>1, <1>2, <2>1, SmallestFailure
<1>4. PICK x : x \in T
  BY <1>3
<1> DEFINE R == T \ {x}
<1>5. /\ R \subseteq S /\ IsFiniteSet(R)
      /\ SumFunctionOnSet(h, R) = SumFunctionOnSet(f, R) + SumFunctionOnSet(g, R)
  BY <1>3, <1>4
<1>6. SumFunctionOnSet(f, R) \in Int /\ SumFunctionOnSet(g, R) \in Int
  BY <1>5, SumInt
<1>7. /\ SumFunctionOnSet(f, T) = f[x] + SumFunctionOnSet(f, R)
      /\ SumFunctionOnSet(g, T) = g[x] + SumFunctionOnSet(g, R)
      /\ SumFunctionOnSet(h, T) = h[x] + SumFunctionOnSet(h, R)
  BY <1>3, <1>4, SumRemove
<1> QED BY <1>3, <1>4, <1>5, <1>6, <1>7

\* Multiplication distributes, in the form the solver takes.
LEMMA TimesDistributes == \A a, b, c \in Int : c * (a + b) = c * a + c * b
OBVIOUS

\* A common factor may be taken out.
LEMMA SumTimes ==
  ASSUME NEW f, NEW h, NEW c \in Int, NEW S, IsFiniteSet(S),
         \A s \in S : f[s] \in Int /\ h[s] = c * f[s]
  PROVE  SumFunctionOnSet(h, S) = c * SumFunctionOnSet(f, S)
<1> DEFINE Bad == {T \in SUBSET S : SumFunctionOnSet(h, T) # c * SumFunctionOnSet(f, T)}
<1>1. SUFFICES ASSUME Bad # {} PROVE FALSE
  OBVIOUS
<1>2. {} \notin Bad
  BY SumEmpty
<1>3. PICK T \in Bad : /\ T # {} /\ IsFiniteSet(T)
                       /\ \A z \in T : T \ {z} \notin Bad /\ IsFiniteSet(T \ {z})
  <2>1. Bad \subseteq SUBSET S
    OBVIOUS
  <2> HIDE DEF Bad
  <2> QED BY <1>1, <1>2, <2>1, SmallestFailure
<1>4. PICK x : x \in T
  BY <1>3
<1> DEFINE R == T \ {x}
<1>5. /\ R \subseteq S /\ IsFiniteSet(R)
      /\ SumFunctionOnSet(h, R) = c * SumFunctionOnSet(f, R)
  BY <1>3, <1>4
<1>6. SumFunctionOnSet(f, R) \in Int
  BY <1>5, SumInt
<1>7. /\ SumFunctionOnSet(f, T) = f[x] + SumFunctionOnSet(f, R)
      /\ SumFunctionOnSet(h, T) = h[x] + SumFunctionOnSet(h, R)
  BY <1>3, <1>4, SumRemove
<1>8. f[x] \in Int /\ h[x] = c * f[x] /\ T \subseteq S
  BY <1>3, <1>4
<1>9. c * (f[x] + SumFunctionOnSet(f, R)) = c * f[x] + c * SumFunctionOnSet(f, R)
  BY <1>6, <1>8, TimesDistributes
<1> QED BY <1>3, <1>5, <1>7, <1>8, <1>9

\* Two disjoint parts add up to the whole.
LEMMA SumUnion ==
  ASSUME NEW f, NEW S, IsFiniteSet(S), NEW U, IsFiniteSet(U), S \cap U = {},
         \A s \in S \cup U : f[s] \in Int
  PROVE  SumFunctionOnSet(f, S \cup U) = SumFunctionOnSet(f, S) + SumFunctionOnSet(f, U)
<1> DEFINE Bad == {T \in SUBSET S : SumFunctionOnSet(f, T \cup U)
                       # SumFunctionOnSet(f, T) + SumFunctionOnSet(f, U)}
<1>1. SUFFICES ASSUME Bad # {} PROVE FALSE
  OBVIOUS
<1>2. {} \notin Bad
  <2>1. SumFunctionOnSet(f, U) \in Int /\ {} \cup U = U
    BY SumInt
  <2> QED BY <2>1, SumEmpty
<1>3. PICK T \in Bad : /\ T # {} /\ IsFiniteSet(T)
                       /\ \A z \in T : T \ {z} \notin Bad /\ IsFiniteSet(T \ {z})
  <2>1. Bad \subseteq SUBSET S
    OBVIOUS
  <2> HIDE DEF Bad
  <2> QED BY <1>1, <1>2, <2>1, SmallestFailure
<1>4. PICK x : x \in T
  BY <1>3
<1> DEFINE R == T \ {x}
<1>5. /\ R \subseteq S /\ IsFiniteSet(R)
      /\ SumFunctionOnSet(f, R \cup U) = SumFunctionOnSet(f, R) + SumFunctionOnSet(f, U)
  BY <1>3, <1>4
<1>6. SumFunctionOnSet(f, R) \in Int /\ SumFunctionOnSet(f, U) \in Int
  BY <1>5, SumInt
<1>7. SumFunctionOnSet(f, T) = f[x] + SumFunctionOnSet(f, R)
  BY <1>3, <1>4, SumRemove
<1>8. SumFunctionOnSet(f, T \cup U) = f[x] + SumFunctionOnSet(f, R \cup U)
  <2>1. (T \cup U) \ {x} = R \cup U /\ x \in T \cup U
    BY <1>3, <1>4
  <2>2. IsFiniteSet(T \cup U)
    BY <1>3, FS_Union
  <2>3. \A s \in T \cup U : f[s] \in Int
    BY <1>3
  <2>4. SumFunctionOnSet(f, T \cup U) = f[x] + SumFunctionOnSet(f, (T \cup U) \ {x})
    BY <2>1, <2>2, <2>3, SumRemove
  <2> QED BY <2>1, <2>4
<1>9. f[x] \in Int
  BY <1>3, <1>4
<1> QED BY <1>3, <1>5, <1>6, <1>7, <1>8, <1>9

\* Of natural numbers, a part adds up to no more than the whole.
LEMMA SumOfPart ==
  ASSUME NEW f, NEW S, IsFiniteSet(S), \A s \in S : f[s] \in Nat, NEW P \in SUBSET S
  PROVE  SumFunctionOnSet(f, P) <= SumFunctionOnSet(f, S)
<1> DEFINE U == S \ P
<1>1. IsFiniteSet(P) /\ IsFiniteSet(U)
  BY FS_Subset
<1>2. SumFunctionOnSet(f, P) \in Nat /\ SumFunctionOnSet(f, U) \in Nat
  BY <1>1, SumNat
<1>3. S = P \cup U /\ P \cap U = {} /\ (\A s \in P \cup U : f[s] \in Int)
  OBVIOUS
<1> HIDE DEF U
<1>4. SumFunctionOnSet(f, P \cup U) = SumFunctionOnSet(f, P) + SumFunctionOnSet(f, U)
  BY <1>1, <1>3, SumUnion
<1> QED BY <1>2, <1>3, <1>4

\* What is not counted adds nothing.
LEMMA SumIgnoresZeros ==
  ASSUME NEW f, NEW S, IsFiniteSet(S), \A s \in S : f[s] \in Int,
         NEW P \in SUBSET S, \A s \in S \ P : f[s] = 0
  PROVE  SumFunctionOnSet(f, S) = SumFunctionOnSet(f, P)
<1> DEFINE U == S \ P
<1>1. IsFiniteSet(P) /\ IsFiniteSet(U)
  BY FS_Subset
<1>2. SumFunctionOnSet(f, P) \in Int
  BY <1>1, SumInt
<1>3. SumFunctionOnSet(f, U) = 0
  BY <1>1, SumZero
<1>4. P \cap U = {} /\ (\A s \in P \cup U : f[s] \in Int) /\ S = P \cup U
  OBVIOUS
<1> HIDE DEF U
<1>5. SumFunctionOnSet(f, P \cup U) = SumFunctionOnSet(f, P) + SumFunctionOnSet(f, U)
  BY <1>1, <1>4, SumUnion
<1> QED BY <1>2, <1>3, <1>4, <1>5

\* The same value for every element adds up to that many times it.
LEMMA SumConst ==
  ASSUME NEW f, NEW c \in Int, NEW S, IsFiniteSet(S), \A s \in S : f[s] = c
  PROVE  SumFunctionOnSet(f, S) = c * Cardinality(S)
<1> DEFINE Bad == {T \in SUBSET S : SumFunctionOnSet(f, T) # c * Cardinality(T)}
<1>1. SUFFICES ASSUME Bad # {} PROVE FALSE
  OBVIOUS
<1>2. {} \notin Bad
  BY SumEmpty, FS_EmptySet
<1>3. PICK T \in Bad : /\ T # {} /\ IsFiniteSet(T)
                       /\ \A z \in T : T \ {z} \notin Bad /\ IsFiniteSet(T \ {z})
  <2>1. Bad \subseteq SUBSET S
    OBVIOUS
  <2> HIDE DEF Bad
  <2> QED BY <1>1, <1>2, <2>1, SmallestFailure
<1>4. PICK x : x \in T
  BY <1>3
<1> DEFINE R == T \ {x}
<1>5. /\ R \subseteq S /\ IsFiniteSet(R)
      /\ SumFunctionOnSet(f, R) = c * Cardinality(R)
  BY <1>3, <1>4
<1>6. SumFunctionOnSet(f, T) = f[x] + SumFunctionOnSet(f, R)
  BY <1>3, <1>4, SumRemove
<1>7. Cardinality(R) = Cardinality(T) - 1 /\ Cardinality(T) \in Nat
  BY <1>3, <1>4, FS_RemoveElement, FS_CardinalityType
<1>8. c * (Cardinality(R) + 1) = c * Cardinality(R) + c * 1
  BY <1>7, TimesDistributes
<1> QED BY <1>3, <1>4, <1>5, <1>6, <1>7, <1>8

\* The sum does not depend on what its summands are called.
LEMMA SumReindex ==
  ASSUME NEW f, NEW g, NEW b, NEW S, IsFiniteSet(S), NEW U, IsFiniteSet(U),
         \A s \in S : b[s] \in U /\ g[b[s]] = f[s] /\ f[s] \in Int,
         \A r, s \in S : b[r] = b[s] => r = s,
         \A u \in U : \E s \in S : b[s] = u
  PROVE  SumFunctionOnSet(g, U) = SumFunctionOnSet(f, S)
<1> DEFINE img(T) == {u \in U : \E s \in T : b[s] = u}
           Bad == {T \in SUBSET S : SumFunctionOnSet(g, img(T)) # SumFunctionOnSet(f, T)}
<1>1. U = img(S)
  OBVIOUS
<1>2. SUFFICES ASSUME Bad # {} PROVE FALSE
  BY <1>1
<1>3. {} \notin Bad
  <2>1. img({}) = {}
    OBVIOUS
  <2> QED BY <2>1, SumEmpty
<1>4. PICK T \in Bad : /\ T # {} /\ IsFiniteSet(T)
                       /\ \A z \in T : T \ {z} \notin Bad /\ IsFiniteSet(T \ {z})
  <2>1. Bad \subseteq SUBSET S
    OBVIOUS
  <2> HIDE DEF Bad
  <2> QED BY <1>2, <1>3, <2>1, SmallestFailure
<1>5. PICK x : x \in T
  BY <1>4
<1>6. T \subseteq S
  BY <1>4
<1> DEFINE R == T \ {x}
<1>7. SumFunctionOnSet(g, img(R)) = SumFunctionOnSet(f, R)
  BY <1>4, <1>5, <1>6
<1>8. SumFunctionOnSet(f, T) = f[x] + SumFunctionOnSet(f, R)
  BY <1>4, <1>5, <1>6, SumRemove
<1>9. SumFunctionOnSet(g, img(T)) = g[b[x]] + SumFunctionOnSet(g, img(R))
  <2>1. img(R) = img(T) \ {b[x]} /\ b[x] \in img(T)
    BY <1>5, <1>6
  <2>2. IsFiniteSet(img(T)) /\ \A u \in img(T) : g[u] \in Int
    BY <1>6, FS_Subset
  <2> HIDE DEF img
  <2>3. SumFunctionOnSet(g, img(T)) = g[b[x]] + SumFunctionOnSet(g, img(T) \ {b[x]})
    BY <2>1, <2>2, SumRemove
  <2> QED BY <2>1, <2>3
<1>10. SumFunctionOnSet(g, img(T)) # SumFunctionOnSet(f, T)
  BY <1>4
<1> QED BY <1>5, <1>6, <1>7, <1>8, <1>9, <1>10
=============================================================================
