------------------------------ MODULE SumTheorems ------------------------------
(***************************************************************************)
(* What sums over finite sets do when a row is added, taken away or        *)
(* changed.  The induction is over the size of a set: the library's        *)
(* theorem that strict inclusion of finite sets is well founded needs no   *)
(* operator parameter when what is proved is the membership of a set.      *)
(***************************************************************************)
EXTENDS Sums, Integers, FiniteSetTheorems, TLAPS

\* Induction over the subsets of a finite set, for a collection Good of them.
LEMMA FiniteInduction ==
  ASSUME NEW S, IsFiniteSet(S), NEW Good,
         {} \in Good,
         \A T \in SUBSET S : T # {} /\ (\A x \in T : T \ {x} \in Good) => T \in Good
  PROVE  SUBSET S \subseteq Good
<1>1. SUFFICES ASSUME (SUBSET S) \ Good # {} PROVE FALSE
  OBVIOUS
<1>2. IsWellFoundedOn(StrictSubsetOrdering(S), SUBSET S)
  BY FS_StrictSubsetOrderingWellFounded, FS_FiniteSubsetsOfFinite
<1>3. PICK T \in (SUBSET S) \ Good :
        \A U \in (SUBSET S) \ Good : ~ (<<U, T>> \in StrictSubsetOrdering(S))
  BY <1>1, <1>2, WFMin, (SUBSET S) \ Good \subseteq SUBSET S, Zenon
<1>4. ASSUME NEW x \in T PROVE T \ {x} \in Good
  <2>1. T \ {x} \in SUBSET S /\ T \ {x} \subseteq T /\ T \ {x} # T
    OBVIOUS
  <2>2. <<T \ {x}, T>> \in StrictSubsetOrdering(S)
    BY <2>1 DEF StrictSubsetOrdering
  <2> QED BY <2>1, <2>2, <1>3
<1> QED BY <1>3, <1>4

\* The least of a set of natural numbers, by well-founded induction on them.
LEMMA LeastElement ==
  ASSUME NEW S \in SUBSET Nat, S # {}
  PROVE  Min(S) \in S /\ \A y \in S : Min(S) <= y
<1> DEFINE Less == {ss \in Nat \X Nat : ss[1] < ss[2]}
<1>1. IsWellFoundedOn(Less, Nat)
  BY NatLessThanWellFounded DEF OpToRel, Less
<1>2. PICK x \in S : \A y \in S : ~ (<<y, x>> \in Less)
  <2> HIDE DEF Less
  <2> QED BY <1>1, WFMin
<1>3. ASSUME NEW y \in S PROVE x <= y
  <2>1. x \in Nat /\ y \in Nat
    OBVIOUS
  <2>2. y < x => <<y, x>> \in Less
    BY <2>1
  <2> QED BY <1>2, <2>1, <2>2
<1> QED BY <1>2, <1>3 DEF Min

\* A finite set of natural numbers has a greatest element.
LEMMA GreatestElement ==
  ASSUME NEW S \in SUBSET Nat, S # {}, IsFiniteSet(S)
  PROVE  Max(S) \in S /\ \A y \in S : y <= Max(S)
<1> DEFINE Good == {T \in SUBSET S : T = {} \/ \E m \in T : \A y \in T : y <= m}
<1>1. {} \in Good
  OBVIOUS
<1>2. ASSUME NEW T \in SUBSET S, T # {}, \A x \in T : T \ {x} \in Good
      PROVE  T \in Good
  <2>1. PICK x \in T : TRUE
    BY <1>2
  <2>2. CASE T \ {x} = {}
    BY <2>1, <2>2
  <2>3. CASE T \ {x} # {}
    <3>1. PICK m \in T \ {x} : \A y \in T \ {x} : y <= m
      BY <1>2, <2>1, <2>3
    <3>2. m <= x \/ x <= m
      OBVIOUS
    <3>3. CASE m <= x
      BY <3>1, <3>3
    <3>4. CASE x <= m
      BY <3>1, <3>4
    <3> QED BY <3>2, <3>3, <3>4
  <2> QED BY <2>2, <2>3
<1> HIDE DEF Good
<1>3. SUBSET S \subseteq Good
  BY <1>1, <1>2, FiniteInduction
<1>4. \E m \in S : \A y \in S : y <= m
  BY <1>3 DEF Good
<1> QED BY <1>4 DEF Max

-----------------------------------------------------------------------------
(* The recursion behind a sum has a solution, and only one. *)

\* The element the recursion takes first, and the sums of all subsets of a set.
Pick(T) == CHOOSE x \in T : TRUE

\* g holds the sums of f over all sets in D.
IsSumOn(g, f, D) == g = [T \in D |-> IF T = {} THEN 0 ELSE f[Pick(T)] + g[T \ {Pick(T)}]]

Partial(f, S) == CHOOSE g : IsSumOn(g, f, SUBSET S)

\* The sum is the value of the partial sums at the whole set.
LEMMA SumIsPartial ==
  ASSUME NEW f, NEW S PROVE SumOver(f, S) = Partial(f, S)[S]
BY DEF SumOver, Partial, IsSumOn, Pick, MapThenSumSet, MapThenFoldSet

\* What CHOOSE picks from a set is in it.
LEMMA PickIn == ASSUME NEW T, T # {} PROVE Pick(T) \in T
BY DEF Pick

\* Sums over the subsets of U, for each U in turn; over {} there is nothing to sum.
LEMMA SumsUnique ==
  ASSUME NEW f, NEW S, NEW R, NEW g, NEW h, IsFiniteSet(S), S \subseteq R,
         IsSumOn(g, f, SUBSET S), IsSumOn(h, f, SUBSET R)
  PROVE  g[S] = h[S]
<1> DEFINE Good == {T \in SUBSET S : g[T] = h[T]}
<1>1. {} \in Good
  BY DEF IsSumOn
<1>2. ASSUME NEW T \in SUBSET S, T # {}, \A x \in T : T \ {x} \in Good
      PROVE  T \in Good
  <2>1. Pick(T) \in T BY <1>2, PickIn
  <2>2. T \ {Pick(T)} \in SUBSET S /\ T \ {Pick(T)} \in SUBSET R /\ T \in SUBSET R OBVIOUS
  <2>3. g[T] = f[Pick(T)] + g[T \ {Pick(T)}] BY <1>2, <2>2 DEF IsSumOn
  <2>4. h[T] = f[Pick(T)] + h[T \ {Pick(T)}] BY <1>2, <2>2 DEF IsSumOn
  <2> QED BY <2>1, <2>3, <2>4, <1>2
<1> HIDE DEF Good
<1>3. SUBSET S \subseteq Good BY <1>1, <1>2, FiniteInduction
<1> QED BY <1>3 DEF Good

\* Partial sums of a set are partial sums of each of its subsets.
LEMMA SumsRestrict ==
  ASSUME NEW f, NEW S, NEW R, NEW g, S \subseteq R, IsSumOn(g, f, SUBSET R)
  PROVE  \E h : IsSumOn(h, f, SUBSET S)
<1> DEFINE h == [T \in SUBSET S |-> g[T]]
<1>1. ASSUME NEW T \in SUBSET S
      PROVE  h[T] = IF T = {} THEN 0 ELSE f[Pick(T)] + h[T \ {Pick(T)}]
  <2>1. T \in SUBSET R /\ T \ {Pick(T)} \in SUBSET S OBVIOUS
  <2>2. g[T] = IF T = {} THEN 0 ELSE f[Pick(T)] + g[T \ {Pick(T)}] BY <2>1 DEF IsSumOn
  <2> QED BY <2>1, <2>2
<1>2. h = [T \in SUBSET S |-> h[T]] OBVIOUS
<1> HIDE DEF h
<1>3. IsSumOn(h, f, SUBSET S) BY <1>1, <1>2 DEF IsSumOn
<1> QED BY <1>3

\* The recursion does not depend on the set it was started for.
LEMMA PartialsAgree ==
  ASSUME NEW f, NEW S, NEW R, IsFiniteSet(S), S \subseteq R,
         IsSumOn(Partial(f, S), f, SUBSET S), IsSumOn(Partial(f, R), f, SUBSET R)
  PROVE  Partial(f, S)[S] = Partial(f, R)[S]
<1>1. PICK g, h : g = Partial(f, S) /\ h = Partial(f, R)
  OBVIOUS
<1>2. IsSumOn(g, f, SUBSET S) /\ IsSumOn(h, f, SUBSET R)
  BY <1>1
<1>3. g[S] = h[S]
  BY <1>2, SumsUnique
<1> QED BY <1>1, <1>3

\* The recursive function exists: the CHOOSE in its definition has a witness.
LEMMA PartialSums ==
  ASSUME NEW f, NEW S, IsFiniteSet(S)
  PROVE  IsSumOn(Partial(f, S), f, SUBSET S)
<1> DEFINE Good == {T \in SUBSET S : \E g : IsSumOn(g, f, SUBSET T)}
<1>1. {} \in Good
  <2> DEFINE g == [T \in SUBSET {} |-> 0]
  <2>1. IsSumOn(g, f, SUBSET {}) BY SUBSET {} = {{}} DEF IsSumOn
  <2> QED BY <2>1
<1>2. ASSUME NEW T \in SUBSET S, T # {}, \A x \in T : T \ {x} \in Good
      PROVE  T \in Good
  <2> DEFINE Part(U) == Partial(f, U)[U]
             rest == T \ {Pick(T)}
             g == [U \in SUBSET T |-> IF U = T THEN f[Pick(T)] + Part(rest) ELSE Part(U)]
  <2>1. ASSUME NEW U \in SUBSET T, U # T PROVE IsSumOn(Partial(f, U), f, SUBSET U)
    <3>1. PICK x \in T : x \notin U BY <2>1
    <3>2. U \subseteq T \ {x} BY <3>1
    <3>3. PICK h : IsSumOn(h, f, SUBSET (T \ {x})) BY <1>2
    <3>4. \E k : IsSumOn(k, f, SUBSET U) BY <3>2, <3>3, SumsRestrict
    <3> QED BY <3>4 DEF Partial
  <2>2. ASSUME NEW U \in SUBSET T, U # T, U # {}
        PROVE  Part(U) = f[Pick(U)] + Part(U \ {Pick(U)})
    <3> DEFINE V == U \ {Pick(U)}
    <3>1. Pick(U) \in U BY <2>2, PickIn
    <3>2. V \in SUBSET T /\ V # T /\ V \subseteq U /\ U \in SUBSET U /\ V \in SUBSET U BY <3>1
    <3>3. IsFiniteSet(V) BY FS_Subset, V \in SUBSET S
    <3>4. IsSumOn(Partial(f, U), f, SUBSET U) /\ IsSumOn(Partial(f, V), f, SUBSET V)
      BY <2>1, <2>2, <3>2
    <3>5. Partial(f, U)[U] = f[Pick(U)] + Partial(f, U)[V] BY <2>2, <3>2, <3>4 DEF IsSumOn
    <3>6. Partial(f, V)[V] = Partial(f, U)[V]
      <4> HIDE DEF V
      <4> QED BY <3>2, <3>3, <3>4, PartialsAgree
    <3> QED BY <3>5, <3>6
  <2>3. Part({}) = 0
    <3>1. IsSumOn(Partial(f, {}), f, SUBSET {}) BY <2>1, <1>2
    <3> QED BY <3>1 DEF IsSumOn
  <2>4. ASSUME NEW U \in SUBSET T
        PROVE  g[U] = IF U = {} THEN 0 ELSE f[Pick(U)] + g[U \ {Pick(U)}]
    <3>1. CASE U = {}
      BY <3>1, <2>3, <1>2
    <3>2. CASE U = T
      <4>1. Pick(T) \in T BY <1>2, PickIn
      <4>2. rest \in SUBSET T /\ rest # T BY <4>1
      <4>3. g[rest] = Part(rest) BY <4>2
      <4> QED BY <3>2, <4>3, <1>2
    <3>3. CASE U # T /\ U # {}
      <4>1. Pick(U) \in U BY <3>3, PickIn
      <4>2. U \ {Pick(U)} \in SUBSET T /\ U \ {Pick(U)} # T BY <4>1
      <4>3. g[U \ {Pick(U)}] = Part(U \ {Pick(U)}) BY <4>2
      <4>4. g[U] = Part(U) BY <3>3
      <4> QED BY <3>3, <4>3, <4>4, <2>2
    <3> QED BY <3>1, <3>2, <3>3
  <2>5. g = [U \in SUBSET T |-> g[U]] OBVIOUS
  <2> HIDE DEF g
  <2>6. IsSumOn(g, f, SUBSET T) BY <2>4, <2>5 DEF IsSumOn
  <2> QED BY <2>6
<1> HIDE DEF Good
<1>3. SUBSET S \subseteq Good BY <1>1, <1>2, FiniteInduction
<1>4. \E g : IsSumOn(g, f, SUBSET S) BY <1>3 DEF Good
<1> QED BY <1>4 DEF Partial

-----------------------------------------------------------------------------
(* Sums *)

\* Nothing adds up to zero.
LEMMA SumEmpty == ASSUME NEW f PROVE SumOver(f, {}) = 0
<1>1. IsFiniteSet({}) BY FS_EmptySet
<1>2. IsSumOn(Partial(f, {}), f, SUBSET {}) BY <1>1, PartialSums
<1>3. Partial(f, {})[{}] = 0 BY <1>2 DEF IsSumOn
<1> QED BY <1>3, SumIsPartial

\* One step of the recursion.
LEMMA SumPick ==
  ASSUME NEW f, NEW S, IsFiniteSet(S), S # {}
  PROVE  SumOver(f, S) = f[Pick(S)] + SumOver(f, S \ {Pick(S)})
<1> DEFINE T == S \ {Pick(S)}
<1>1. IsFiniteSet(T) BY FS_Subset, T \in SUBSET S
<1>2. IsSumOn(Partial(f, S), f, SUBSET S) /\ IsSumOn(Partial(f, T), f, SUBSET T) BY <1>1, PartialSums
<1>3. Partial(f, S)[S] = f[Pick(S)] + Partial(f, S)[T] BY <1>2 DEF IsSumOn
<1>4. T \subseteq S OBVIOUS
<1>5. Partial(f, T)[T] = Partial(f, S)[T]
  <2> HIDE DEF T
  <2> QED BY <1>1, <1>2, <1>4, PartialsAgree
<1> QED BY <1>3, <1>5, SumIsPartial

\* Rows have quantities, and quantities are natural numbers.
LEMMA SumType ==
  ASSUME NEW f, NEW S, IsFiniteSet(S), \A x \in S : f[x] \in Nat
  PROVE  SumOver(f, S) \in Nat
<1> DEFINE Good == {T \in SUBSET S : SumOver(f, T) \in Nat}
<1>1. {} \in Good BY SumEmpty
<1>2. ASSUME NEW T \in SUBSET S, T # {}, \A x \in T : T \ {x} \in Good
      PROVE  T \in Good
  <2>1. Pick(T) \in T /\ IsFiniteSet(T) BY <1>2, PickIn, FS_Subset
  <2>2. SumOver(f, T) = f[Pick(T)] + SumOver(f, T \ {Pick(T)}) BY <2>1, <1>2, SumPick
  <2> QED BY <2>1, <2>2, <1>2
<1> HIDE DEF Good
<1>3. SUBSET S \subseteq Good BY <1>1, <1>2, FiniteInduction
<1> QED BY <1>3 DEF Good

\* Whichever row is taken away, the sum is less by what it has.
LEMMA SumRemove ==
  ASSUME NEW f, NEW S, IsFiniteSet(S), \A x \in S : f[x] \in Nat, NEW x \in S
  PROVE  SumOver(f, S) = f[x] + SumOver(f, S \ {x})
<1> DEFINE Good == {T \in SUBSET S : \A y \in T : SumOver(f, T) = f[y] + SumOver(f, T \ {y})}
<1>1. {} \in Good OBVIOUS
<1>2. ASSUME NEW T \in SUBSET S, T # {}, \A y \in T : T \ {y} \in Good
      PROVE  T \in Good
  <2> DEFINE p == Pick(T)
  <2>1. p \in T /\ IsFiniteSet(T) BY <1>2, PickIn, FS_Subset
  <2>2. SumOver(f, T) = f[p] + SumOver(f, T \ {p}) BY <2>1, <1>2, SumPick
  <2> HIDE DEF p
  <2>3. ASSUME NEW y \in T, y # p PROVE SumOver(f, T) = f[y] + SumOver(f, T \ {y})
    <3> DEFINE R == T \ {p, y}
    <3>1. (T \ {p}) \ {y} = R /\ (T \ {y}) \ {p} = R OBVIOUS
    <3>2. SumOver(f, T \ {p}) = f[y] + SumOver(f, R) BY <1>2, <2>1, <2>3, <3>1
    <3>3. SumOver(f, T \ {y}) = f[p] + SumOver(f, R) BY <1>2, <2>1, <2>3, <3>1
    <3>4. IsFiniteSet(R) BY FS_Subset, R \in SUBSET S
    <3>5. SumOver(f, R) \in Nat BY <3>4, SumType
    <3> HIDE DEF R
    <3> QED BY <2>1, <2>2, <3>2, <3>3, <3>5
  <2> QED BY <2>2, <2>3
<1> HIDE DEF Good
<1>3. SUBSET S \subseteq Good BY <1>1, <1>2, FiniteInduction
<1> QED BY <1>3 DEF Good

\* Only the rows that are summed matter.
LEMMA SumEqual ==
  ASSUME NEW f, NEW g, NEW S, IsFiniteSet(S), \A x \in S : f[x] = g[x]
  PROVE  SumOver(f, S) = SumOver(g, S)
<1> DEFINE Good == {T \in SUBSET S : SumOver(f, T) = SumOver(g, T)}
<1>1. {} \in Good BY SumEmpty
<1>2. ASSUME NEW T \in SUBSET S, T # {}, \A x \in T : T \ {x} \in Good
      PROVE  T \in Good
  <2>1. Pick(T) \in T /\ IsFiniteSet(T) BY <1>2, PickIn, FS_Subset
  <2>2. /\ SumOver(f, T) = f[Pick(T)] + SumOver(f, T \ {Pick(T)})
        /\ SumOver(g, T) = g[Pick(T)] + SumOver(g, T \ {Pick(T)}) BY <2>1, <1>2, SumPick
  <2> QED BY <2>1, <2>2, <1>2
<1> HIDE DEF Good
<1>3. SUBSET S \subseteq Good BY <1>1, <1>2, FiniteInduction
<1> QED BY <1>3 DEF Good

\* Fewer rows, or less in each of them, do not give a greater sum.
LEMMA SumMonotone ==
  ASSUME NEW f, NEW g, NEW S, NEW R, IsFiniteSet(R), S \subseteq R,
         \A x \in R : g[x] \in Nat, \A x \in S : f[x] \in Nat /\ f[x] <= g[x]
  PROVE  SumOver(f, S) <= SumOver(g, R)
<1> DEFINE Good == {T \in SUBSET R : SumOver(f, T \cap S) <= SumOver(g, T)}
<1>1. {} \in Good
  <2>1. {} \cap S = {} OBVIOUS
  <2> QED BY <2>1, SumEmpty
<1>2. ASSUME NEW T \in SUBSET R, T # {}, \A x \in T : T \ {x} \in Good
      PROVE  T \in Good
  <2> DEFINE p == Pick(T)  U == T \ {p}
  <2>1. p \in T /\ IsFiniteSet(T) /\ IsFiniteSet(U) /\ IsFiniteSet(T \cap S) /\ IsFiniteSet(U \cap S)
    BY <1>2, PickIn, FS_Subset, U \in SUBSET R, T \cap S \in SUBSET R, U \cap S \in SUBSET R
  <2>2. SumOver(g, T) = g[p] + SumOver(g, U) BY <2>1, <1>2, SumPick
  <2> HIDE DEF p
  <2>3. SumOver(f, U \cap S) \in Nat /\ SumOver(g, U) \in Nat BY <2>1, SumType
  <2>4. SumOver(f, U \cap S) <= SumOver(g, U) BY <1>2, <2>1
  <2>5. CASE p \in S
    <3>1. p \in T \cap S /\ (T \cap S) \ {p} = U \cap S BY <2>1, <2>5
    <3>2. SumOver(f, T \cap S) = f[p] + SumOver(f, U \cap S) BY <2>1, <3>1, SumRemove
    <3> HIDE DEF U
    <3> QED BY <2>2, <2>3, <2>4, <2>5, <2>1, <3>2
  <2>6. CASE p \notin S
    <3>1. T \cap S = U \cap S BY <2>6
    <3> HIDE DEF U
    <3> QED BY <2>2, <2>3, <2>4, <2>1, <3>1
  <2> QED BY <2>5, <2>6
<1> HIDE DEF Good
<1>3. SUBSET R \subseteq Good BY <1>1, <1>2, FiniteInduction
<1>4. R \cap S = S OBVIOUS
<1> QED BY <1>3, <1>4 DEF Good

\* One row is added, or changed.
LEMMA SumAdd ==
  ASSUME NEW f, NEW S, IsFiniteSet(S), NEW x, x \notin S, \A y \in S \cup {x} : f[y] \in Nat
  PROVE  SumOver(f, S \cup {x}) = SumOver(f, S) + f[x]
<1>1. IsFiniteSet(S \cup {x}) /\ (S \cup {x}) \ {x} = S BY FS_AddElement
<1>2. SumOver(f, S \cup {x}) = f[x] + SumOver(f, S) BY <1>1, SumRemove
<1>3. SumOver(f, S) \in Nat BY SumType
<1> QED BY <1>2, <1>3

\* The sum changes by what one row changes.
LEMMA SumChange ==
  ASSUME NEW f, NEW g, NEW S, IsFiniteSet(S), NEW x \in S,
         \A y \in S : f[y] \in Nat /\ g[y] \in Nat, \A y \in S \ {x} : f[y] = g[y]
  PROVE  SumOver(g, S) = (SumOver(f, S) - f[x]) + g[x]
<1>1. IsFiniteSet(S \ {x}) BY FS_RemoveElement
<1>2. SumOver(f, S) = f[x] + SumOver(f, S \ {x}) /\ SumOver(g, S) = g[x] + SumOver(g, S \ {x})
  BY SumRemove
<1>3. SumOver(f, S \ {x}) = SumOver(g, S \ {x}) BY <1>1, SumEqual
<1>4. SumOver(f, S \ {x}) \in Nat BY <1>1, SumType
<1> QED BY <1>2, <1>3, <1>4


\* A sum of zeros is zero.
LEMMA SumZero ==
  ASSUME NEW f, NEW S, IsFiniteSet(S), \A x \in S : f[x] = 0
  PROVE  SumOver(f, S) = 0
<1> DEFINE Good == {T \in SUBSET S : SumOver(f, T) = 0}
<1>1. {} \in Good
  BY SumEmpty
<1>2. ASSUME NEW T \in SUBSET S, T # {}, \A x \in T : T \ {x} \in Good
      PROVE  T \in Good
  <2>1. Pick(T) \in T /\ IsFiniteSet(T)
    BY <1>2, PickIn, FS_Subset
  <2>2. SumOver(f, T) = f[Pick(T)] + SumOver(f, T \ {Pick(T)})
    BY <1>2, <2>1, SumPick
  <2> QED BY <1>2, <2>1, <2>2
<1> HIDE DEF Good
<1>3. SUBSET S \subseteq Good
  BY <1>1, <1>2, FiniteInduction
<1> QED BY <1>3 DEF Good

\* Rows that count for nothing may be left out.
LEMMA SumRestrict ==
  ASSUME NEW f, NEW R, NEW T, IsFiniteSet(R), \A x \in R : f[x] \in Nat,
         \A x \in R \ T : f[x] = 0
  PROVE  SumOver(f, R) = SumOver(f, R \cap T)
<1> DEFINE Good == {U \in SUBSET R : SumOver(f, U) = SumOver(f, U \cap T)}
<1>1. {} \in Good
  <2>1. {} \cap T = {}
    OBVIOUS
  <2> QED BY <2>1
<1>2. ASSUME NEW U \in SUBSET R, U # {}, \A x \in U : U \ {x} \in Good
      PROVE  U \in Good
  <2> DEFINE p == Pick(U)
             V == U \ {p}
  <2>1. p \in U /\ IsFiniteSet(U) /\ IsFiniteSet(U \cap T)
    BY <1>2, PickIn, FS_Subset, U \cap T \in SUBSET R
  <2>2. SumOver(f, U) = f[p] + SumOver(f, V)
    BY <2>1, SumRemove
  <2>3. SumOver(f, V) = SumOver(f, V \cap T)
    BY <1>2, <2>1
  <2> HIDE DEF p
  <2>4. CASE p \in T
    <3>1. (U \cap T) \ {p} = V \cap T
      BY <2>4
    <3>2. SumOver(f, U \cap T) = f[p] + SumOver(f, V \cap T)
      BY <2>1, <2>4, <3>1, SumRemove
    <3> QED BY <2>2, <2>3, <3>2
  <2>5. CASE p \notin T
    <3>1. U \cap T = V \cap T
      BY <2>5
    <3>2. f[p] = 0
      BY <2>1, <2>5
    <3>3. IsFiniteSet(V) /\ \A x \in V : f[x] \in Nat
      BY <2>1, FS_Subset, V \in SUBSET U
    <3>4. SumOver(f, V) \in Nat
      BY <3>3, SumType
    <3>5. SumOver(f, U) = SumOver(f, V)
      BY <2>2, <3>2, <3>4
    <3> QED BY <2>3, <3>1, <3>5
  <2> QED BY <2>4, <2>5
<1> HIDE DEF Good
<1>3. SUBSET R \subseteq Good
  BY <1>1, <1>2, FiniteInduction
<1> QED BY <1>3 DEF Good

\* A sum is no more than another if each row that counts is in the other and
\* counts for no more there.
LEMMA SumDominated ==
  ASSUME NEW f, NEW g, NEW R, NEW S, IsFiniteSet(R), IsFiniteSet(S),
         \A x \in R : f[x] \in Nat, \A x \in S : g[x] \in Nat,
         \A x \in R : f[x] = 0 \/ (x \in S /\ f[x] <= g[x])
  PROVE  SumOver(f, R) <= SumOver(g, S)
<1>1. SumOver(f, R) = SumOver(f, R \cap S)
  BY SumRestrict
<1>2. \A x \in R \cap S : f[x] \in Nat /\ f[x] <= g[x]
  OBVIOUS
<1>3. SumOver(f, R \cap S) <= SumOver(g, S)
  BY <1>2, SumMonotone, R \cap S \subseteq S
<1> QED BY <1>1, <1>3

-----------------------------------------------------------------------------
(* Sums of sums and of products *)

\* A sum multiplied by a number.
LEMMA SumScale ==
  ASSUME NEW f, NEW g, NEW S, IsFiniteSet(S), NEW k \in Nat, \A x \in S : f[x] \in Nat /\ g[x] = k * f[x]
  PROVE  SumOver(g, S) = k * SumOver(f, S)
<1> DEFINE Good == {T \in SUBSET S : SumOver(g, T) = k * SumOver(f, T)}
<1>1. {} \in Good
  BY SumEmpty
<1>2. ASSUME NEW T \in SUBSET S, T # {}, \A x \in T : T \ {x} \in Good
      PROVE  T \in Good
  <2> DEFINE p == Pick(T)
  <2>1. p \in T /\ IsFiniteSet(T) /\ IsFiniteSet(T \ {p})
    BY <1>2, PickIn, FS_Subset, FS_RemoveElement
  <2>2. SumOver(g, T) = g[p] + SumOver(g, T \ {p}) /\ SumOver(f, T) = f[p] + SumOver(f, T \ {p})
    BY <1>2, <2>1, SumPick
  <2>3. SumOver(g, T \ {p}) = k * SumOver(f, T \ {p})
    BY <1>2, <2>1
  <2>4. SumOver(f, T \ {p}) \in Nat
    BY <2>1, SumType
  <2>5. f[p] \in Nat /\ g[p] = k * f[p]
    BY <2>1
  <2> HIDE DEF p
  <2>6. k * (f[p] + SumOver(f, T \ {p})) = k * f[p] + k * SumOver(f, T \ {p})
    BY <2>4, <2>5
  <2> QED BY <2>2, <2>3, <2>5, <2>6
<1> HIDE DEF Good
<1>3. SUBSET S \subseteq Good
  BY <1>1, <1>2, FiniteInduction
<1> QED BY <1>3 DEF Good

\* Rows of zero outside a set add nothing.
LEMMA SumSupport ==
  ASSUME NEW f, NEW R, NEW T, IsFiniteSet(R), T \subseteq R, \A x \in R : f[x] \in Nat,
         \A x \in R \ T : f[x] = 0
  PROVE  SumOver(f, R) = SumOver(f, T)
<1>1. PICK both : both = R \cap T
  OBVIOUS
<1>2. SumOver(f, R) = SumOver(f, both)
  BY <1>1, SumRestrict
<1>3. both = T
  BY <1>1
<1> QED BY <1>2, <1>3

\* A sum of ones counts.
LEMMA SumOnes ==
  ASSUME NEW f, NEW S, IsFiniteSet(S), \A x \in S : f[x] = 1
  PROVE  SumOver(f, S) = Cardinality(S)
<1> DEFINE Good == {T \in SUBSET S : SumOver(f, T) = Cardinality(T)}
<1>1. {} \in Good
  BY SumEmpty, FS_EmptySet
<1>2. ASSUME NEW T \in SUBSET S, T # {}, \A x \in T : T \ {x} \in Good
      PROVE  T \in Good
  <2>1. PICK p : p \in T
    BY <1>2
  <2>2. IsFiniteSet(T) /\ \A x \in T : f[x] \in Nat
    <3>1. IsFiniteSet(T)
      BY FS_Subset
    <3> QED BY <3>1
  <2>3. SumOver(f, T) = f[p] + SumOver(f, T \ {p})
    BY <2>1, <2>2, SumRemove
  <2>4. SumOver(f, T \ {p}) = Cardinality(T \ {p})
    BY <1>2, <2>1
  <2>5. Cardinality(T) \in Nat /\ Cardinality(T \ {p}) = Cardinality(T) - 1
    BY <2>1, <2>2, FS_RemoveElement, FS_CardinalityType
  <2>6. f[p] = 1
    BY <2>1
  <2> QED BY <2>3, <2>4, <2>5, <2>6
<1> HIDE DEF Good
<1>3. SUBSET S \subseteq Good
  BY <1>1, <1>2, FiniteInduction
<1> QED BY <1>3 DEF Good

\* The sum of two sums.
LEMMA SumPlus ==
  ASSUME NEW f, NEW g, NEW h, NEW S, IsFiniteSet(S),
         \A x \in S : f[x] \in Nat /\ g[x] \in Nat /\ h[x] = f[x] + g[x]
  PROVE  SumOver(h, S) = SumOver(f, S) + SumOver(g, S)
<1> DEFINE Good == {T \in SUBSET S : SumOver(h, T) = SumOver(f, T) + SumOver(g, T)}
<1>1. {} \in Good
  BY SumEmpty
<1>2. ASSUME NEW T \in SUBSET S, T # {}, \A x \in T : T \ {x} \in Good
      PROVE  T \in Good
  <2> DEFINE p == Pick(T)
  <2>1. p \in T /\ IsFiniteSet(T) /\ IsFiniteSet(T \ {p})
    BY <1>2, PickIn, FS_Subset, FS_RemoveElement
  <2>2. /\ SumOver(h, T) = h[p] + SumOver(h, T \ {p}) /\ SumOver(f, T) = f[p] + SumOver(f, T \ {p})
        /\ SumOver(g, T) = g[p] + SumOver(g, T \ {p})
    BY <1>2, <2>1, SumPick
  <2>3. SumOver(h, T \ {p}) = SumOver(f, T \ {p}) + SumOver(g, T \ {p})
    BY <1>2, <2>1
  <2>4. SumOver(f, T \ {p}) \in Nat /\ SumOver(g, T \ {p}) \in Nat
    BY <2>1, SumType
  <2>5. f[p] \in Nat /\ g[p] \in Nat /\ h[p] = f[p] + g[p]
    BY <2>1
  <2> HIDE DEF p
  <2> QED BY <2>2, <2>3, <2>4, <2>5
<1> HIDE DEF Good
<1>3. SUBSET S \subseteq Good
  BY <1>1, <1>2, FiniteInduction
<1> QED BY <1>3 DEF Good

-----------------------------------------------------------------------------
(* Rows in order *)

\* Induction over the natural numbers, for a set of them.
LEMMA NumberInduction ==
  ASSUME NEW S, 0 \in S, \A m \in Nat : m \in S => m + 1 \in S PROVE Nat \subseteq S
<1>1. SUFFICES ASSUME Nat \ S # {} PROVE FALSE
  OBVIOUS
<1>2. PICK m \in Nat \ S : \A y \in Nat \ S : m <= y
  BY <1>1, LeastElement
<1>3. m # 0 /\ m - 1 \in Nat /\ ~ (m <= m - 1)
  BY <1>2
<1>4. m - 1 \in S
  BY <1>2, <1>3
<1>5. (m - 1) + 1 \in S
  BY <1>3, <1>4
<1> QED BY <1>2, <1>5

\* A sequence of numbers given by its first value and how each follows from the one before.
LEMMA Recursion ==
  ASSUME NEW base \in Nat, NEW n \in Nat, NEW step \in [(1 .. n) \X Nat -> Nat]
  PROVE  \E f \in [0 .. n -> Nat] : f[0] = base /\ \A i \in 1 .. n : f[i] = step[<<i, f[i - 1]>>]
<1> DEFINE Upto(m) == {f \in [0 .. m -> Nat] : f[0] = base /\ \A i \in 1 .. m : f[i] = step[<<i, f[i - 1]>>]}
           Good == {m \in Nat : m <= n => Upto(m) # {}}
<1>1. 0 \in Good
  <2> DEFINE f == [i \in 0 .. 0 |-> base]
  <2>1. f \in Upto(0)
    OBVIOUS
  <2> QED BY <2>1
<1>2. ASSUME NEW m \in Nat, m \in Good PROVE m + 1 \in Good
  <2> SUFFICES ASSUME m + 1 <= n PROVE Upto(m + 1) # {}
    OBVIOUS
  <2>1. PICK f \in [0 .. m -> Nat] : f[0] = base /\ \A i \in 1 .. m : f[i] = step[<<i, f[i - 1]>>]
    BY <1>2
  <2>2. PICK v \in Nat : v = step[<<m + 1, f[m]>>]
    <3>1. m + 1 \in 1 .. n /\ f[m] \in Nat
      BY <2>1
    <3>2. <<m + 1, f[m]>> \in (1 .. n) \X Nat
      BY <3>1
    <3>3. step[<<m + 1, f[m]>>] \in Nat
      BY <3>2
    <3> QED BY <3>3
  <2> DEFINE g == [i \in 0 .. m + 1 |-> IF i = m + 1 THEN v ELSE f[i]]
  <2>3. g \in [0 .. m + 1 -> Nat] /\ g[0] = base
    BY <2>1
  <2>4. ASSUME NEW i \in 1 .. m + 1 PROVE g[i] = step[<<i, g[i - 1]>>]
    <3>1. g[i - 1] = f[i - 1]
      OBVIOUS
    <3>2. CASE i = m + 1
      <4>1. g[i] = v /\ i - 1 = m
        BY <3>2
      <4>2. g[i - 1] = f[m]
        BY <3>1, <4>1
      <4> QED BY <2>2, <3>2, <4>1, <4>2
    <3>3. CASE i # m + 1
      <4>1. i \in 1 .. m /\ g[i] = f[i]
        BY <3>3
      <4> QED BY <2>1, <3>1, <4>1
    <3> QED BY <3>2, <3>3
  <2>5. g \in Upto(m + 1)
    BY <2>3, <2>4
  <2> QED BY <2>5
<1> HIDE DEF Good
<1>3. n \in Good
  BY <1>1, <1>2, NumberInduction
<1> QED BY <1>3 DEF Good

\* What is taken from a total step by step is the difference of its ends.
LEMMA Telescope ==
  ASSUME NEW n \in Nat, NEW rest \in [0 .. n -> Int], NEW part,
         \A i \in 1 .. n : part[i] \in Nat /\ part[i] = rest[i - 1] - rest[i]
  PROVE  SumOver(part, 1 .. n) = rest[0] - rest[n]
<1> DEFINE Good == {m \in Nat : m <= n => SumOver(part, 1 .. m) = rest[0] - rest[m]}
<1>1. 0 \in Good
  <2>1. 1 .. 0 = {}
    OBVIOUS
  <2> QED BY <2>1, SumEmpty
<1>2. ASSUME NEW m \in Nat, m \in Good PROVE m + 1 \in Good
  <2> SUFFICES ASSUME m + 1 <= n PROVE SumOver(part, 1 .. m + 1) = rest[0] - rest[m + 1]
    OBVIOUS
  <2>1. 1 .. m + 1 = (1 .. m) \cup {m + 1} /\ m + 1 \notin 1 .. m
    OBVIOUS
  <2>2. IsFiniteSet(1 .. m)
    BY FS_Interval
  <2>3. \A i \in (1 .. m) \cup {m + 1} : part[i] \in Nat
    OBVIOUS
  <2>4. SumOver(part, 1 .. m + 1) = SumOver(part, 1 .. m) + part[m + 1]
    <3>1. SumOver(part, (1 .. m) \cup {m + 1}) = SumOver(part, 1 .. m) + part[m + 1]
      BY <2>1, <2>2, <2>3, SumAdd
    <3> QED BY <2>1, <3>1
  <2>5. part[m + 1] = rest[m] - rest[m + 1] /\ rest[m] \in Int /\ rest[m + 1] \in Int /\ rest[0] \in Int
    <3>1. m + 1 \in 1 .. n /\ (m + 1) - 1 = m
      OBVIOUS
    <3> QED BY <3>1
  <2>6. SumOver(part, 1 .. m) = rest[0] - rest[m]
    BY <1>2
  <2> QED BY <2>4, <2>5, <2>6
<1> HIDE DEF Good
<1>3. n \in Good
  BY <1>1, <1>2, NumberInduction
<1> QED BY <1>3 DEF Good
===============================================================================
