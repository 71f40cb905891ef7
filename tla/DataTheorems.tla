---------------------------- MODULE DataTheorems ----------------------------
(***************************************************************************)
(* Induction over data, and sums over finite sets.                         *)
(*                                                                         *)
(* Induction is done by the smallest exception: a set of naturals has a    *)
(* smallest member, and a family of subsets of a finite set one that       *)
(* contains no other.                                                      *)
(*                                                                         *)
(* A sum is what SumFunctionOnSet of the community modules computes: a     *)
(* recursive function that takes away one chosen element after another.    *)
(* The lemmas say that the function exists, that the sum does not depend   *)
(* on the choice, and how it changes with the set.  The accounts of this   *)
(* system are sums over orders, lots and fills.                            *)
(*                                                                         *)
(* Ranks, quotients and products are what the algorithms add: how many of  *)
(* a set are below a member, what an exact or a rounded division leaves,   *)
(* and products of adjustment factors.                                     *)
(***************************************************************************)
EXTENDS Integers, Functions, FiniteSetsExt, FiniteSetTheorems, SequenceTheorems,
        WellFoundedInduction, TLAPS

\* Induction: a set with 0 that contains with n also n + 1 has every natural.
LEMMA Induction ==
  ASSUME NEW S, 0 \in S, \A n \in Nat : n \in S => n + 1 \in S
  PROVE  \A n \in Nat : n \in S
<1> DEFINE Bad == Nat \ S
<1> SUFFICES ASSUME Bad # {} PROVE FALSE
  OBVIOUS
<1>1. PICK n \in Bad : \A m \in Bad : <<m, n>> \notin OpToRel(<, Nat)
  <2>1. Bad \subseteq Nat
    OBVIOUS
  <2> HIDE DEF Bad
  <2> QED BY <2>1, NatLessThanWellFounded, WFMin
<1>2. n \in Nat /\ n # 0 /\ n - 1 \in Nat /\ n - 1 < n /\ (n - 1) + 1 = n
  OBVIOUS
<1>3. n - 1 \in S
  BY <1>1, <1>2 DEF OpToRel
<1> QED BY <1>2, <1>3

\* A family of subsets of a finite set has a member that contains no other.
LEMMA SmallestSubset ==
  ASSUME NEW S, IsFiniteSet(S), NEW F \in SUBSET SUBSET S, F # {}
  PROVE  \E T \in F : \A U \in F : U \subseteq T => U = T
<1>1. IsWellFoundedOn(StrictSubsetOrdering(S), SUBSET S)
  BY FS_StrictSubsetOrderingWellFounded, FS_FiniteSubsetsOfFinite
<1>2. PICK T \in F : \A U \in F : <<U, T>> \notin StrictSubsetOrdering(S)
  BY <1>1, WFMin
<1>3. \A U \in F : U \subseteq T => U = T
  BY <1>2 DEF StrictSubsetOrdering
<1> QED BY <1>3

\* The element that is taken away first.
Chosen(s) == CHOOSE x \in s : TRUE

\* g[s] is the sum of f over s, for every subset s of S.
IsSum(g, f, S) ==
  g = [s \in SUBSET S |-> IF s = {} THEN 0 ELSE f[Chosen(s)] + g[s \ {Chosen(s)}]]

\* What the recursive definition of the library stands for.
LEMMA SumDefinition ==
  ASSUME NEW f, NEW S
  PROVE SumFunctionOnSet(f, S) = (CHOOSE g : IsSum(g, f, S))[S]
BY DEF SumFunctionOnSet, FoldFunctionOnSet, MapThenFoldSet, IsSum, Chosen

\* The chosen element is an element.
LEMMA ChosenIn == \A s : s # {} => Chosen(s) \in s
BY DEF Chosen

\* Two such functions agree where both are defined.
LEMMA SumsAgree ==
  ASSUME NEW f, NEW U, IsFiniteSet(U), NEW g, NEW h, IsSum(g, f, U), NEW V, IsSum(h, f, V)
  PROVE  \A W \in SUBSET (U \cap V) : g[W] = h[W]
<1> DEFINE Bad == {W \in SUBSET (U \cap V) : g[W] # h[W]}
<1> SUFFICES ASSUME Bad # {} PROVE FALSE
  OBVIOUS
<1>1. PICK W \in Bad : \A T \in Bad : T \subseteq W => T = W
  <2>1. Bad \in SUBSET SUBSET U
    OBVIOUS
  <2> HIDE DEF Bad
  <2> QED BY <2>1, SmallestSubset
<1>2. W # {}
  BY DEF IsSum
<1>3. /\ Chosen(W) \in W
      /\ W \ {Chosen(W)} \in SUBSET (U \cap V)
      /\ W \ {Chosen(W)} # W
  BY <1>2, ChosenIn
<1>4. g[W \ {Chosen(W)}] = h[W \ {Chosen(W)}]
  BY <1>1, <1>3
<1> QED BY <1>2, <1>3, <1>4 DEF IsSum

\* There is such a function for every finite set.
LEMMA SumExists ==
  ASSUME NEW f, NEW S, IsFiniteSet(S)
  PROVE  \E g : IsSum(g, f, S)
<1> DEFINE Bad == {U \in SUBSET S : ~ \E g : IsSum(g, f, U)}
<1> SUFFICES ASSUME Bad # {} PROVE FALSE
  OBVIOUS
<1>1. PICK U \in Bad : \A T \in Bad : T \subseteq U => T = U
  <2>1. Bad \in SUBSET SUBSET S
    OBVIOUS
  <2> HIDE DEF Bad
  <2> QED BY <2>1, SmallestSubset
<1> DEFINE G(T) == CHOOSE g : IsSum(g, f, T)
           Rest(s) == s \ {Chosen(s)}
           g == [s \in SUBSET U |-> IF s = {} THEN 0 ELSE f[Chosen(s)] + G(Rest(s))[Rest(s)]]
<1>2. \A T \in SUBSET U : T # U => IsSum(G(T), f, T)
  BY <1>1
<1>3. ASSUME NEW s \in SUBSET U, s # {}
      PROVE  Rest(s) \in SUBSET U /\ Rest(s) # U /\ Rest(s) # s
  BY <1>3, ChosenIn
<1>4. ASSUME NEW s \in SUBSET U, s # U
      PROVE  g[s] = G(s)[s]
  <2>1. IsSum(G(s), f, s)
    BY <1>2, <1>4
  <2>2. CASE s = {}
    BY <2>1, <2>2 DEF IsSum
  <2>3. CASE s # {}
    <3>1. G(s)[s] = f[Chosen(s)] + G(s)[Rest(s)]
      BY <2>1, <2>3 DEF IsSum
    <3>2. IsSum(G(Rest(s)), f, Rest(s))
      BY <1>2, <1>3, <2>3
    <3>3. IsFiniteSet(s)
      BY FS_Subset
    <3>4. G(s)[Rest(s)] = G(Rest(s))[Rest(s)]
      <4> HIDE DEF G
      <4> QED BY <2>1, <3>2, <3>3, SumsAgree
    <3> QED BY <3>1, <3>4, <2>3
  <2> QED BY <2>2, <2>3
<1>5. ASSUME NEW s \in SUBSET U
      PROVE  g[s] = IF s = {} THEN 0 ELSE f[Chosen(s)] + g[Rest(s)]
  <2>1. CASE s = {}
    BY <2>1
  <2>2. CASE s # {}
    <3>1. g[Rest(s)] = G(Rest(s))[Rest(s)]
      BY <1>3, <1>4, <2>2
    <3> HIDE DEF G, Rest
    <3> QED BY <2>2, <3>1
  <2> QED BY <2>1, <2>2
<1>6. IsSum(g, f, U)
  <2> HIDE DEF G
  <2> QED BY <1>5 DEF IsSum
<1> QED BY <1>1, <1>6

\* The sum over a subset is what any such function gives.
LEMMA SumUnfolds ==
  ASSUME NEW f, NEW S, IsFiniteSet(S), NEW g, IsSum(g, f, S), NEW T \in SUBSET S
  PROVE  SumFunctionOnSet(f, T) = g[T]
<1>1. IsFiniteSet(T) BY FS_Subset
<1>2. PICK h : h = CHOOSE k : IsSum(k, f, T)
  OBVIOUS
<1>3. IsSum(h, f, T)
  BY <1>1, <1>2, SumExists
<1>4. h[T] = g[T]
  <2> HIDE DEF IsSum
  <2>1. \A W \in SUBSET (T \cap S) : h[W] = g[W]
    BY ONLY <1>1, <1>3, IsSum(g, f, S), SumsAgree, SMT
  <2>2. T \in SUBSET (T \cap S)
    OBVIOUS
  <2> QED BY <2>1, <2>2
<1> QED BY <1>2, <1>4, SumDefinition

\* The sum over nothing is 0.
LEMMA SumEmpty ==
  ASSUME NEW f PROVE SumFunctionOnSet(f, {}) = 0
<1>1. IsFiniteSet({}) BY FS_EmptySet
<1>2. PICK g : IsSum(g, f, {}) BY <1>1, SumExists
<1>3. SumFunctionOnSet(f, {}) = g[{}] BY <1>1, <1>2, SumUnfolds
<1>4. g[{}] = 0 BY <1>2 DEF IsSum
<1> QED BY <1>3, <1>4

\* The sum is the first element's part and the sum of the rest.
LEMMA SumStep ==
  ASSUME NEW f, NEW S, IsFiniteSet(S), S # {}
  PROVE  SumFunctionOnSet(f, S) = f[Chosen(S)] + SumFunctionOnSet(f, S \ {Chosen(S)})
<1>1. PICK g : IsSum(g, f, S) BY SumExists
<1>2. SumFunctionOnSet(f, S) = g[S] BY <1>1, SumUnfolds
<1>3. SumFunctionOnSet(f, S \ {Chosen(S)}) = g[S \ {Chosen(S)}] BY <1>1, SumUnfolds
<1>4. g[S] = f[Chosen(S)] + g[S \ {Chosen(S)}] BY <1>1 DEF IsSum
<1> QED BY <1>2, <1>3, <1>4

\* A sum of integers is an integer.
LEMMA SumType ==
  ASSUME NEW f, NEW S, IsFiniteSet(S), \A x \in S : f[x] \in Int
  PROVE  SumFunctionOnSet(f, S) \in Int
<1> DEFINE Bad == {U \in SUBSET S : SumFunctionOnSet(f, U) \notin Int}
<1> SUFFICES ASSUME Bad # {} PROVE FALSE
  OBVIOUS
<1>1. PICK U \in Bad : \A T \in Bad : T \subseteq U => T = U
  <2>1. Bad \in SUBSET SUBSET S
    OBVIOUS
  <2> HIDE DEF Bad
  <2> QED BY <2>1, SmallestSubset
<1>2. U # {} BY SumEmpty
<1>3. Chosen(U) \in U BY <1>2, ChosenIn
<1>4. SumFunctionOnSet(f, U \ {Chosen(U)}) \in Int BY <1>1, <1>3
<1>5. SumFunctionOnSet(f, U) = f[Chosen(U)] + SumFunctionOnSet(f, U \ {Chosen(U)})
  BY <1>2, FS_Subset, SumStep
<1> QED BY <1>3, <1>4, <1>5

\* The sum does not depend on the order: any element can be taken first.
LEMMA SumWithout ==
  ASSUME NEW f, NEW S, IsFiniteSet(S), \A x \in S : f[x] \in Int, NEW x \in S
  PROVE  SumFunctionOnSet(f, S) = f[x] + SumFunctionOnSet(f, S \ {x})
<1> DEFINE Ok(U) == \A y \in U : SumFunctionOnSet(f, U) = f[y] + SumFunctionOnSet(f, U \ {y})
           Bad == {U \in SUBSET S : ~Ok(U)}
<1> SUFFICES ASSUME Bad # {} PROVE FALSE
  OBVIOUS
<1>1. PICK U \in Bad : \A T \in Bad : T \subseteq U => T = U
  <2>1. Bad \in SUBSET SUBSET S
    OBVIOUS
  <2> HIDE DEF Bad
  <2> QED BY <2>1, SmallestSubset
<1>2. PICK y \in U : SumFunctionOnSet(f, U) # f[y] + SumFunctionOnSet(f, U \ {y})
  OBVIOUS
<1> DEFINE c == Chosen(U)
<1>3. c \in U /\ SumFunctionOnSet(f, U) = f[c] + SumFunctionOnSet(f, U \ {c})
  BY <1>2, ChosenIn, FS_Subset, SumStep
<1>4. y # c BY <1>2, <1>3
<1>5. Ok(U \ {c}) /\ Ok(U \ {y})
  BY <1>1, <1>2, <1>3
<1> DEFINE R == U \ {c, y}
<1>6. (U \ {c}) \ {y} = R /\ (U \ {y}) \ {c} = R
  OBVIOUS
<1>7. SumFunctionOnSet(f, U \ {c}) = f[y] + SumFunctionOnSet(f, R)
  BY <1>2, <1>4, <1>5, <1>6
<1>8. SumFunctionOnSet(f, U \ {y}) = f[c] + SumFunctionOnSet(f, R)
  BY <1>3, <1>4, <1>5, <1>6
<1>9. SumFunctionOnSet(f, R) \in Int
  BY FS_Subset, SumType
<1>10. f[c] \in Int /\ f[y] \in Int
  BY <1>2, <1>3
<1> HIDE DEF c, R
<1> QED BY <1>2, <1>3, <1>7, <1>8, <1>9, <1>10

\* The sum depends on the values in the set only.
LEMMA SumSame ==
  ASSUME NEW f, NEW g, NEW S, IsFiniteSet(S), \A x \in S : f[x] = g[x]
  PROVE  SumFunctionOnSet(f, S) = SumFunctionOnSet(g, S)
<1> DEFINE Bad == {U \in SUBSET S : SumFunctionOnSet(f, U) # SumFunctionOnSet(g, U)}
<1> SUFFICES ASSUME Bad # {} PROVE FALSE
  OBVIOUS
<1>1. PICK U \in Bad : \A T \in Bad : T \subseteq U => T = U
  <2>1. Bad \in SUBSET SUBSET S
    OBVIOUS
  <2> HIDE DEF Bad
  <2> QED BY <2>1, SmallestSubset
<1>2. U # {} BY SumEmpty
<1>3. Chosen(U) \in U BY <1>2, ChosenIn
<1>4. SumFunctionOnSet(f, U \ {Chosen(U)}) = SumFunctionOnSet(g, U \ {Chosen(U)}) BY <1>1, <1>3
<1>5. /\ SumFunctionOnSet(f, U) = f[Chosen(U)] + SumFunctionOnSet(f, U \ {Chosen(U)})
      /\ SumFunctionOnSet(g, U) = g[Chosen(U)] + SumFunctionOnSet(g, U \ {Chosen(U)})
  BY <1>2, FS_Subset, SumStep
<1> QED BY <1>1, <1>3, <1>4, <1>5

\* One more element adds its part.
LEMMA SumAdd ==
  ASSUME NEW f, NEW S, IsFiniteSet(S), NEW x, x \notin S,
         \A y \in S \cup {x} : f[y] \in Int
  PROVE  SumFunctionOnSet(f, S \cup {x}) = SumFunctionOnSet(f, S) + f[x]
<1>1. IsFiniteSet(S \cup {x})
  BY FS_AddElement
<1>2. (S \cup {x}) \ {x} = S
  OBVIOUS
<1>3. SumFunctionOnSet(f, S \cup {x}) = f[x] + SumFunctionOnSet(f, S)
  BY <1>1, <1>2, SumWithout
<1>4. SumFunctionOnSet(f, S) \in Int
  BY SumType
<1> QED BY <1>3, <1>4

\* Where one value changes, the sum changes by the difference.
LEMMA SumChange ==
  ASSUME NEW f, NEW g, NEW S, IsFiniteSet(S), NEW x \in S,
         \A y \in S : f[y] \in Int /\ g[y] \in Int,
         \A y \in S \ {x} : f[y] = g[y]
  PROVE  SumFunctionOnSet(g, S) = SumFunctionOnSet(f, S) - f[x] + g[x]
<1>1. SumFunctionOnSet(f, S) = f[x] + SumFunctionOnSet(f, S \ {x})
  BY SumWithout
<1>2. SumFunctionOnSet(g, S) = g[x] + SumFunctionOnSet(g, S \ {x})
  BY SumWithout
<1>3. IsFiniteSet(S \ {x})
  BY FS_RemoveElement
<1>4. SumFunctionOnSet(f, S \ {x}) = SumFunctionOnSet(g, S \ {x})
  BY <1>3, SumSame
<1>5. SumFunctionOnSet(f, S \ {x}) \in Int
  BY <1>3, SumType
<1> QED BY <1>1, <1>2, <1>4, <1>5

\* The sum grows with the values.
LEMMA SumAtMost ==
  ASSUME NEW f, NEW g, NEW S, IsFiniteSet(S),
         \A x \in S : f[x] \in Int /\ g[x] \in Int /\ f[x] <= g[x]
  PROVE  SumFunctionOnSet(f, S) <= SumFunctionOnSet(g, S)
<1> DEFINE Bad == {U \in SUBSET S : ~(SumFunctionOnSet(f, U) <= SumFunctionOnSet(g, U))}
<1> SUFFICES ASSUME Bad # {} PROVE FALSE
  OBVIOUS
<1>1. PICK U \in Bad : \A T \in Bad : T \subseteq U => T = U
  <2>1. Bad \in SUBSET SUBSET S
    OBVIOUS
  <2> HIDE DEF Bad
  <2> QED BY <2>1, SmallestSubset
<1>2. U # {} BY SumEmpty
<1> DEFINE c == Chosen(U)
           R == U \ {c}
<1>3. c \in U /\ c \in S BY <1>2, ChosenIn
<1>4. IsFiniteSet(U) /\ IsFiniteSet(R)
  BY FS_Subset
<1>5. SumFunctionOnSet(f, R) <= SumFunctionOnSet(g, R)
  BY <1>1, <1>3
<1>6. /\ SumFunctionOnSet(f, U) = f[c] + SumFunctionOnSet(f, R)
      /\ SumFunctionOnSet(g, U) = g[c] + SumFunctionOnSet(g, R)
  BY <1>2, <1>4, SumStep
<1>7. SumFunctionOnSet(f, R) \in Int /\ SumFunctionOnSet(g, R) \in Int
  BY <1>4, SumType
<1>8. f[c] \in Int /\ g[c] \in Int /\ f[c] <= g[c]
  BY <1>3
<1> HIDE DEF c, R
<1>9. SumFunctionOnSet(f, U) <= SumFunctionOnSet(g, U)
  BY <1>5, <1>6, <1>7, <1>8
<1> QED BY <1>9

\* It grows where one value does.
LEMMA SumLess ==
  ASSUME NEW f, NEW g, NEW S, IsFiniteSet(S),
         \A x \in S : f[x] \in Int /\ g[x] \in Int /\ f[x] <= g[x],
         NEW x \in S, f[x] < g[x]
  PROVE  SumFunctionOnSet(f, S) < SumFunctionOnSet(g, S)
<1> DEFINE R == S \ {x}
<1>1. IsFiniteSet(R)
  BY FS_Subset
<1>2. /\ SumFunctionOnSet(f, S) = f[x] + SumFunctionOnSet(f, R)
      /\ SumFunctionOnSet(g, S) = g[x] + SumFunctionOnSet(g, R)
  BY SumWithout
<1>3. SumFunctionOnSet(f, R) <= SumFunctionOnSet(g, R)
  BY <1>1, SumAtMost
<1>4. SumFunctionOnSet(f, R) \in Int /\ SumFunctionOnSet(g, R) \in Int
  BY <1>1, SumType
<1> HIDE DEF R
<1> QED BY <1>2, <1>3, <1>4

\* What is nothing can be left out.
LEMMA SumPart ==
  ASSUME NEW f, NEW S, IsFiniteSet(S), NEW T \in SUBSET S, \A x \in S : f[x] \in Int,
         \A x \in S \ T : f[x] = 0
  PROVE  SumFunctionOnSet(f, S) = SumFunctionOnSet(f, T)
<1> DEFINE Bad == {U \in SUBSET (S \ T) : SumFunctionOnSet(f, T \cup U) # SumFunctionOnSet(f, T)}
<1> SUFFICES ASSUME Bad # {} PROVE FALSE
  <2>1. T \cup (S \ T) = S /\ S \ T \in SUBSET (S \ T)
    OBVIOUS
  <2>2. SumFunctionOnSet(f, T \cup (S \ T)) = SumFunctionOnSet(f, T)
    <3> HIDE DEF Bad
    <3>1. S \ T \notin Bad
      OBVIOUS
    <3> QED BY <2>1, <3>1 DEF Bad
  <2> QED BY <2>1, <2>2
<1>1. PICK U \in Bad : \A V \in Bad : V \subseteq U => V = U
  <2>1. Bad \in SUBSET SUBSET (S \ T)
    OBVIOUS
  <2>2. IsFiniteSet(S \ T)
    BY FS_Subset
  <2> HIDE DEF Bad
  <2> QED BY <2>1, <2>2, SmallestSubset
<1>2. PICK x \in U : TRUE
  OBVIOUS
<1> DEFINE R == U \ {x}
<1>3. SumFunctionOnSet(f, T \cup R) = SumFunctionOnSet(f, T)
  <2>1. R \in SUBSET (S \ T) /\ R \subseteq U /\ R # U
    BY <1>2
  <2>2. R \notin Bad
    <3> HIDE DEF Bad, R
    <3> QED BY <1>1, <2>1
  <2> HIDE DEF R
  <2> QED BY <2>1, <2>2
<1>4. IsFiniteSet(T \cup U) /\ IsFiniteSet(T \cup R) /\ (T \cup U) \ {x} = T \cup R
  BY FS_Subset
<1>5. SumFunctionOnSet(f, T \cup U) = f[x] + SumFunctionOnSet(f, T \cup R)
  BY <1>4, SumWithout
<1>6. SumFunctionOnSet(f, T \cup R) \in Int /\ f[x] = 0
  BY <1>4, SumType
<1> HIDE DEF R
<1> QED BY <1>3, <1>5, <1>6

\* A sum of naturals is a natural.
LEMMA SumNat ==
  ASSUME NEW f, NEW S, IsFiniteSet(S), \A x \in S : f[x] \in Nat
  PROVE  SumFunctionOnSet(f, S) \in Nat
<1> DEFINE zero == [x \in S |-> 0]
           Bad == {U \in SUBSET S : SumFunctionOnSet(zero, U) # 0}
<1>1. SumFunctionOnSet(zero, S) = 0
  <2>1. \A x \in S : zero[x] \in Int /\ zero[x] = 0
    OBVIOUS
  <2> HIDE DEF zero
  <2>2. {} \in SUBSET S /\ \A x \in S \ {} : zero[x] = 0
    BY <2>1
  <2>3. SumFunctionOnSet(zero, S) = SumFunctionOnSet(zero, {})
    BY <2>1, <2>2, SumPart
  <2> QED BY <2>3, SumEmpty
<1>2. SumFunctionOnSet(zero, S) <= SumFunctionOnSet(f, S)
  <2>1. \A x \in S : zero[x] \in Int /\ f[x] \in Int /\ zero[x] <= f[x]
    OBVIOUS
  <2> HIDE DEF zero
  <2> QED BY <2>1, SumAtMost
<1>3. SumFunctionOnSet(f, S) \in Int
  BY SumType
<1> HIDE DEF zero
<1> QED BY <1>1, <1>2, <1>3

\* No part of a sum of naturals is more than the sum.
LEMMA SumHasPart ==
  ASSUME NEW f, NEW S, IsFiniteSet(S), \A x \in S : f[x] \in Nat, NEW x \in S
  PROVE  f[x] <= SumFunctionOnSet(f, S)
<1>1. SumFunctionOnSet(f, S) = f[x] + SumFunctionOnSet(f, S \ {x})
  <2>1. \A y \in S : f[y] \in Int
    OBVIOUS
  <2> QED BY <2>1, SumWithout
<1>2. SumFunctionOnSet(f, S \ {x}) \in Nat
  BY FS_Subset, SumNat
<1> QED BY <1>1, <1>2

\* A common factor can be taken out.
LEMMA SumScaled ==
  ASSUME NEW f, NEW g, NEW S, IsFiniteSet(S), NEW c \in Int,
         \A x \in S : f[x] \in Int /\ g[x] = c * f[x]
  PROVE  SumFunctionOnSet(g, S) = c * SumFunctionOnSet(f, S)
<1> DEFINE Bad == {U \in SUBSET S : SumFunctionOnSet(g, U) # c * SumFunctionOnSet(f, U)}
<1> SUFFICES ASSUME Bad # {} PROVE FALSE
  OBVIOUS
<1>1. PICK U \in Bad : \A T \in Bad : T \subseteq U => T = U
  <2>1. Bad \in SUBSET SUBSET S
    OBVIOUS
  <2> HIDE DEF Bad
  <2> QED BY <2>1, SmallestSubset
<1>2. U # {}
  <2>1. SumFunctionOnSet(g, {}) = 0 /\ SumFunctionOnSet(f, {}) = 0 /\ c * 0 = 0
    BY SumEmpty
  <2> QED BY <2>1
<1> DEFINE e == Chosen(U)
           R == U \ {e}
<1>3. e \in U /\ e \in S BY <1>2, ChosenIn
<1>4. IsFiniteSet(U) /\ IsFiniteSet(R)
  BY FS_Subset
<1>5. SumFunctionOnSet(g, R) = c * SumFunctionOnSet(f, R)
  BY <1>1, <1>3
<1>6. /\ SumFunctionOnSet(f, U) = f[e] + SumFunctionOnSet(f, R)
      /\ SumFunctionOnSet(g, U) = g[e] + SumFunctionOnSet(g, R)
  BY <1>2, <1>4, SumStep
<1>7. SumFunctionOnSet(f, R) \in Int
  BY <1>4, SumType
<1>8. f[e] \in Int /\ g[e] = c * f[e]
  BY <1>3
<1>9. SumFunctionOnSet(g, U) # c * SumFunctionOnSet(f, U)
  OBVIOUS
<1> HIDE DEF e, R
<1>10. c * (f[e] + SumFunctionOnSet(f, R)) = c * f[e] + c * SumFunctionOnSet(f, R)
  BY <1>7, <1>8
<1> QED BY <1>5, <1>6, <1>8, <1>9, <1>10

\* What is whole in two ways adds up in both.
LEMMA SumOfBoth ==
  ASSUME NEW f, NEW g, NEW h, NEW S, IsFiniteSet(S),
         \A x \in S : f[x] \in Int /\ g[x] \in Int /\ h[x] = f[x] + g[x]
  PROVE  SumFunctionOnSet(h, S) = SumFunctionOnSet(f, S) + SumFunctionOnSet(g, S)
<1> DEFINE Ok(U) == SumFunctionOnSet(h, U) = SumFunctionOnSet(f, U) + SumFunctionOnSet(g, U)
           Bad == {U \in SUBSET S : ~Ok(U)}
<1> SUFFICES ASSUME Bad # {} PROVE FALSE
  OBVIOUS
<1>1. PICK U \in Bad : \A T \in Bad : T \subseteq U => T = U
  <2>1. Bad \in SUBSET SUBSET S
    OBVIOUS
  <2> HIDE DEF Bad
  <2> QED BY <2>1, SmallestSubset
<1>2. U # {}
  <2>1. /\ SumFunctionOnSet(f, {}) = 0 /\ SumFunctionOnSet(g, {}) = 0
        /\ SumFunctionOnSet(h, {}) = 0
    BY SumEmpty
  <2>2. Ok({}) /\ ~Ok(U)
    BY <2>1
  <2> QED BY <2>2
<1> DEFINE e == Chosen(U)
           R == U \ {e}
<1>3. e \in U /\ e \in S BY <1>2, ChosenIn
<1>4. IsFiniteSet(U) /\ IsFiniteSet(R)
  BY FS_Subset
<1>5. SumFunctionOnSet(h, R) = SumFunctionOnSet(f, R) + SumFunctionOnSet(g, R)
  BY <1>1, <1>3
<1>6. /\ SumFunctionOnSet(f, U) = f[e] + SumFunctionOnSet(f, R)
      /\ SumFunctionOnSet(g, U) = g[e] + SumFunctionOnSet(g, R)
      /\ SumFunctionOnSet(h, U) = h[e] + SumFunctionOnSet(h, R)
  BY <1>2, <1>4, SumStep
<1>7. SumFunctionOnSet(f, R) \in Int /\ SumFunctionOnSet(g, R) \in Int
  BY <1>4, SumType
<1>8. f[e] \in Int /\ g[e] \in Int /\ h[e] = f[e] + g[e]
  BY <1>3
<1>9. ~Ok(U)
  OBVIOUS
<1> HIDE DEF e, R
<1> QED BY <1>5, <1>6, <1>7, <1>8, <1>9

\* Rounding down.
LEMMA Division ==
  ASSUME NEW a \in Int, NEW b \in Nat \ {0}
  PROVE  /\ a \div b \in Int /\ (a \div b) * b <= a /\ a < (a \div b + 1) * b
         /\ a % b \in 0 .. b - 1 /\ a = (a \div b) * b + (a % b)
         /\ a \in Nat => a \div b \in Nat
<1> DEFINE q == a \div b
           r == a % b
<1>1. q \in Int /\ r \in 0 .. b - 1 /\ a = b * q + r
  OBVIOUS
<1>2. a \in Nat => q \in Nat
  OBVIOUS
<1> HIDE DEF q, r
<1>3. b * q = q * b /\ (q + 1) * b = q * b + b
  BY <1>1
<1>4. q * b \in Int
  BY <1>1
<1> QED BY <1>1, <1>2, <1>3, <1>4 DEF q, r

\* Sets without a common element add up.
LEMMA DisjointSizes ==
  ASSUME NEW S, NEW T, IsFiniteSet(S), IsFiniteSet(T), S \cap T = {}
  PROVE  Cardinality(S \cup T) = Cardinality(S) + Cardinality(T)
<1>1. Cardinality(S \cup T) = Cardinality(S) + Cardinality(T) - Cardinality({})
  BY FS_Union
<1>2. Cardinality(S) \in Nat /\ Cardinality(T) \in Nat /\ Cardinality({}) = 0
  BY FS_CardinalityType, FS_EmptySet
<1> QED BY <1>1, <1>2

\* A set of naturals has a smallest element.
LEMMA SmallestElement ==
  ASSUME NEW S, S \subseteq Nat, S # {}
  PROVE  \E x \in S : \A y \in S : x <= y
<1>1. PICK n \in S : \A m \in S : <<m, n>> \notin OpToRel(<, Nat)
  BY NatLessThanWellFounded, WFMin
<1>2. \A m \in S : ~(m < n)
  BY <1>1 DEF OpToRel
<1> QED BY <1>2

\* A finite set of integers has a largest element.
LEMMA LargestElement ==
  ASSUME NEW S, IsFiniteSet(S), S \subseteq Int, S # {}
  PROVE  \E x \in S : \A y \in S : y <= x
<1> DEFINE HasLargest(U) == \E x \in U : \A y \in U : y <= x
           Bad == {U \in SUBSET S : U # {} /\ ~HasLargest(U)}
<1> SUFFICES ASSUME Bad # {} PROVE FALSE
  OBVIOUS
<1>1. PICK U \in Bad : \A T \in Bad : T \subseteq U => T = U
  <2>1. Bad \in SUBSET SUBSET S
    OBVIOUS
  <2> HIDE DEF Bad, HasLargest
  <2> QED BY ONLY IsFiniteSet(S), Bad # {}, <2>1, SmallestSubset
<1>2. U \subseteq Int /\ U # {} /\ ~HasLargest(U)
  OBVIOUS
<1>3. PICK x \in U : TRUE
  BY <1>2
<1>4. U \ {x} # {}
  BY <1>2, <1>3
<1>5. HasLargest(U \ {x})
  <2>1. U \ {x} \in SUBSET S /\ U \ {x} \subseteq U /\ U \ {x} # U
    BY <1>3
  <2>2. U \ {x} \notin Bad
    <3> HIDE DEF Bad
    <3> QED BY <1>1, <2>1
  <2> QED BY <1>4, <2>1, <2>2
<1>6. PICK z \in U \ {x} : \A y \in U \ {x} : y <= z
  BY <1>5
<1>7. x \in Int /\ z \in Int
  BY <1>2, <1>3, <1>6
<1>8. CASE z <= x
  <2>1. \A y \in U : y <= x
    BY <1>2, <1>6, <1>7, <1>8
  <2> QED BY <1>2, <2>1
<1>9. CASE x <= z
  <2>1. \A y \in U : y <= z
    BY <1>2, <1>6, <1>7, <1>9
  <2> QED BY <1>2, <2>1
<1> QED BY <1>7, <1>8, <1>9

\* An element of a finite set at which a function is largest.
LEMMA LargestBy ==
  ASSUME NEW f, NEW S, IsFiniteSet(S), S # {}, \A x \in S : f[x] \in Int
  PROVE  \E x \in S : \A y \in S : f[y] <= f[x]
<1> DEFINE g == [x \in S |-> f[x]]
           T == {f[x] : x \in S}
<1>1. g \in Surjection(S, T)
  <2>1. g \in [S -> T] /\ \A y \in T : \E x \in S : g[x] = y
    OBVIOUS
  <2> QED BY <2>1 DEF Surjection
<1>2. IsFiniteSet(T)
  <2> HIDE DEF g, T
  <2> QED BY <1>1, FS_Surjection
<1>3. T \subseteq Int /\ T # {}
  OBVIOUS
<1>4. PICK z \in T : \A y \in T : y <= z
  <2> HIDE DEF T
  <2> QED BY <1>2, <1>3, LargestElement
<1> QED BY <1>4

\* The elements of T with fewer than k below them.
Lowest(T, k) == {n \in T : Cardinality({m \in T : m < n}) < k}

\* They are k, or all of T.
LEMMA LowestSize ==
  ASSUME NEW S, IsFiniteSet(S), S \subseteq Int, NEW k \in Nat
  PROVE  Cardinality(Lowest(S, k)) = IF k <= Cardinality(S) THEN k ELSE Cardinality(S)
<1> DEFINE Ok(U) == Cardinality(Lowest(U, k)) = IF k <= Cardinality(U) THEN k ELSE Cardinality(U)
           Bad == {U \in SUBSET S : ~Ok(U)}
<1> SUFFICES ASSUME Bad # {} PROVE FALSE
  OBVIOUS
<1>1. PICK U \in Bad : \A T \in Bad : T \subseteq U => T = U
  <2>1. Bad \in SUBSET SUBSET S
    OBVIOUS
  <2> HIDE DEF Bad, Ok
  <2> QED BY ONLY IsFiniteSet(S), Bad # {}, <2>1, SmallestSubset
<1>2. U \subseteq Int /\ IsFiniteSet(U) /\ ~Ok(U)
  BY FS_Subset
<1>3. U # {}
  <2> SUFFICES ASSUME U = {} PROVE FALSE
    OBVIOUS
  <2>1. Lowest(U, k) = {} /\ Cardinality(U) = 0 /\ Cardinality({}) = 0
    BY FS_EmptySet DEF Lowest
  <2> QED BY <1>2, <2>1
<1>4. PICK x \in U : \A y \in U : y <= x
  BY <1>2, <1>3, LargestElement
<1> DEFINE R == U \ {x}
<1>5. R \subseteq U /\ IsFiniteSet(R) /\ Cardinality(R) = Cardinality(U) - 1 /\ x \notin R
  BY <1>2, FS_Subset, FS_RemoveElement
<1>6. Cardinality(U) \in Nat /\ Cardinality(R) \in Nat
  BY <1>2, <1>5, FS_CardinalityType
<1>7. Ok(R)
  <2>1. R \in SUBSET S /\ R # U
    BY <1>4
  <2>2. R \notin Bad
    <3> HIDE DEF Bad, R
    <3> QED BY <1>1, <1>5, <2>1
  <2> QED BY <2>1, <2>2
<1>8. {m \in U : m < x} = R
  <2>1. \A m \in U : m \in Int /\ x \in Int /\ m <= x /\ (m < x <=> m # x)
    BY <1>2, <1>4
  <2> QED BY <2>1
<1>9. \A n \in R : {m \in U : m < n} = {m \in R : m < n}
  BY <1>2, <1>4
<1>10. Lowest(U, k) = Lowest(R, k) \cup (IF Cardinality(R) < k THEN {x} ELSE {})
  BY <1>4, <1>8, <1>9 DEF Lowest
<1>11. IsFiniteSet(Lowest(R, k)) /\ x \notin Lowest(R, k)
  BY <1>5, FS_Subset DEF Lowest
<1>12. /\ Cardinality(Lowest(R, k)) \in Nat
       /\ Cardinality(Lowest(R, k) \cup {x}) = Cardinality(Lowest(R, k)) + 1
       /\ Lowest(R, k) \cup {} = Lowest(R, k)
  BY <1>11, FS_AddElement, FS_CardinalityType
<1> HIDE DEF R
<1>13. CASE Cardinality(R) < k
  <2>1. /\ Cardinality(Lowest(R, k)) = Cardinality(R)
        /\ Cardinality(Lowest(U, k)) = Cardinality(Lowest(R, k)) + 1
    BY <1>6, <1>7, <1>10, <1>12, <1>13
  <2>2. Cardinality(Lowest(U, k)) = Cardinality(U) /\ Cardinality(U) <= k
    BY <1>5, <1>6, <1>13, <2>1
  <2> QED BY <1>6, <2>2
<1>14. CASE ~(Cardinality(R) < k)
  <2>1. Cardinality(Lowest(R, k)) = k /\ Lowest(U, k) = Lowest(R, k)
    BY <1>6, <1>7, <1>10, <1>12, <1>14
  <2> QED BY <1>5, <1>6, <1>14, <2>1
<1> QED BY <1>2, <1>13, <1>14

\* No other element is below one of them.
LEMMA LowestAreBelow ==
  ASSUME NEW S, IsFiniteSet(S), S \subseteq Int, NEW k \in Nat,
         NEW x \in Lowest(S, k), NEW y \in S \ Lowest(S, k)
  PROVE  x < y
<1>1. x \in S /\ x \in Int /\ y \in Int
  BY DEF Lowest
<1> SUFFICES ASSUME y <= x PROVE FALSE
  BY <1>1
<1>2. {m \in S : m < y} \subseteq {m \in S : m < x} /\ IsFiniteSet({m \in S : m < x})
  <2>1. \A m \in S : m \in Int /\ (m < y => m < x)
    BY <1>1
  <2>2. {m \in S : m < x} \in SUBSET S
    OBVIOUS
  <2> QED BY <2>1, <2>2, FS_Subset
<1>3. Cardinality({m \in S : m < y}) <= Cardinality({m \in S : m < x})
  BY <1>2, FS_Subset
<1>4. /\ IsFiniteSet({m \in S : m < y})
      /\ Cardinality({m \in S : m < y}) \in Nat /\ Cardinality({m \in S : m < x}) \in Nat
  BY <1>2, FS_Subset, FS_CardinalityType
<1> QED BY <1>3, <1>4 DEF Lowest

\* Every rank up to the size of a set is the rank of one of its elements.
LEMMA RankExists ==
  ASSUME NEW S, IsFiniteSet(S), S \subseteq Int, NEW k \in 1 .. Cardinality(S)
  PROVE  \E e \in S : Cardinality({x \in S : x <= e}) = k
<1>1. Cardinality(S) \in Nat /\ k \in Nat /\ k > 0 /\ k <= Cardinality(S)
  BY FS_CardinalityType
<1> DEFINE L == Lowest(S, k)
<1>2. Cardinality(L) = k /\ L \subseteq S
  BY <1>1, LowestSize DEF Lowest
<1>3. IsFiniteSet(L) /\ L # {}
  BY <1>1, <1>2, FS_Subset, FS_EmptySet
<1>4. PICK e \in L : \A x \in L : x <= e
  <2> HIDE DEF L
  <2> QED BY <1>2, <1>3, LargestElement
<1>5. \A x \in S \ L : e < x
  BY <1>1, LowestAreBelow
<1> HIDE DEF L
<1>6. \A x \in S : x \in Int /\ e \in Int
  BY <1>2
<1>7. {x \in S : x <= e} = L
  <2>1. \A x \in S : x <= e <=> x \in L
    <3> TAKE x \in S
    <3>1. CASE x \in L
      BY <1>4, <3>1
    <3>2. CASE x \notin L
      <4>1. e < x /\ x \in Int /\ e \in Int
        BY <1>5, <1>6, <3>2
      <4> QED BY <3>2, <4>1
    <3> QED BY <3>1, <3>2
  <2> QED BY <1>2, <2>1
<1> QED BY <1>2, <1>7

\* An element of a higher rank is a larger one: a rank names one element.
LEMMA RankOrders ==
  ASSUME NEW S, IsFiniteSet(S), S \subseteq Int, NEW d \in S, NEW e \in S, d < e
  PROVE  Cardinality({x \in S : x <= d}) < Cardinality({x \in S : x <= e})
<1> DEFINE A == {x \in S : x <= d}
           B == {x \in S : x <= e}
<1>1. d \in Int /\ e \in Int
  OBVIOUS
<1>2. A \subseteq B /\ e \in B /\ e \notin A /\ B \subseteq S
  <2>1. \A x \in S : x <= d => x <= e
    BY <1>1
  <2>2. e <= e /\ ~(e <= d)
    BY <1>1
  <2> QED BY <2>1, <2>2
<1>3. IsFiniteSet(B)
  BY <1>2, FS_Subset
<1>4. Cardinality(A) <= Cardinality(B) /\ (Cardinality(A) = Cardinality(B) => A = B) /\ IsFiniteSet(A)
  <2> HIDE DEF A, B
  <2> QED BY <1>2, <1>3, FS_Subset
<1>5. Cardinality(A) \in Nat /\ Cardinality(B) \in Nat
  BY <1>3, <1>4, FS_CardinalityType
<1> HIDE DEF A, B
<1>6. Cardinality(A) < Cardinality(B)
  BY <1>2, <1>4, <1>5
<1> QED BY <1>6 DEF A, B

\* The elements above one and those below it are the rest.
LEMMA AboveAndBelow ==
  ASSUME NEW S, IsFiniteSet(S), S \subseteq Int, NEW d \in S
  PROVE  Cardinality({e \in S : e > d}) = Cardinality(S) - 1 - Cardinality({e \in S : e < d})
<1> DEFINE A == {e \in S : e > d}
           B == {e \in S : e < d}
<1>1. A \subseteq S \ {d} /\ B \subseteq S \ {d} /\ A \cap B = {} /\ A \cup B = S \ {d}
  <2>1. \A e \in S : (e > d \/ e < d <=> e # d) /\ ~(e > d /\ e < d)
    OBVIOUS
  <2> QED BY <2>1
<1>2. IsFiniteSet(S \ {d}) /\ Cardinality(S \ {d}) = Cardinality(S) - 1
  BY FS_RemoveElement
<1>3. IsFiniteSet(A) /\ IsFiniteSet(B)
  BY <1>1, <1>2, FS_Subset
<1>4. Cardinality(A) \in Nat /\ Cardinality(B) \in Nat /\ Cardinality(S) \in Nat
  BY <1>3, FS_CardinalityType
<1>5. Cardinality(A \cup B) = Cardinality(A) + Cardinality(B)
  <2> HIDE DEF A, B
  <2> QED BY <1>1, <1>3, DisjointSizes
<1> HIDE DEF A, B
<1>6. Cardinality(A) + Cardinality(B) = Cardinality(S) - 1
  BY <1>1, <1>2, <1>5
<1>7. Cardinality(A) = Cardinality(S) - 1 - Cardinality(B)
  BY <1>4, <1>6
<1> QED BY <1>7 DEF A, B

\* A set of pairs with the same first part has the size of the second ones.
LEMMA ColumnSize ==
  ASSUME NEW i, NEW D, IsFiniteSet(D)
  PROVE  /\ IsFiniteSet({<<i, d>> : d \in D})
         /\ Cardinality({<<i, d>> : d \in D}) = Cardinality(D)
<1> DEFINE C == {<<i, d>> : d \in D}
           f == [d \in D |-> <<i, d>>]
<1>1. f \in Bijection(D, C)
  <2>1. f \in [D -> C]
    OBVIOUS
  <2>2. f \in Injection(D, C)
    <3>1. \A d, e \in D : f[d] = f[e] => d = e
      <4> TAKE d, e \in D
      <4>1. f[d] = <<i, d>> /\ f[e] = <<i, e>>
        OBVIOUS
      <4>2. <<i, d>> = <<i, e>> => d = e
        OBVIOUS
      <4> HIDE DEF f
      <4> QED BY <4>1, <4>2
    <3> HIDE DEF f, C
    <3> QED BY <2>1, <3>1 DEF Injection, IsInjective
  <2>3. f \in Surjection(D, C)
    BY <2>1 DEF Surjection
  <2> HIDE DEF f, C
  <2> QED BY <2>2, <2>3 DEF Bijection
<1> HIDE DEF f, C
<1>2. IsFiniteSet(C) /\ Cardinality(C) = Cardinality(D)
  BY <1>1, FS_Bijection DEF ExistsBijection
<1> QED BY <1>2 DEF C

\* A part of a set has no more elements than the set, and fewer without one of them.
LEMMA FewerInPart ==
  ASSUME NEW S, NEW T, IsFiniteSet(T), S \subseteq T
  PROVE  /\ Cardinality(S) \in Nat /\ Cardinality(T) \in Nat
         /\ Cardinality(S) <= Cardinality(T)
         /\ \A e \in T \ S : Cardinality(S) < Cardinality(T)
<1>1. IsFiniteSet(S) /\ Cardinality(S) <= Cardinality(T) /\ (Cardinality(S) = Cardinality(T) => S = T)
  BY FS_Subset
<1>2. Cardinality(S) \in Nat /\ Cardinality(T) \in Nat
  BY <1>1, FS_CardinalityType
<1> QED BY <1>1, <1>2

\* A function on 1 .. n is a sequence of n elements.
LEMMA FunctionIsSeq ==
  ASSUME NEW n \in Nat, NEW S, NEW f \in [1 .. n -> S]
  PROVE  f \in Seq(S) /\ Len(f) = n /\ DOMAIN f = 1 .. n
<1>1. f \in Seq(S)
  BY SeqDef
<1>2. DOMAIN f = 1 .. n /\ DOMAIN f = 1 .. Len(f) /\ Len(f) \in Nat
  BY <1>1, LenProperties
<1>3. Len(f) = n
  <2> DEFINE m == Len(f)
  <2>1. m \in Nat /\ 1 .. m = 1 .. n
    BY <1>2
  <2> HIDE DEF m
  <2>2. (m > 0 => m \in 1 .. m) /\ (n > 0 => n \in 1 .. n)
    BY <2>1
  <2>3. (m > 0 => m <= n) /\ (n > 0 => n <= m)
    BY <2>1, <2>2
  <2>4. m = n
    BY <2>1, <2>3
  <2> QED BY <2>4 DEF m
<1> QED BY <1>1, <1>2, <1>3

\* The largest element is what Max chooses.
LEMMA MaxIs ==
  ASSUME NEW S, IsFiniteSet(S), S \subseteq Int, S # {}
  PROVE  Max(S) \in S /\ \A x \in S : x <= Max(S)
<1>1. \E x \in S : \A y \in S : x >= y
  <2>1. \E x \in S : \A y \in S : y <= x
    BY LargestElement
  <2> QED BY <2>1
<1>2. Max(S) \in S /\ \A y \in S : Max(S) >= y
  BY <1>1 DEF Max
<1> QED BY <1>2

\* And the smallest what Min chooses.
LEMMA MinIs ==
  ASSUME NEW S, S \subseteq Nat, S # {}
  PROVE  Min(S) \in S /\ \A x \in S : Min(S) <= x
BY SmallestElement DEF Min

-----------------------------------------------------------------------------
(* The same for products *)

ProductOf(f, S) == FoldFunctionOnSet(LAMBDA x, y : x * y, 1, f, S)

\* g[s] is the product of f over s, for every subset s of S.
IsProduct(g, f, S) ==
  g = [s \in SUBSET S |-> IF s = {} THEN 1 ELSE f[Chosen(s)] * g[s \ {Chosen(s)}]]

\* What the recursive definition of the library stands for.
LEMMA ProductDefinition ==
  ASSUME NEW f, NEW S
  PROVE ProductOf(f, S) = (CHOOSE g : IsProduct(g, f, S))[S]
BY DEF ProductOf, FoldFunctionOnSet, MapThenFoldSet, IsProduct, Chosen

\* Two such functions agree where both are defined.
LEMMA ProductsAgree ==
  ASSUME NEW f, NEW U, IsFiniteSet(U), NEW g, NEW h, IsProduct(g, f, U), NEW V, IsProduct(h, f, V)
  PROVE  \A W \in SUBSET (U \cap V) : g[W] = h[W]
<1> DEFINE Bad == {W \in SUBSET (U \cap V) : g[W] # h[W]}
<1> SUFFICES ASSUME Bad # {} PROVE FALSE
  OBVIOUS
<1>1. PICK W \in Bad : \A T \in Bad : T \subseteq W => T = W
  <2>1. Bad \in SUBSET SUBSET U
    OBVIOUS
  <2> HIDE DEF Bad
  <2> QED BY <2>1, SmallestSubset
<1>2. W # {}
  BY DEF IsProduct
<1>3. /\ Chosen(W) \in W
      /\ W \ {Chosen(W)} \in SUBSET (U \cap V)
      /\ W \ {Chosen(W)} # W
  BY <1>2, ChosenIn
<1>4. g[W \ {Chosen(W)}] = h[W \ {Chosen(W)}]
  BY <1>1, <1>3
<1> QED BY <1>2, <1>3, <1>4 DEF IsProduct

\* There is such a function for every finite set.
LEMMA ProductExists ==
  ASSUME NEW f, NEW S, IsFiniteSet(S)
  PROVE  \E g : IsProduct(g, f, S)
<1> DEFINE Bad == {U \in SUBSET S : ~ \E g : IsProduct(g, f, U)}
<1> SUFFICES ASSUME Bad # {} PROVE FALSE
  OBVIOUS
<1>1. PICK U \in Bad : \A T \in Bad : T \subseteq U => T = U
  <2>1. Bad \in SUBSET SUBSET S
    OBVIOUS
  <2> HIDE DEF Bad
  <2> QED BY <2>1, SmallestSubset
<1> DEFINE G(T) == CHOOSE g : IsProduct(g, f, T)
           Rest(s) == s \ {Chosen(s)}
           g == [s \in SUBSET U |-> IF s = {} THEN 1 ELSE f[Chosen(s)] * G(Rest(s))[Rest(s)]]
<1>2. \A T \in SUBSET U : T # U => IsProduct(G(T), f, T)
  BY <1>1
<1>3. ASSUME NEW s \in SUBSET U, s # {}
      PROVE  Rest(s) \in SUBSET U /\ Rest(s) # U /\ Rest(s) # s
  BY <1>3, ChosenIn
<1>4. ASSUME NEW s \in SUBSET U, s # U
      PROVE  g[s] = G(s)[s]
  <2>1. IsProduct(G(s), f, s)
    BY <1>2, <1>4
  <2>2. CASE s = {}
    BY <2>1, <2>2 DEF IsProduct
  <2>3. CASE s # {}
    <3>1. G(s)[s] = f[Chosen(s)] * G(s)[Rest(s)]
      BY <2>1, <2>3 DEF IsProduct
    <3>2. IsProduct(G(Rest(s)), f, Rest(s))
      BY <1>2, <1>3, <2>3
    <3>3. IsFiniteSet(s)
      BY FS_Subset
    <3>4. G(s)[Rest(s)] = G(Rest(s))[Rest(s)]
      <4> HIDE DEF G
      <4> QED BY <2>1, <3>2, <3>3, ProductsAgree
    <3> QED BY <3>1, <3>4, <2>3
  <2> QED BY <2>2, <2>3
<1>5. ASSUME NEW s \in SUBSET U
      PROVE  g[s] = IF s = {} THEN 1 ELSE f[Chosen(s)] * g[Rest(s)]
  <2>1. CASE s = {}
    BY <2>1
  <2>2. CASE s # {}
    <3>1. g[Rest(s)] = G(Rest(s))[Rest(s)]
      BY <1>3, <1>4, <2>2
    <3> HIDE DEF G, Rest
    <3> QED BY <2>2, <3>1
  <2> QED BY <2>1, <2>2
<1>6. IsProduct(g, f, U)
  <2> HIDE DEF G
  <2> QED BY <1>5 DEF IsProduct
<1> QED BY <1>1, <1>6

\* The product over a subset is what any such function gives.
LEMMA ProductUnfolds ==
  ASSUME NEW f, NEW S, IsFiniteSet(S), NEW g, IsProduct(g, f, S), NEW T \in SUBSET S
  PROVE  ProductOf(f, T) = g[T]
<1>1. IsFiniteSet(T) BY FS_Subset
<1>2. PICK h : h = CHOOSE k : IsProduct(k, f, T)
  OBVIOUS
<1>3. IsProduct(h, f, T)
  BY <1>1, <1>2, ProductExists
<1>4. h[T] = g[T]
  <2> HIDE DEF IsProduct
  <2>1. \A W \in SUBSET (T \cap S) : h[W] = g[W]
    BY ONLY <1>1, <1>3, IsProduct(g, f, S), ProductsAgree, SMT
  <2>2. T \in SUBSET (T \cap S)
    OBVIOUS
  <2> QED BY <2>1, <2>2
<1> QED BY <1>2, <1>4, ProductDefinition

\* The product over nothing is 1.
LEMMA ProductEmpty ==
  ASSUME NEW f PROVE ProductOf(f, {}) = 1
<1>1. IsFiniteSet({}) BY FS_EmptySet
<1>2. PICK g : IsProduct(g, f, {}) BY <1>1, ProductExists
<1>3. ProductOf(f, {}) = g[{}] BY <1>1, <1>2, ProductUnfolds
<1>4. g[{}] = 1 BY <1>2 DEF IsProduct
<1> QED BY <1>3, <1>4

\* The product is the first element's part times the product of the rest.
LEMMA ProductStep ==
  ASSUME NEW f, NEW S, IsFiniteSet(S), S # {}
  PROVE  ProductOf(f, S) = f[Chosen(S)] * ProductOf(f, S \ {Chosen(S)})
<1>1. PICK g : IsProduct(g, f, S) BY ProductExists
<1>2. ProductOf(f, S) = g[S] BY <1>1, ProductUnfolds
<1>3. ProductOf(f, S \ {Chosen(S)}) = g[S \ {Chosen(S)}] BY <1>1, ProductUnfolds
<1>4. g[S] = f[Chosen(S)] * g[S \ {Chosen(S)}] BY <1>1 DEF IsProduct
<1> QED BY <1>2, <1>3, <1>4

\* A product of integers is an integer.
LEMMA ProductType ==
  ASSUME NEW f, NEW S, IsFiniteSet(S), \A x \in S : f[x] \in Int
  PROVE  ProductOf(f, S) \in Int
<1> DEFINE Bad == {U \in SUBSET S : ProductOf(f, U) \notin Int}
<1> SUFFICES ASSUME Bad # {} PROVE FALSE
  OBVIOUS
<1>1. PICK U \in Bad : \A T \in Bad : T \subseteq U => T = U
  <2>1. Bad \in SUBSET SUBSET S
    OBVIOUS
  <2> HIDE DEF Bad
  <2> QED BY <2>1, SmallestSubset
<1>2. U # {} BY ProductEmpty
<1>3. Chosen(U) \in U BY <1>2, ChosenIn
<1>4. ProductOf(f, U \ {Chosen(U)}) \in Int BY <1>1, <1>3
<1>5. ProductOf(f, U) = f[Chosen(U)] * ProductOf(f, U \ {Chosen(U)})
  BY <1>2, FS_Subset, ProductStep
<1> QED BY <1>3, <1>4, <1>5

\* The product does not depend on the order: any element can be taken first.
LEMMA ProductWithout ==
  ASSUME NEW f, NEW S, IsFiniteSet(S), \A x \in S : f[x] \in Int, NEW x \in S
  PROVE  ProductOf(f, S) = f[x] * ProductOf(f, S \ {x})
<1> DEFINE Ok(U) == \A y \in U : ProductOf(f, U) = f[y] * ProductOf(f, U \ {y})
           Bad == {U \in SUBSET S : ~Ok(U)}
<1> SUFFICES ASSUME Bad # {} PROVE FALSE
  OBVIOUS
<1>1. PICK U \in Bad : \A T \in Bad : T \subseteq U => T = U
  <2>1. Bad \in SUBSET SUBSET S
    OBVIOUS
  <2> HIDE DEF Bad
  <2> QED BY <2>1, SmallestSubset
<1>2. PICK y \in U : ProductOf(f, U) # f[y] * ProductOf(f, U \ {y})
  OBVIOUS
<1> DEFINE c == Chosen(U)
<1>3. c \in U /\ ProductOf(f, U) = f[c] * ProductOf(f, U \ {c})
  BY <1>2, ChosenIn, FS_Subset, ProductStep
<1>4. y # c BY <1>2, <1>3
<1>5. Ok(U \ {c}) /\ Ok(U \ {y})
  BY <1>1, <1>2, <1>3
<1> DEFINE R == U \ {c, y}
<1>6. (U \ {c}) \ {y} = R /\ (U \ {y}) \ {c} = R
  OBVIOUS
<1>7. ProductOf(f, U \ {c}) = f[y] * ProductOf(f, R)
  BY <1>2, <1>4, <1>5, <1>6
<1>8. ProductOf(f, U \ {y}) = f[c] * ProductOf(f, R)
  BY <1>3, <1>4, <1>5, <1>6
<1>9. ProductOf(f, R) \in Int
  BY FS_Subset, ProductType
<1>10. f[c] \in Int /\ f[y] \in Int
  BY <1>2, <1>3
<1> HIDE DEF c, R
<1> QED BY <1>2, <1>3, <1>7, <1>8, <1>9, <1>10

\* One more element multiplies by its part.
LEMMA ProductAdd ==
  ASSUME NEW f, NEW S, IsFiniteSet(S), NEW x, x \notin S,
         \A y \in S \cup {x} : f[y] \in Int
  PROVE  ProductOf(f, S \cup {x}) = ProductOf(f, S) * f[x]
<1>1. IsFiniteSet(S \cup {x})
  BY FS_AddElement
<1>2. (S \cup {x}) \ {x} = S
  OBVIOUS
<1>3. ProductOf(f, S \cup {x}) = f[x] * ProductOf(f, S)
  BY <1>1, <1>2, ProductWithout
<1>4. ProductOf(f, S) \in Int
  BY ProductType
<1> QED BY <1>3, <1>4
==============================================================================
