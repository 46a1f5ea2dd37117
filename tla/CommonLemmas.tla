---------------------------- MODULE CommonLemmas ----------------------------
(***************************************************************************)
(* Facts the proofs of several components need: where rolling by whole     *)
(* periods lands, and what the sum of a function over a finite set is.     *)
(*                                                                         *)
(* A sum is a fold, defined by recursion over subsets.  The induction it   *)
(* takes is done by a smallest counterexample: a set of subsets of a       *)
(* finite set that is not empty has a least one.                           *)
(***************************************************************************)
EXTENDS Functions, FiniteSets, FiniteSetTheorems, NaturalsInduction,
        WellFoundedInduction, TLAPS

\* Rolling by whole periods lands on the period that contains the present.
LEMMA WholePeriods ==
    ASSUME NEW t \in Nat, NEW s \in Nat, NEW l \in Nat, l > 0, s <= t
    PROVE  /\ s + ((t - s) \div l) * l \in Nat
           /\ s + ((t - s) \div l) * l <= t
           /\ t < s + ((t - s) \div l) * l + l
           /\ t >= s + l => s + ((t - s) \div l) * l >= s + l
  <1> DEFINE q == (t - s) \div l
  <1>1. q \in Int /\ l * q <= t - s /\ t - s < l * q + l
    BY SMT
  <1>2. q >= 0
    BY <1>1, SMT
  <1>3. l * q \in Nat /\ l * q = q * l
    BY <1>1, <1>2, SMT
  <1>4. t >= s + l => q * l >= l
    <2>1. SUFFICES ASSUME t >= s + l PROVE q * l >= l
      OBVIOUS
    <2>2. q >= 1
      BY <1>1, <1>2, <2>1, SMT
    <2> QED BY <2>2, <1>1, SMT
  <1> QED BY <1>1, <1>2, <1>3, <1>4

\* A quotient is known by the multiples it lies between, and a multiple by its
\* factor.
LEMMA QuotientIs ==
    ASSUME NEW x \in Nat, NEW l \in Nat, l > 0, NEW q \in Int,
           q * l <= x, x < q * l + l
    PROVE  x \div l = q
  <1> DEFINE p == x \div l
  <1>1. p \in Int /\ l * p <= x /\ x < l * p + l
    BY SMT
  <1> HIDE DEF p
  <1>2. l * p = p * l /\ p * l \in Int /\ q * l \in Int
    BY <1>1, SMT
  <1>3. ASSUME NEW a \in Int, NEW b \in Int, a < b PROVE a * l + l <= b * l
    <2>1. b - a - 1 \in Nat /\ (b - a - 1) * l \in Nat
      BY <1>3, SMT
    <2>2. (b - a - 1) * l = b * l - a * l - l
      BY SMT
    <2> QED BY <2>1, <2>2, SMT
  <1>4. ~(p < q)
    <2>1. p < q => p * l + l <= q * l
      BY <1>1, <1>3
    <2> QED BY <1>1, <1>2, <2>1
  <1>5. ~(q < p)
    <2>1. q < p => q * l + l <= p * l
      BY <1>1, <1>3
    <2> QED BY <1>1, <1>2, <2>1
  <1> QED BY <1>1, <1>4, <1>5 DEF p

LEMMA SameMultiple ==
    ASSUME NEW l \in Nat, l > 0, NEW p \in Int, NEW q \in Int, p * l = q * l
    PROVE  p = q
  <1>1. ASSUME NEW a \in Int, NEW b \in Int, a < b PROVE a * l < b * l
    <2>1. b - a - 1 \in Nat /\ (b - a - 1) * l \in Nat
      BY <1>1, SMT
    <2>2. (b - a - 1) * l = b * l - a * l - l
      BY SMT
    <2>3. a * l \in Int /\ b * l \in Int
      BY SMT
    <2> QED BY <2>1, <2>2, <2>3, SMT
  <1>2. p < q => p * l < q * l
    BY <1>1
  <1>3. q < p => q * l < p * l
    BY <1>1
  <1>4. p * l \in Int
    BY SMT
  <1> QED BY <1>2, <1>3, <1>4

\* Counted from r or from any later start of a period, the period of t is the
\* same.
LEMMA PeriodsAlign ==
    ASSUME NEW r \in Nat, NEW l \in Nat, l > 0, NEW k \in Int, NEW s \in Nat, NEW t \in Nat,
           s = r + k * l, s <= t, r <= s
    PROVE  s + ((t - s) \div l) * l = r + ((t - r) \div l) * l
  <1> DEFINE q == (t - s) \div l
  <1>1. t - s \in Nat /\ t - r \in Nat
    BY SMT
  <1>2. q \in Int /\ l * q <= t - s /\ t - s < l * q + l
    BY <1>1, SMT
  <1> HIDE DEF q
  <1>3. (k + q) * l = k * l + q * l /\ q * l = l * q /\ k * l \in Int /\ q * l \in Int
    BY <1>2, SMT
  <1>4. (k + q) * l <= t - r /\ t - r < (k + q) * l + l
    BY <1>1, <1>2, <1>3, SMT
  <1>5. (t - r) \div l = k + q
    <2> DEFINE x == t - r
    <2>1. x \in Nat /\ k + q \in Int /\ (k + q) * l <= x /\ x < (k + q) * l + l
      BY <1>1, <1>2, <1>4
    <2> HIDE DEF x
    <2>2. x \div l = k + q
      BY <2>1, QuotientIs
    <2> QED BY <2>2 DEF x
  <1>6. ((t - r) \div l) * l = k * l + q * l
    BY <1>3, <1>5
  <1> QED BY <1>3, <1>6 DEF q

-----------------------------------------------------------------------------
(* Sums.                                                                   *)

\* The element a sum takes first, and what it leaves.
Pick(s) == CHOOSE x \in s : TRUE
Rest(s) == s \ {Pick(s)}

\* g is the sum of f on every subset of T.
Sums(g, f, T) ==
    g = [s \in SUBSET T |-> IF s = {} THEN 0 ELSE f[Pick(s)] + g[Rest(s)]]

SumsUpTo(f, T) == CHOOSE g : Sums(g, f, T)

LEMMA PickIn == ASSUME NEW s, s # {} PROVE Pick(s) \in s /\ Rest(s) \subseteq s /\ Rest(s) # s
  <1>1. Pick(s) \in s
    BY DEF Pick
  <1> QED BY <1>1 DEF Rest

\* The library's sum is the value of that function at the set.
LEMMA SumIsSums == ASSUME NEW f, NEW T PROVE SumFunctionOnSet(f, T) = SumsUpTo(f, T)[T]
  BY DEF SumFunctionOnSet, FoldFunctionOnSet, MapThenFoldSet, SumsUpTo, Sums, Pick, Rest


\* A non-empty set of naturals has a least element.
LEMMA LeastNatural ==
    ASSUME NEW W, W \subseteq Nat, W # {}
    PROVE  \E d \in W : \A e \in W : ~(e < d)
  <1>1. PICK d \in W : \A e \in W : ~(<<e, d>> \in OpToRel(<, Nat))
    BY NatLessThanWellFounded, WFMin
  <1>2. \A e \in W : ~(e < d)
    BY <1>1 DEF OpToRel
  <1> QED BY <1>2

\* A non-empty set of subsets of a finite set has a smallest one.
LEMMA SmallestSubset ==
    ASSUME NEW D, IsFiniteSet(D), NEW W, W \subseteq SUBSET D, W # {}
    PROVE  \E s \in W : \A u \in W : ~(u \subseteq s /\ u # s)
  <1>1. FiniteSubsetsOf(D) = SUBSET D
    BY FS_FiniteSubsetsOfFinite
  <1>2. IsWellFoundedOn(StrictSubsetOrdering(D), SUBSET D)
    BY <1>1, FS_StrictSubsetOrderingWellFounded
  <1>3. PICK s \in W : \A u \in W : ~(<<u, s>> \in StrictSubsetOrdering(D))
    BY <1>2, WFMin
  <1> QED BY <1>3 DEF StrictSubsetOrdering

\* Two such functions agree wherever both are defined.
LEMMA SumsAgree ==
    ASSUME NEW D, IsFiniteSet(D), NEW T \in SUBSET D, NEW f, NEW g, NEW h,
           Sums(g, f, D), Sums(h, f, T)
    PROVE  \A s \in SUBSET T : g[s] = h[s]
  <1> DEFINE W == {s \in SUBSET T : g[s] # h[s]}
  <1>1. SUFFICES ASSUME W # {} PROVE FALSE
    OBVIOUS
  <1>2. PICK s \in W : \A u \in W : ~(u \subseteq s /\ u # s)
    <2>1. W \subseteq SUBSET D
      OBVIOUS
    <2> HIDE DEF W
    <2> QED BY <1>1, <2>1, SmallestSubset
  <1>3. s \in SUBSET T /\ s \in SUBSET D
    BY <1>2
  <1>4. g[s] = IF s = {} THEN 0 ELSE f[Pick(s)] + g[Rest(s)]
    BY <1>3 DEF Sums
  <1>5. h[s] = IF s = {} THEN 0 ELSE f[Pick(s)] + h[Rest(s)]
    BY <1>3 DEF Sums
  <1>6. s # {} => g[Rest(s)] = h[Rest(s)]
    BY <1>2, <1>3, PickIn
  <1> QED BY <1>2, <1>4, <1>5, <1>6

\* The recursion is well founded: on a finite set the function exists.
LEMMA SumsExist ==
    ASSUME NEW D, IsFiniteSet(D), NEW f
    PROVE  Sums(SumsUpTo(f, D), f, D)
  <1> DEFINE W == {s \in SUBSET D : ~ \E g : Sums(g, f, s)}
             S(s) == SumsUpTo(f, s)
             V(s) == S(s)[s]
  <1>1. SUFFICES \E g : Sums(g, f, D)
    BY DEF SumsUpTo
  <1>2. SUFFICES ASSUME W # {} PROVE FALSE
    OBVIOUS
  <1>3. PICK d \in W : \A u \in W : ~(u \subseteq d /\ u # d)
    <2>1. W \subseteq SUBSET D
      OBVIOUS
    <2> HIDE DEF W
    <2> QED BY <1>2, <2>1, SmallestSubset
  <1>4. \A u \in SUBSET d : u # d => Sums(S(u), f, u) /\ IsFiniteSet(u)
    <2>1. TAKE u \in SUBSET d
    <2>2. HAVE u # d
    <2>3. \E g : Sums(g, f, u)
      BY <1>3, <2>2
    <2>4. IsFiniteSet(u)
      BY <1>3, FS_Subset
    <2> QED BY <2>3, <2>4 DEF SumsUpTo
  <1>5. ASSUME NEW u \in SUBSET d, u # d
        PROVE  V(u) = IF u = {} THEN 0 ELSE f[Pick(u)] + V(Rest(u))
    <2>1. Sums(S(u), f, u) /\ IsFiniteSet(u)
      BY <1>4, <1>5
    <2>2. V(u) = IF u = {} THEN 0 ELSE f[Pick(u)] + S(u)[Rest(u)]
      <3> HIDE DEF S
      <3> QED BY <2>1 DEF Sums
    <2>3. CASE u # {}
      <3>1. Rest(u) \in SUBSET u /\ Rest(u) # u /\ Rest(u) \in SUBSET d /\ Rest(u) # d
        BY <2>3, PickIn
      <3>2. Sums(S(Rest(u)), f, Rest(u))
        BY <3>1, <1>4
      <3>3. S(u)[Rest(u)] = S(Rest(u))[Rest(u)]
        <4> HIDE DEF S
        <4> QED BY <2>1, <3>1, <3>2, SumsAgree
      <3> QED BY <2>2, <3>3
    <2> QED BY <2>2, <2>3
  <1> DEFINE h == [s \in SUBSET d |-> IF s = {} THEN 0 ELSE f[Pick(s)] + V(Rest(s))]
  <1>6. ASSUME NEW s \in SUBSET d, s # {} PROVE h[Rest(s)] = V(Rest(s))
    <2>1. Rest(s) \in SUBSET d /\ Rest(s) # d
      BY <1>6, PickIn
    <2> HIDE DEF V
    <2> QED BY <2>1, <1>5
  <1>7. h = [s \in SUBSET d |-> IF s = {} THEN 0 ELSE f[Pick(s)] + h[Rest(s)]]
    <2> HIDE DEF V
    <2>1. \A s \in SUBSET d : (IF s = {} THEN 0 ELSE f[Pick(s)] + V(Rest(s)))
                             = (IF s = {} THEN 0 ELSE f[Pick(s)] + h[Rest(s)])
      BY <1>6
    <2> QED BY <2>1
  <1>8. Sums(h, f, d)
    <2> HIDE DEF h
    <2> QED BY <1>7 DEF Sums
  <1> QED BY <1>3, <1>8

\* The sum over a finite set: what it takes first, and the sum of the rest.
LEMMA SumStep ==
    ASSUME NEW D, IsFiniteSet(D), NEW f
    PROVE  SumFunctionOnSet(f, D) =
              IF D = {} THEN 0 ELSE f[Pick(D)] + SumFunctionOnSet(f, Rest(D))
  <1> DEFINE S(s) == SumsUpTo(f, s)
  <1>1. Sums(S(D), f, D)
    BY SumsExist
  <1>2. S(D)[D] = IF D = {} THEN 0 ELSE f[Pick(D)] + S(D)[Rest(D)]
    <2> HIDE DEF S
    <2> QED BY <1>1 DEF Sums
  <1>3. CASE D # {}
    <2>1. Rest(D) \in SUBSET D
      BY <1>3, PickIn
    <2>2. IsFiniteSet(Rest(D))
      BY <2>1, FS_Subset
    <2>3. Sums(S(Rest(D)), f, Rest(D))
      BY <2>2, SumsExist
    <2>4. S(D)[Rest(D)] = S(Rest(D))[Rest(D)]
      <3> HIDE DEF S
      <3> QED BY <1>1, <2>1, <2>3, SumsAgree
    <2> QED BY <1>2, <1>3, <2>4, SumIsSums
  <1>4. CASE D = {}
    BY <1>2, <1>4, SumIsSums
  <1> QED BY <1>3, <1>4


\* What follows is by smallest counterexample among the subsets of the set.
LEMMA SumOfNothing == ASSUME NEW f PROVE SumFunctionOnSet(f, {}) = 0
  BY SumStep, FS_EmptySet

LEMMA SumOfEqual ==
    ASSUME NEW D, IsFiniteSet(D), NEW f, NEW g, \A x \in D : f[x] = g[x]
    PROVE  SumFunctionOnSet(f, D) = SumFunctionOnSet(g, D)
  <1> DEFINE W == {s \in SUBSET D : SumFunctionOnSet(f, s) # SumFunctionOnSet(g, s)}
  <1>1. SUFFICES ASSUME W # {} PROVE FALSE
    OBVIOUS
  <1>2. PICK s \in W : \A u \in W : ~(u \subseteq s /\ u # s)
    <2>1. W \subseteq SUBSET D
      OBVIOUS
    <2> HIDE DEF W
    <2> QED BY <1>1, <2>1, SmallestSubset
  <1>3. IsFiniteSet(s)
    BY <1>2, FS_Subset
  <1>4. s # {} => Pick(s) \in D /\ Rest(s) \in SUBSET D /\ Rest(s) \notin W
    BY <1>2, PickIn
  <1> QED BY <1>2, <1>3, <1>4, SumStep

LEMMA SumIsInt ==
    ASSUME NEW D, IsFiniteSet(D), NEW f, \A x \in D : f[x] \in Int
    PROVE  SumFunctionOnSet(f, D) \in Int
  <1> DEFINE W == {s \in SUBSET D : SumFunctionOnSet(f, s) \notin Int}
  <1>1. SUFFICES ASSUME W # {} PROVE FALSE
    OBVIOUS
  <1>2. PICK s \in W : \A u \in W : ~(u \subseteq s /\ u # s)
    <2>1. W \subseteq SUBSET D
      OBVIOUS
    <2> HIDE DEF W
    <2> QED BY <1>1, <2>1, SmallestSubset
  <1>3. IsFiniteSet(s)
    BY <1>2, FS_Subset
  <1>4. s # {} => Pick(s) \in D /\ Rest(s) \in SUBSET D /\ Rest(s) \notin W
    BY <1>2, PickIn
  <1> QED BY <1>2, <1>3, <1>4, SumStep

\* A sum may be taken in any order: any element can be the first.
LEMMA SumTakes ==
    ASSUME NEW D, IsFiniteSet(D), NEW f, \A x \in D : f[x] \in Int, NEW y \in D
    PROVE  SumFunctionOnSet(f, D) = f[y] + SumFunctionOnSet(f, D \ {y})
  <1> DEFINE S(s) == SumFunctionOnSet(f, s)
             W == {s \in SUBSET D : \E x \in s : S(s) # f[x] + S(s \ {x})}
  <1>1. SUFFICES ASSUME W # {} PROVE FALSE
    OBVIOUS
  <1>2. PICK s \in W : \A u \in W : ~(u \subseteq s /\ u # s)
    <2>1. W \subseteq SUBSET D
      OBVIOUS
    <2> HIDE DEF W
    <2> QED BY <1>1, <2>1, SmallestSubset
  <1>3. PICK x \in s : S(s) # f[x] + S(s \ {x})
    BY <1>2
  <1> DEFINE c == Pick(s)
  <1>4. c \in s /\ s \in SUBSET D /\ IsFiniteSet(s)
    BY <1>2, <1>3, PickIn, FS_Subset
  <1>5. S(s) = f[c] + S(s \ {c})
    BY <1>3, <1>4, SumStep DEF Rest
  <1>6. x # c
    BY <1>3, <1>5
  <1>7. ASSUME NEW a \in s, NEW b \in s, a # b
        PROVE  S(s \ {a}) = f[b] + S((s \ {a}) \ {b})
    <2>1. s \ {a} \in SUBSET D /\ s \ {a} \notin W /\ b \in s \ {a}
      BY <1>2, <1>4, <1>7
    <2> HIDE DEF S
    <2> QED BY <2>1
  <1>8. /\ S(s \ {c}) = f[x] + S((s \ {c}) \ {x})
        /\ S(s \ {x}) = f[c] + S((s \ {x}) \ {c})
    BY <1>4, <1>6, <1>7
  <1>9. S((s \ {c}) \ {x}) = S((s \ {x}) \ {c})
    <2>1. (s \ {c}) \ {x} = (s \ {x}) \ {c}
      OBVIOUS
    <2> HIDE DEF S
    <2> QED BY <2>1
  <1>10. f[x] \in Int /\ f[c] \in Int /\ S((s \ {x}) \ {c}) \in Int
    <2>1. (s \ {x}) \ {c} \in SUBSET D /\ IsFiniteSet((s \ {x}) \ {c})
      BY <1>4, FS_Subset
    <2> QED BY <2>1, <1>4, SumIsInt
  <1> QED
    <2> DEFINE lost == S(s \ {c})
               rest == S((s \ {x}) \ {c})
    <2>1. /\ S(s) = f[c] + lost /\ lost = f[x] + rest
          /\ S(s \ {x}) = f[c] + rest
      BY <1>5, <1>8, <1>9
    <2>2. S(s) # f[x] + (f[c] + rest)
      BY <1>3, <2>1
    <2> HIDE DEF lost, rest, S, W, c
    <2> QED BY <2>1, <2>2, <1>10 DEF rest

\* Adding an element adds its value.
LEMMA SumAdds ==
    ASSUME NEW D, IsFiniteSet(D), NEW f, NEW y, y \notin D,
           \A x \in D \cup {y} : f[x] \in Int
    PROVE  SumFunctionOnSet(f, D \cup {y}) = SumFunctionOnSet(f, D) + f[y]
  <1>1. IsFiniteSet(D \cup {y}) /\ (D \cup {y}) \ {y} = D
    BY FS_AddElement
  <1>2. SumFunctionOnSet(f, D \cup {y}) = f[y] + SumFunctionOnSet(f, D)
    BY <1>1, SumTakes
  <1>3. SumFunctionOnSet(f, D) \in Int
    BY SumIsInt
  <1> QED BY <1>2, <1>3


\* Changing the function at one place changes the sum by as much.
LEMMA SumChanges ==
    ASSUME NEW D, IsFiniteSet(D), NEW f, \A x \in D : f[x] \in Int, NEW y \in D,
           NEW g, g[y] \in Int, \A x \in D : x # y => g[x] = f[x]
    PROVE  /\ SumFunctionOnSet(f, D) \in Int
           /\ SumFunctionOnSet(g, D) = SumFunctionOnSet(f, D) - f[y] + g[y]
  <1> DEFINE rest == D \ {y}
  <1>1. \A x \in rest : g[x] = f[x]
    OBVIOUS
  <1>2. IsFiniteSet(rest) /\ rest \subseteq D
    BY FS_Subset
  <1> HIDE DEF rest
  <1>3. SumFunctionOnSet(g, rest) = SumFunctionOnSet(f, rest)
    BY <1>1, <1>2, SumOfEqual
  <1>4. /\ SumFunctionOnSet(f, rest) \in Int
        /\ SumFunctionOnSet(f, D) \in Int
    <2>1. \A x \in rest : f[x] \in Int
      BY <1>2
    <2> QED BY <1>2, <2>1, SumIsInt
  <1>5. SumFunctionOnSet(f, D) = f[y] + SumFunctionOnSet(f, rest)
    BY SumTakes DEF rest
  <1>6. SumFunctionOnSet(g, D) = g[y] + SumFunctionOnSet(g, rest)
    BY SumTakes DEF rest
  <1>7. f[y] \in Int
    OBVIOUS
  <1> QED BY <1>3, <1>4, <1>5, <1>6, <1>7



\* Induction over a finite set, by the set G of the subsets it has reached.
LEMMA SubsetInduction ==
    ASSUME NEW D, IsFiniteSet(D), NEW G, {} \in G,
           \A s \in SUBSET D : \A y \in s : s \ {y} \in G => s \in G
    PROVE  \A s \in SUBSET D : s \in G
  <1> DEFINE W == {s \in SUBSET D : s \notin G}
  <1>1. SUFFICES ASSUME W # {} PROVE FALSE
    OBVIOUS
  <1>2. PICK s \in W : \A u \in W : ~(u \subseteq s /\ u # s)
    <2>1. W \subseteq SUBSET D
      OBVIOUS
    <2> HIDE DEF W
    <2> QED BY <1>1, <2>1, SmallestSubset
  <1>3. PICK y \in s : TRUE
    BY <1>2
  <1>4. s \ {y} \in SUBSET D /\ s \ {y} \notin W
    BY <1>2, <1>3
  <1> QED BY <1>2, <1>3, <1>4

\* A sum of naturals is one, and at least each of its terms.
LEMMA SumIsNat ==
    ASSUME NEW D, IsFiniteSet(D), NEW f, \A x \in D : f[x] \in Nat
    PROVE  /\ SumFunctionOnSet(f, D) \in Nat
           /\ \A y \in D : f[y] <= SumFunctionOnSet(f, D)
  <1> DEFINE S(s) == SumFunctionOnSet(f, s)
             G == {s \in SUBSET D : S(s) \in Nat}
  <1>1. {} \in G
    BY SumOfNothing
  <1>2. ASSUME NEW s \in SUBSET D, NEW y \in s, s \ {y} \in G PROVE s \in G
    <2>1. IsFiniteSet(s) /\ \A x \in s : f[x] \in Int
      BY FS_Subset
    <2>2. S(s) = f[y] + S(s \ {y})
      BY <2>1, SumTakes
    <2>3. f[y] \in Nat /\ S(s \ {y}) \in Nat
      BY <1>2
    <2> QED BY <2>2, <2>3
  <1>3. \A s \in SUBSET D : s \in G
    <2> HIDE DEF G
    <2> QED BY <1>1, <1>2, SubsetInduction
  <1>4. ASSUME NEW y \in D PROVE f[y] <= S(D)
    <2>1. S(D) = f[y] + S(D \ {y})
      BY SumTakes
    <2>2. S(D \ {y}) \in Nat /\ f[y] \in Nat
      BY <1>3
    <2> QED BY <2>1, <2>2
  <1>5. S(D) \in Nat
    BY <1>3
  <1> QED BY <1>4, <1>5

\* Sums compare as their terms do, each side with its factor.
LEMMA SumsCompare ==
    ASSUME NEW D, IsFiniteSet(D), NEW f, NEW g, NEW a \in Int, NEW b \in Int,
           \A x \in D : f[x] \in Int /\ g[x] \in Int /\ a * f[x] <= b * g[x]
    PROVE  a * SumFunctionOnSet(f, D) <= b * SumFunctionOnSet(g, D)
  <1> DEFINE F(s) == SumFunctionOnSet(f, s)
             H(s) == SumFunctionOnSet(g, s)
             G == {s \in SUBSET D : a * F(s) <= b * H(s)}
  <1>1. {} \in G
    BY SumOfNothing
  <1>2. ASSUME NEW s \in SUBSET D, NEW y \in s, s \ {y} \in G PROVE s \in G
    <2>1. IsFiniteSet(s) /\ \A x \in s : f[x] \in Int /\ g[x] \in Int
      BY FS_Subset
    <2>2. F(s) = f[y] + F(s \ {y}) /\ H(s) = g[y] + H(s \ {y})
      BY <2>1, SumTakes
    <2>3. IsFiniteSet(s \ {y}) /\ \A x \in s \ {y} : f[x] \in Int /\ g[x] \in Int
      BY <2>1, FS_RemoveElement
    <2>4. PICK p \in Int, q \in Int, u \in Int, v \in Int :
            p = F(s \ {y}) /\ q = H(s \ {y}) /\ u = f[y] /\ v = g[y]
      BY <2>1, <2>3, SumIsInt
    <2>5. a * p <= b * q /\ a * u <= b * v
      BY <1>2, <2>4
    <2>6. a * (u + p) <= b * (v + q)
      BY <2>5
    <2>7. F(s) = u + p /\ H(s) = v + q
      BY <2>2, <2>4
    <2> QED BY <2>6, <2>7
  <1>3. \A s \in SUBSET D : s \in G
    <2> HIDE DEF G
    <2> QED BY <1>1, <1>2, SubsetInduction
  <1>4. D \in G
    <2> HIDE DEF G
    <2> QED BY <1>3
  <1> QED BY <1>4

\* A sum of sums, term by term.
LEMMA SumOfPairs ==
    ASSUME NEW D, IsFiniteSet(D), NEW f, NEW g, NEW h,
           \A x \in D : f[x] \in Int /\ g[x] \in Int /\ h[x] = f[x] + g[x]
    PROVE  SumFunctionOnSet(h, D) = SumFunctionOnSet(f, D) + SumFunctionOnSet(g, D)
  <1> DEFINE F(s) == SumFunctionOnSet(f, s)
             H(s) == SumFunctionOnSet(g, s)
             K(s) == SumFunctionOnSet(h, s)
             G == {s \in SUBSET D : K(s) = F(s) + H(s)}
  <1>1. {} \in G
    BY SumOfNothing
  <1>2. ASSUME NEW s \in SUBSET D, NEW y \in s, s \ {y} \in G PROVE s \in G
    <2>1. IsFiniteSet(s) /\ \A x \in s : f[x] \in Int /\ g[x] \in Int /\ h[x] \in Int
      BY FS_Subset
    <2>2. /\ F(s) = f[y] + F(s \ {y}) /\ H(s) = g[y] + H(s \ {y})
          /\ K(s) = h[y] + K(s \ {y})
      BY <2>1, SumTakes
    <2>3. IsFiniteSet(s \ {y}) /\ \A x \in s \ {y} : f[x] \in Int /\ g[x] \in Int
      BY <2>1, FS_RemoveElement
    <2>4. PICK p \in Int, q \in Int, u \in Int, v \in Int :
            p = F(s \ {y}) /\ q = H(s \ {y}) /\ u = f[y] /\ v = g[y]
      BY <2>1, <2>3, SumIsInt
    <2>5. K(s \ {y}) = p + q /\ h[y] = u + v
      BY <1>2, <2>4
    <2> QED BY <2>2, <2>4, <2>5
  <1>3. \A s \in SUBSET D : s \in G
    <2> HIDE DEF G
    <2> QED BY <1>1, <1>2, SubsetInduction
  <1>4. D \in G
    <2> HIDE DEF G
    <2> QED BY <1>3
  <1> QED BY <1>4

\* Counting: the sum of an indicator is the size of what it indicates.
LEMMA SumCounts ==
    ASSUME NEW D, IsFiniteSet(D), NEW B, B \subseteq D, NEW f,
           \A x \in D : f[x] = IF x \in B THEN 1 ELSE 0
    PROVE  SumFunctionOnSet(f, D) = Cardinality(B)
  <1> DEFINE F(s) == SumFunctionOnSet(f, s)
             C(s) == Cardinality(s \cap B)
             G == {s \in SUBSET D : F(s) = C(s)}
  <1>1. {} \in G
    <2>1. C({}) = 0
      BY FS_EmptySet
    <2> QED BY <2>1, SumOfNothing
  <1>2. ASSUME NEW s \in SUBSET D, NEW y \in s, s \ {y} \in G PROVE s \in G
    <2>1. IsFiniteSet(s) /\ \A x \in s : f[x] \in Int
      BY FS_Subset
    <2>2. F(s) = f[y] + F(s \ {y})
      BY <2>1, SumTakes
    <2>3. IsFiniteSet(s \cap B) /\ C(s) \in Nat
      BY <2>1, FS_Intersection, FS_CardinalityType
    <2>4. CASE y \in B
      <3>1. y \in s \cap B /\ (s \cap B) \ {y} = (s \ {y}) \cap B
        BY <2>4
      <3>2. C(s \ {y}) = C(s) - 1
        BY <2>3, <3>1, FS_RemoveElement
      <3> QED BY <1>2, <2>2, <2>3, <2>4, <3>2
    <2>5. CASE y \notin B
      <3>1. (s \ {y}) \cap B = s \cap B
        BY <2>5
      <3> QED BY <1>2, <2>2, <2>3, <2>5, <3>1
    <2> QED BY <2>4, <2>5
  <1>3. \A s \in SUBSET D : s \in G
    <2> HIDE DEF G
    <2> QED BY <1>1, <1>2, SubsetInduction
  <1>4. D \in G /\ D \cap B = B
    <2> HIDE DEF G
    <2> QED BY <1>3
  <1> QED BY <1>4


LEMMA SumOfZeros ==
    ASSUME NEW D, IsFiniteSet(D), NEW f, \A x \in D : f[x] = 0
    PROVE  SumFunctionOnSet(f, D) = 0
  <1>1. SumFunctionOnSet(f, D) = Cardinality({})
    BY SumCounts
  <1> QED BY <1>1, FS_EmptySet


\* Terms that are zero can be left out.
LEMMA SumOfSupport ==
    ASSUME NEW D, IsFiniteSet(D), NEW B, B \subseteq D, NEW f,
           \A x \in D : f[x] \in Int /\ (x \notin B => f[x] = 0)
    PROVE  SumFunctionOnSet(f, D) = SumFunctionOnSet(f, B)
  <1> DEFINE F(s) == SumFunctionOnSet(f, s)
             G == {s \in SUBSET D : F(s) = F(s \cap B)}
  <1>1. {} \in G
    OBVIOUS
  <1>2. ASSUME NEW s \in SUBSET D, NEW y \in s, s \ {y} \in G PROVE s \in G
    <2>1. IsFiniteSet(s) /\ \A x \in s : f[x] \in Int
      BY FS_Subset
    <2>2. F(s) = f[y] + F(s \ {y})
      BY <2>1, SumTakes
    <2>3. CASE y \in B
      <3>1. IsFiniteSet(s \cap B) /\ y \in s \cap B /\ (s \cap B) \ {y} = (s \ {y}) \cap B
        BY <2>1, <2>3, FS_Subset
      <3>2. F(s \cap B) = f[y] + F((s \cap B) \ {y})
        <4>1. \A x \in s \cap B : f[x] \in Int
          BY <2>1
        <4> QED BY <3>1, <4>1, SumTakes
      <3> QED BY <1>2, <2>2, <3>1, <3>2
    <2>4. CASE y \notin B
      <3>1. (s \ {y}) \cap B = s \cap B /\ f[y] = 0
        BY <2>4
      <3>2. IsFiniteSet(s \ {y}) /\ \A x \in s \ {y} : f[x] \in Int
        BY <2>1, FS_RemoveElement
      <3>3. F(s \ {y}) \in Int
        BY <3>2, SumIsInt
      <3>4. F(s \ {y}) = F(s \cap B)
        BY <1>2, <3>1
      <3> QED BY <2>2, <3>1, <3>3, <3>4
    <2> QED BY <2>3, <2>4
  <1>3. \A s \in SUBSET D : s \in G
    <2> HIDE DEF G
    <2> QED BY <1>1, <1>2, SubsetInduction
  <1>4. D \in G /\ D \cap B = B
    <2> HIDE DEF G
    <2> QED BY <1>3
  <1> QED BY <1>4
=============================================================================
