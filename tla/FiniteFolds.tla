---------------------------- MODULE FiniteFolds ----------------------------
(***************************************************************************)
(* What the folds of the community modules compute.  They go through a     *)
(* finite set by a recursive function, in an order that a CHOOSE settles,  *)
(* so nothing is known of them before that recursion is known to have a    *)
(* solution, and only one.  Proofs by induction go by the well-founded     *)
(* order of finite subsets: the induction rule below takes a set of sets   *)
(* instead of a predicate, and the recursion takes functions.              *)
(***************************************************************************)
EXTENDS Integers, Functions, FiniteSetTheorems, WellFoundedInduction, TLAPS

(* A set of sets has every finite subset of D when it has each one whose   *)
(* subsets with one element less it has.                                   *)
LEMMA FiniteInduction ==
  ASSUME NEW D, NEW Q,
         \A S \in FiniteSubsetsOf(D) : (\A x \in S : S \ {x} \in Q) => S \in Q
  PROVE  FiniteSubsetsOf(D) \subseteq Q
<1> SUFFICES ASSUME ~ (FiniteSubsetsOf(D) \subseteq Q)
             PROVE  FALSE
  OBVIOUS
<1> DEFINE T == FiniteSubsetsOf(D) \ Q
<1>1. T # {} /\ T \subseteq FiniteSubsetsOf(D)
  OBVIOUS
<1>2. IsWellFoundedOn(StrictSubsetOrdering(D), FiniteSubsetsOf(D))
  BY FS_StrictSubsetOrderingWellFounded
<1>3. PICK S \in T : \A U \in T : ~ (<<U, S>> \in StrictSubsetOrdering(D))
  <2> HIDE DEF T
  <2> QED BY <1>1, <1>2, WFMin
<1>4. ASSUME NEW x \in S
      PROVE  S \ {x} \in Q
  <2>1. S \in SUBSET D /\ IsFiniteSet(S)
    BY DEF FiniteSubsetsOf
  <2>2. S \ {x} \in FiniteSubsetsOf(D)
    BY <2>1, FS_RemoveElement DEF FiniteSubsetsOf
  <2>3. <<S \ {x}, S>> \in StrictSubsetOrdering(D)
    BY <2>1 DEF StrictSubsetOrdering
  <2> QED BY <1>3, <2>2, <2>3
<1> QED BY <1>4

-----------------------------------------------------------------------------
(* The recursion of a fold over S: c picks the next element of a set, F    *)
(* combines it with the result for the others, b is the result for none.   *)
Obeys(g, S, c, F, b) ==
  g = [s \in SUBSET S |->
         IF s = {} THEN b ELSE F[<<c[s], g[s \ {c[s]}]>>]]

Picks(c, D) == \A s \in SUBSET D : s # {} => c[s] \in s

LEMMA ObeysAt ==
  ASSUME NEW S, NEW c, NEW F, NEW b, NEW g, Obeys(g, S, c, F, b),
         NEW s \in SUBSET S
  PROVE  g[s] = IF s = {} THEN b ELSE F[<<c[s], g[s \ {c[s]}]>>]
BY DEF Obeys

LEMMA ObeysWhen ==
  ASSUME NEW S, NEW c, NEW F, NEW b, NEW g, g = [s \in SUBSET S |-> g[s]],
         \A s \in SUBSET S :
           g[s] = IF s = {} THEN b ELSE F[<<c[s], g[s \ {c[s]}]>>]
  PROVE  Obeys(g, S, c, F, b)
BY DEF Obeys

(* Two solutions agree wherever both are defined. *)
LEMMA FoldsAgree ==
  ASSUME NEW D, NEW c, Picks(c, D), NEW F, NEW b,
         NEW S \in FiniteSubsetsOf(D), NEW g, Obeys(g, S, c, F, b),
         NEW T \in FiniteSubsetsOf(D), NEW h, Obeys(h, T, c, F, b),
         NEW s \in SUBSET S, s \in SUBSET T
  PROVE  g[s] = h[s]
<1> DEFINE Q == {r \in SUBSET s : g[r] = h[r]}
<1>0. S \in SUBSET D /\ IsFiniteSet(S)
  BY DEF FiniteSubsetsOf
<1>1. ASSUME NEW r \in FiniteSubsetsOf(s), \A x \in r : r \ {x} \in Q
      PROVE  r \in Q
  <2>1. r \in SUBSET s /\ r \in SUBSET S /\ r \in SUBSET T
    BY DEF FiniteSubsetsOf
  <2>2. /\ g[r] = IF r = {} THEN b ELSE F[<<c[r], g[r \ {c[r]}]>>]
        /\ h[r] = IF r = {} THEN b ELSE F[<<c[r], h[r \ {c[r]}]>>]
    BY <2>1, ObeysAt
  <2>3. r # {} => g[r \ {c[r]}] = h[r \ {c[r]}]
    <3>1. r # {} => c[r] \in r
      BY <1>0, <2>1 DEF Picks
    <3> QED BY <1>1, <3>1
  <2> QED BY <2>1, <2>2, <2>3
<1>2. FiniteSubsetsOf(s) \subseteq Q
  <2> HIDE DEF Q
  <2> QED BY <1>1, FiniteInduction
<1>3. s \in FiniteSubsetsOf(s)
  BY <1>0, FS_Subset DEF FiniteSubsetsOf
<1> QED BY <1>2, <1>3

(* The values of a solution are in A when F keeps them there. *)
LEMMA FoldType ==
  ASSUME NEW D, NEW c, Picks(c, D), NEW F, NEW A, NEW b \in A,
         \A x \in D : \A a \in A : F[<<x, a>>] \in A,
         NEW S \in FiniteSubsetsOf(D), NEW g, Obeys(g, S, c, F, b),
         NEW s \in SUBSET S
  PROVE  g[s] \in A
<1> DEFINE Q == {r \in SUBSET S : g[r] \in A}
<1>0. S \in SUBSET D /\ IsFiniteSet(S)
  BY DEF FiniteSubsetsOf
<1>1. ASSUME NEW r \in FiniteSubsetsOf(S), \A x \in r : r \ {x} \in Q
      PROVE  r \in Q
  <2>1. r \in SUBSET S
    BY DEF FiniteSubsetsOf
  <2>2. g[r] = IF r = {} THEN b ELSE F[<<c[r], g[r \ {c[r]}]>>]
    BY <2>1, ObeysAt
  <2>3. r # {} => c[r] \in D /\ g[r \ {c[r]}] \in A
    <3>1. r # {} => c[r] \in r
      BY <1>0, <2>1 DEF Picks
    <3> QED BY <1>0, <1>1, <2>1, <3>1
  <2>4. g[r] \in A
    BY <2>2, <2>3
  <2> QED BY <2>1, <2>4
<1>2. FiniteSubsetsOf(S) \subseteq Q
  <2> HIDE DEF Q
  <2> QED BY <1>1, FiniteInduction
<1>3. s \in FiniteSubsetsOf(S)
  BY <1>0, FS_Subset DEF FiniteSubsetsOf
<1> QED BY <1>2, <1>3

(* A solution for S is one for every subset of S. *)
LEMMA FoldRestricts ==
  ASSUME NEW S, NEW c, NEW F, NEW b, NEW g, Obeys(g, S, c, F, b),
         NEW T \in SUBSET S, NEW h, h = [t \in SUBSET T |-> g[t]]
  PROVE  Obeys(h, T, c, F, b)
<1>1. ASSUME NEW t \in SUBSET T
      PROVE  h[t] = IF t = {} THEN b ELSE F[<<c[t], h[t \ {c[t]}]>>]
  <2>1. g[t] = IF t = {} THEN b ELSE F[<<c[t], g[t \ {c[t]}]>>]
    BY ObeysAt
  <2>2. t \ {c[t]} \in SUBSET T
    OBVIOUS
  <2> QED BY <2>1, <2>2
<1>2. h = [t \in SUBSET T |-> h[t]]
  OBVIOUS
<1> QED BY <1>1, <1>2, ObeysWhen

(* Every finite set has a solution: the values of the solutions for its    *)
(* proper subsets make one up, because they agree.                         *)
Solvable(S, c, F, b) == \E g : Obeys(g, S, c, F, b)

Value(s, c, F, b) == (CHOOSE g : Obeys(g, s, c, F, b))[s]

LEMMA ValueIs ==
  ASSUME NEW D, NEW c, Picks(c, D), NEW F, NEW b,
         NEW S \in FiniteSubsetsOf(D), NEW g, Obeys(g, S, c, F, b),
         NEW s \in SUBSET S
  PROVE  Value(s, c, F, b) = g[s]
<1>1. s \in FiniteSubsetsOf(D)
  BY FS_Subset DEF FiniteSubsetsOf
<1>2. PICK h : h = [t \in SUBSET s |-> g[t]]
  OBVIOUS
<1>3. Obeys(h, s, c, F, b)
  BY <1>2, FoldRestricts
<1>4. PICK k : k = CHOOSE i : Obeys(i, s, c, F, b)
  OBVIOUS
<1>5. Obeys(k, s, c, F, b)
  BY <1>3, <1>4, Zenon
<1>6. k[s] = g[s]
  BY <1>1, <1>5, FoldsAgree
<1> QED BY <1>4, <1>6 DEF Value

LEMMA FoldExists ==
  ASSUME NEW D, NEW c, Picks(c, D), NEW F, NEW b,
         NEW S \in FiniteSubsetsOf(D)
  PROVE  \E g : Obeys(g, S, c, F, b)
<1> DEFINE Q == {s \in SUBSET D : Solvable(s, c, F, b)}
<1>1. ASSUME NEW s \in FiniteSubsetsOf(D), \A x \in s : s \ {x} \in Q
      PROVE  s \in Q
  <2>0. s \in SUBSET D /\ IsFiniteSet(s)
    BY DEF FiniteSubsetsOf
  <2> DEFINE val(r) == Value(r, c, F, b)
             whole == IF s = {} THEN b ELSE F[<<c[s], val(s \ {c[s]})>>]
             h == [r \in SUBSET s |-> IF r = s THEN whole ELSE val(r)]
  <2>1. ASSUME NEW r \in SUBSET s, r # s
        PROVE  val(r) = IF r = {} THEN b ELSE F[<<c[r], val(r \ {c[r]})>>]
    <3>1. PICK x \in s : x \notin r
      BY <2>1
    <3>2. PICK g : Obeys(g, s \ {x}, c, F, b)
      BY <1>1, <3>1 DEF Solvable
    <3>3. s \ {x} \in FiniteSubsetsOf(D)
      BY <2>0, FS_RemoveElement DEF FiniteSubsetsOf
    <3>4. r \in SUBSET (s \ {x}) /\ r \ {c[r]} \in SUBSET (s \ {x})
      BY <2>1, <3>1
    <3>5. val(r) = g[r] /\ val(r \ {c[r]}) = g[r \ {c[r]}]
      BY <3>2, <3>3, <3>4, ValueIs
    <3>6. g[r] = IF r = {} THEN b ELSE F[<<c[r], g[r \ {c[r]}]>>]
      BY <3>2, <3>4, ObeysAt
    <3> QED BY <3>5, <3>6
  <2>2. ASSUME NEW r \in SUBSET s
        PROVE  h[r] = IF r = {} THEN b ELSE F[<<c[r], h[r \ {c[r]}]>>]
    <3>1. r # {} => c[r] \in r /\ r \ {c[r]} # s /\ r \ {c[r]} \in SUBSET s
      BY <2>0, <2>2 DEF Picks
    <3>2. r # {} => h[r \ {c[r]}] = val(r \ {c[r]})
      BY <3>1
    <3>3. CASE r = s
      BY <3>2, <3>3
    <3>4. CASE r # s
      <4>1. h[r] = val(r)
        BY <3>4
      <4> QED BY <2>1, <3>2, <3>4, <4>1
    <3> QED BY <3>3, <3>4
  <2>3. h = [r \in SUBSET s |-> h[r]]
    OBVIOUS
  <2> HIDE DEF h
  <2>4. Obeys(h, s, c, F, b)
    BY <2>2, <2>3, ObeysWhen
  <2> QED BY <2>0, <2>4 DEF Solvable
<1>2. FiniteSubsetsOf(D) \subseteq Q
  <2> HIDE DEF Q
  <2> QED BY <1>1, FiniteInduction
<1> QED BY <1>2 DEF Solvable

-----------------------------------------------------------------------------
(* SumFunctionOnSet, for functions with integer values. *)
Pick(s) == CHOOSE x \in s : TRUE

Adding(v, S) ==
  CHOOSE g : g = [s \in SUBSET S |->
                    IF s = {} THEN 0 ELSE v[Pick(s)] + g[s \ {Pick(s)}]]

LEMMA SumIsAdding ==
  ASSUME NEW v, NEW S
  PROVE  SumFunctionOnSet(v, S) = Adding(v, S)[S]
BY DEF SumFunctionOnSet, FoldFunctionOnSet, MapThenFoldSet, Adding, Pick

Summable(v) == \A x \in DOMAIN v : v[x] \in Int

LEMMA PickIn ==
  ASSUME NEW s, s # {}
  PROVE  Pick(s) \in s
BY DEF Pick

(* The sum's recursion as one of the above. *)
Picked(v) == [s \in SUBSET DOMAIN v |-> Pick(s)]
Plus(v) == [p \in (DOMAIN v) \X Int |-> v[p[1]] + p[2]]

LEMMA PlusIs ==
  ASSUME NEW v, Summable(v)
  PROVE  /\ Picks(Picked(v), DOMAIN v)
         /\ \A x \in DOMAIN v : \A n \in Int :
              Plus(v)[<<x, n>>] = v[x] + n /\ Plus(v)[<<x, n>>] \in Int
<1>1. Picks(Picked(v), DOMAIN v)
  BY PickIn DEF Picks, Picked
<1>2. ASSUME NEW x \in DOMAIN v, NEW n \in Int
      PROVE  Plus(v)[<<x, n>>] = v[x] + n /\ Plus(v)[<<x, n>>] \in Int
  BY DEF Plus, Summable
<1> QED BY <1>1, <1>2

(* What the general lemmas say of sums. *)
LEMMA PlusExists ==
  ASSUME NEW v, Summable(v), NEW S \in FiniteSubsetsOf(DOMAIN v)
  PROVE  \E g : Obeys(g, S, Picked(v), Plus(v), 0)
<1>1. Picks(Picked(v), DOMAIN v)
  BY PlusIs
<1> QED BY <1>1, FoldExists

LEMMA PlusType ==
  ASSUME NEW v, Summable(v), NEW S \in FiniteSubsetsOf(DOMAIN v),
         NEW g, Obeys(g, S, Picked(v), Plus(v), 0), NEW s \in SUBSET S
  PROVE  g[s] \in Int
<1>1. Picks(Picked(v), DOMAIN v)
  BY PlusIs
<1>2. 0 \in Int /\ \A x \in DOMAIN v : \A a \in Int : Plus(v)[<<x, a>>] \in Int
  BY PlusIs
<1> QED BY <1>1, <1>2, FoldType

LEMMA PlusAgrees ==
  ASSUME NEW v, Summable(v), NEW S \in FiniteSubsetsOf(DOMAIN v),
         NEW g, Obeys(g, S, Picked(v), Plus(v), 0),
         NEW T \in FiniteSubsetsOf(DOMAIN v),
         NEW h, Obeys(h, T, Picked(v), Plus(v), 0),
         NEW s \in SUBSET S, s \in SUBSET T
  PROVE  g[s] = h[s]
<1>1. Picks(Picked(v), DOMAIN v)
  BY PlusIs
<1> QED BY <1>1, FoldsAgree

LEMMA AddingObeys ==
  ASSUME NEW v, Summable(v), NEW S \in FiniteSubsetsOf(DOMAIN v)
  PROVE  Obeys(Adding(v, S), S, Picked(v), Plus(v), 0)
<1>0. S \in SUBSET DOMAIN v /\ IsFiniteSet(S)
  BY DEF FiniteSubsetsOf
<1>1. PICK h : Obeys(h, S, Picked(v), Plus(v), 0)
  BY PlusExists
<1>2. ASSUME NEW s \in SUBSET S
      PROVE  h[s] \in Int
  BY <1>1, PlusType
<1>3. ASSUME NEW s \in SUBSET S
      PROVE  h[s] = IF s = {} THEN 0 ELSE v[Pick(s)] + h[s \ {Pick(s)}]
  <2>1. h[s] = IF s = {} THEN 0
               ELSE Plus(v)[<<Picked(v)[s], h[s \ {Picked(v)[s]}]>>]
    BY <1>1, ObeysAt
  <2>2. Picked(v)[s] = Pick(s)
    BY <1>0 DEF Picked
  <2>3. CASE s = {}
    BY <2>1, <2>3
  <2>4. CASE s # {}
    <3>1. Pick(s) \in DOMAIN v
      BY <1>0, <2>4, PickIn
    <3>2. h[s \ {Pick(s)}] \in Int
      BY <1>2
    <3>3. Plus(v)[<<Pick(s), h[s \ {Pick(s)}]>>] = v[Pick(s)] + h[s \ {Pick(s)}]
      BY <3>1, <3>2, PlusIs
    <3> QED BY <2>1, <2>2, <2>4, <3>3
  <2> QED BY <2>3, <2>4
<1>4. h = [s \in SUBSET S |->
             IF s = {} THEN 0 ELSE v[Pick(s)] + h[s \ {Pick(s)}]]
  <2>1. h = [s \in SUBSET S |-> h[s]]
    BY <1>1 DEF Obeys
  <2> QED BY <1>3, <2>1
(* Adding is a solution of its own form, and so one of the general form. *)
<1>5. PICK g : g = Adding(v, S)
  OBVIOUS
<1>6. g = [s \in SUBSET S |->
             IF s = {} THEN 0 ELSE v[Pick(s)] + g[s \ {Pick(s)}]]
  BY <1>4, <1>5, Zenon DEF Adding
<1> DEFINE Q == {s \in SUBSET S : g[s] = h[s]}
<1>7. ASSUME NEW s \in FiniteSubsetsOf(S), \A x \in s : s \ {x} \in Q
      PROVE  s \in Q
  <2>1. s \in SUBSET S
    BY DEF FiniteSubsetsOf
  <2>2. g[s] = IF s = {} THEN 0 ELSE v[Pick(s)] + g[s \ {Pick(s)}]
    BY <1>6, <2>1
  <2>3. s # {} => g[s \ {Pick(s)}] = h[s \ {Pick(s)}]
    BY <1>7, PickIn
  <2> QED BY <1>3, <2>1, <2>2, <2>3
<1>8. FiniteSubsetsOf(S) \subseteq Q
  <2> HIDE DEF Q
  <2> QED BY <1>7, FiniteInduction
<1>9. ASSUME NEW s \in SUBSET S
      PROVE  g[s] = h[s]
  <2>1. s \in FiniteSubsetsOf(S)
    BY <1>0, FS_Subset DEF FiniteSubsetsOf
  <2> QED BY <1>8, <2>1
<1>10. g = h
  <2>1. g = [s \in SUBSET S |-> g[s]] /\ h = [s \in SUBSET S |-> h[s]]
    BY <1>1, <1>6 DEF Obeys
  <2> QED BY <1>9, <2>1
<1> QED BY <1>1, <1>5, <1>10

LEMMA SumOfNothing ==
  ASSUME NEW v, Summable(v)
  PROVE  SumFunctionOnSet(v, {}) = 0
<1>1. {} \in FiniteSubsetsOf(DOMAIN v)
  BY FS_EmptySet DEF FiniteSubsetsOf
<1>2. PICK g : g = Adding(v, {})
  OBVIOUS
<1>3. Obeys(g, {}, Picked(v), Plus(v), 0)
  BY <1>1, <1>2, AddingObeys
<1>4. g[{}] = 0
  BY <1>3 DEF Obeys
<1> QED BY <1>2, <1>4, SumIsAdding

LEMMA SumIsTotal ==
  ASSUME NEW v, Summable(v), NEW S \in FiniteSubsetsOf(DOMAIN v)
  PROVE  /\ SumFunctionOnSet(v, S) \in Int
         /\ S # {} => SumFunctionOnSet(v, S) =
                        v[Pick(S)] + SumFunctionOnSet(v, S \ {Pick(S)})
<1>0. S \in SUBSET DOMAIN v /\ IsFiniteSet(S)
  BY DEF FiniteSubsetsOf
<1>1. PICK g : g = Adding(v, S)
  OBVIOUS
<1>2. Obeys(g, S, Picked(v), Plus(v), 0)
  BY <1>1, AddingObeys
<1>3. \A s \in SUBSET S : g[s] \in Int
  BY <1>2, PlusType
<1>4. SumFunctionOnSet(v, S) = g[S]
  BY <1>1, SumIsAdding
<1>5. ASSUME S # {}
      PROVE  g[S] = v[Pick(S)] + SumFunctionOnSet(v, S \ {Pick(S)})
  <2>1. Pick(S) \in S /\ Pick(S) \in DOMAIN v /\ Picked(v)[S] = Pick(S)
    BY <1>0, <1>5, PickIn DEF Picked
  <2>2. S \ {Pick(S)} \in FiniteSubsetsOf(DOMAIN v)
    BY FS_RemoveElement DEF FiniteSubsetsOf
  <2>3. PICK h : h = Adding(v, S \ {Pick(S)})
    OBVIOUS
  <2>4. Obeys(h, S \ {Pick(S)}, Picked(v), Plus(v), 0)
    BY <2>2, <2>3, AddingObeys
  <2>5. g[S \ {Pick(S)}] = h[S \ {Pick(S)}]
    BY <1>2, <2>2, <2>4, PlusAgrees
  <2>6. SumFunctionOnSet(v, S \ {Pick(S)}) = h[S \ {Pick(S)}]
    BY <2>3, SumIsAdding
  <2>7. g[S] = Plus(v)[<<Pick(S), g[S \ {Pick(S)}]>>]
    BY <1>2, <1>5, <2>1, ObeysAt
  <2>8. g[S] = v[Pick(S)] + g[S \ {Pick(S)}]
    BY <1>3, <2>1, <2>7, PlusIs
  <2> QED BY <2>5, <2>6, <2>8
<1> QED BY <1>3, <1>4, <1>5

(* The order of adding up does not matter. *)
LEMMA SumWithout ==
  ASSUME NEW v, Summable(v), NEW S \in FiniteSubsetsOf(DOMAIN v), NEW x \in S
  PROVE  SumFunctionOnSet(v, S) = v[x] + SumFunctionOnSet(v, S \ {x})
<1> DEFINE Sum(s) == SumFunctionOnSet(v, s)
           Q == {s \in SUBSET DOMAIN v :
                   \A y \in s : Sum(s) = v[y] + Sum(s \ {y})}
<1>1. ASSUME NEW s \in FiniteSubsetsOf(DOMAIN v), \A y \in s : s \ {y} \in Q
      PROVE  s \in Q
  <2>0. s \in SUBSET DOMAIN v /\ IsFiniteSet(s)
    BY DEF FiniteSubsetsOf
  <2>1. ASSUME NEW y \in s
        PROVE  Sum(s) = v[y] + Sum(s \ {y})
    <3>1. PICK p \in s : p = Pick(s)
      BY PickIn
    <3>2. Sum(s) = v[p] + Sum(s \ {p})
      BY <3>1, SumIsTotal
    <3>3. CASE y = p
      BY <3>2, <3>3
    <3>4. CASE y # p
      <4>1. Sum(s \ {p}) = v[y] + Sum((s \ {p}) \ {y})
        BY <1>1, <3>4
      <4>2. Sum(s \ {y}) = v[p] + Sum((s \ {y}) \ {p})
        BY <1>1, <3>4
      <4>3. (s \ {p}) \ {y} = (s \ {y}) \ {p}
        OBVIOUS
      <4>4. (s \ {p}) \ {y} \in FiniteSubsetsOf(DOMAIN v)
        BY <2>0, FS_RemoveElement DEF FiniteSubsetsOf
      <4>5. /\ Sum((s \ {p}) \ {y}) \in Int
            /\ v[p] \in Int /\ v[y] \in Int
        BY <2>0, <4>4, SumIsTotal DEF Summable
      <4>6. Sum(s \ {y}) = v[p] + Sum((s \ {p}) \ {y})
        BY <4>2, <4>3, Zenon
      <4>7. PICK k \in Int : k = Sum((s \ {p}) \ {y})
        BY <4>5
      <4>8. Sum(s) = v[p] + (v[y] + k) /\ Sum(s \ {y}) = v[p] + k
        BY <3>2, <4>1, <4>6, <4>7, Zenon
      <4> HIDE DEF Sum
      <4> QED BY <4>5, <4>8
    <3> QED BY <3>3, <3>4
  <2> QED BY <2>0, <2>1
<1>2. FiniteSubsetsOf(DOMAIN v) \subseteq Q
  <2> HIDE DEF Q
  <2> QED BY <1>1, FiniteInduction
<1> QED BY <1>2

(* Only the values inside the set count. *)
LEMMA SumAgrees ==
  ASSUME NEW v, Summable(v), NEW w, Summable(w), DOMAIN v = DOMAIN w,
         NEW S \in FiniteSubsetsOf(DOMAIN v), \A x \in S : v[x] = w[x]
  PROVE  SumFunctionOnSet(v, S) = SumFunctionOnSet(w, S)
<1>0. S \in SUBSET DOMAIN v /\ IsFiniteSet(S)
  BY DEF FiniteSubsetsOf
<1> DEFINE Q == {s \in SUBSET S : SumFunctionOnSet(v, s) = SumFunctionOnSet(w, s)}
<1>1. ASSUME NEW s \in FiniteSubsetsOf(S), \A x \in s : s \ {x} \in Q
      PROVE  s \in Q
  <2>1. s \in SUBSET S /\ s \in FiniteSubsetsOf(DOMAIN v)
    BY <1>0 DEF FiniteSubsetsOf
  <2>2. CASE s = {}
    BY <2>1, <2>2, SumOfNothing
  <2>3. CASE s # {}
    <3>1. Pick(s) \in s
      BY <2>3, PickIn
    <3>2. SumFunctionOnSet(v, s \ {Pick(s)}) = SumFunctionOnSet(w, s \ {Pick(s)})
      BY <1>1, <3>1
    <3>3. SumFunctionOnSet(v, s) = v[Pick(s)] + SumFunctionOnSet(v, s \ {Pick(s)})
      BY <2>1, <2>3, SumIsTotal
    <3>4. SumFunctionOnSet(w, s) = w[Pick(s)] + SumFunctionOnSet(w, s \ {Pick(s)})
      BY <2>1, <2>3, SumIsTotal
    <3>5. v[Pick(s)] = w[Pick(s)]
      BY <2>1, <3>1
    <3> QED BY <2>1, <3>2, <3>3, <3>4, <3>5
  <2> QED BY <2>2, <2>3
<1>2. FiniteSubsetsOf(S) \subseteq Q
  <2> HIDE DEF Q
  <2> QED BY <1>1, FiniteInduction
<1>3. S \in FiniteSubsetsOf(S)
  BY <1>0 DEF FiniteSubsetsOf
<1> QED BY <1>2, <1>3

(* A value that grows by n makes the sum grow by n. *)
LEMMA SumGrows ==
  ASSUME NEW v, Summable(v), NEW S \in FiniteSubsetsOf(DOMAIN v), NEW x \in S,
         NEW w, Summable(w), DOMAIN v = DOMAIN w,
         NEW n \in Int, w[x] = v[x] + n, \A y \in S \ {x} : w[y] = v[y]
  PROVE  SumFunctionOnSet(w, S) = SumFunctionOnSet(v, S) + n
<1>1. S \ {x} \in FiniteSubsetsOf(DOMAIN v) /\ x \in DOMAIN v
  BY FS_RemoveElement DEF FiniteSubsetsOf
<1>2. SumFunctionOnSet(v, S \ {x}) = SumFunctionOnSet(w, S \ {x})
  BY <1>1, SumAgrees
<1>3. /\ SumFunctionOnSet(v, S) = v[x] + SumFunctionOnSet(v, S \ {x})
      /\ SumFunctionOnSet(w, S) = w[x] + SumFunctionOnSet(w, S \ {x})
  BY SumWithout
<1>4. v[x] \in Int /\ SumFunctionOnSet(v, S \ {x}) \in Int
  BY <1>1, SumIsTotal DEF Summable
<1> QED BY <1>2, <1>3, <1>4
=============================================================================
