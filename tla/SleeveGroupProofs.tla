-------------------------- MODULE SleeveGroupProofs --------------------------
(***************************************************************************)
(* What TLAPS proves of the sleeves that share an account, for any number  *)
(* of them, any capital, prices, sizings and envelope, and histories of    *)
(* any length.                                                             *)
(*                                                                         *)
(* Sums over finite sets come first, since every quantity of a sleeve is a *)
(* sum over its orders and every one of the group a sum over its sleeves.  *)
(* Then the fold: what one more order does to a ledger, and, by induction  *)
(* along the history, what the ledger of a whole history is.  Then what    *)
(* each kind of change (an order sent, recorded, cancelled or filled) does *)
(* to the sums, and last the steps of the model, one lemma an action.      *)
(* Induction is by minimal counterexample (WFMin and the well-founded      *)
(* orders of the library), which needs no operator as a parameter.         *)
(***************************************************************************)
EXTENDS SleeveGroup, FiniteSetTheorems, SequenceTheorems, WellFoundedInduction, TLAPS

-----------------------------------------------------------------------------
(* Induction over finite sets. *)

\* Among some subsets of a finite set there is a least one.
LEMMA LeastSubset ==
  ASSUME NEW S, IsFiniteSet(S), NEW Q \in SUBSET (SUBSET S), Q # {}
  PROVE  \E T \in Q : \A U \in SUBSET T : U # T => U \notin Q
  <1>1. FiniteSubsetsOf(S) = SUBSET S
    BY FS_FiniteSubsetsOfFinite, Zenon
  <1>2. Q \subseteq FiniteSubsetsOf(S) /\ Q # {}
    BY <1>1
  <1>3. IsWellFoundedOn(StrictSubsetOrdering(S), FiniteSubsetsOf(S))
    BY FS_StrictSubsetOrderingWellFounded
  <1>4. PICK T \in Q : \A U \in Q : ~(<<U, T>> \in StrictSubsetOrdering(S))
    BY <1>2, <1>3, WFMin, Zenon
  <1>5. ASSUME NEW U \in SUBSET T, U # T, U \in Q PROVE FALSE
    <2>1. U \in SUBSET S /\ T \in SUBSET S
      BY <1>4, <1>5
    <2>2. <<U, T>> \in StrictSubsetOrdering(S)
      BY <1>5, <2>1 DEF StrictSubsetOrdering
    <2> QED
      BY <1>4, <1>5, <2>2
  <1> QED
    BY <1>4, <1>5

\* Induction over the subsets of a finite set.
LEMMA SubsetInduction ==
  ASSUME NEW S, IsFiniteSet(S), NEW G,
         \A T \in SUBSET S : (\A U \in SUBSET T : U # T => U \in G) => T \in G
  PROVE  SUBSET S \subseteq G
  <1> DEFINE bad == {T \in SUBSET S : T \notin G}
  <1>1. ASSUME bad # {} PROVE FALSE
    <2>1. PICK T \in bad : \A U \in SUBSET T : U # T => U \notin bad
      <3>1. bad \in SUBSET (SUBSET S) /\ bad # {}
        BY <1>1
      <3> HIDE DEF bad
      <3> QED
        BY <3>1, LeastSubset
    <2>2. ASSUME NEW U \in SUBSET T, U # T PROVE U \in G
      BY <2>1, <2>2
    <2> QED
      BY <2>1, <2>2
  <1> QED
    BY <1>1

\* The functions on the subsets of S that a recursion from base defines: it
\* takes the element c[T] out of T and adds it with step.
Choice(S, c) == \A T \in SUBSET S : T # {} => c[T] \in T
Stepwise(S, D, step) == \A x \in S, y \in D : step[x][y] \in D
Solutions(S, D, base, c, step) ==
    {g \in [SUBSET S -> D] : \A T \in SUBSET S :
        g[T] = IF T = {} THEN base ELSE step[c[T]][g[T \ {c[T]}]]}
LEMMA Recursion ==
  ASSUME NEW S, IsFiniteSet(S), NEW D, NEW base \in D, NEW c, NEW step,
         Choice(S, c), Stepwise(S, D, step)
  PROVE  Solutions(S, D, base, c, step) # {}
  <1> USE DEF Choice, Stepwise
  <1> DEFINE Eq(g, U) == g[U] = IF U = {} THEN base ELSE step[c[U]][g[U \ {c[U]}]]
             Sol(T) == {g \in [SUBSET T -> D] : \A U \in SUBSET T : Eq(g, U)}
  <1>1. ASSUME NEW T1 \in SUBSET S, NEW T2 \in SUBSET S, NEW g1 \in Sol(T1), NEW g2 \in Sol(T2),
               NEW U \in SUBSET T1, U \in SUBSET T2
        PROVE  g1[U] = g2[U]
    <2> DEFINE G == {V \in SUBSET S : V \subseteq T1 /\ V \subseteq T2 => g1[V] = g2[V]}
    <2>1. ASSUME NEW V \in SUBSET S, \A W \in SUBSET V : W # V => W \in G
          PROVE  V \in G
      <3> SUFFICES ASSUME V \subseteq T1, V \subseteq T2 PROVE g1[V] = g2[V]
        OBVIOUS
      <3>1. Eq(g1, V) /\ Eq(g2, V)
        OBVIOUS
      <3>2. CASE V = {}
        BY <3>1, <3>2
      <3>3. CASE V # {}
        <4> DEFINE W == V \ {c[V]}
        <4>1. c[V] \in V
          BY <3>3
        <4>2. W \in SUBSET V /\ W # V
          BY <4>1
        <4>3. g1[W] = g2[W]
          BY <2>1, <4>2
        <4> QED
          BY <3>1, <3>3, <4>3
      <3> QED
        BY <3>2, <3>3
    <2>2. SUBSET S \subseteq G
      <3> HIDE DEF G
      <3> QED
        BY <2>1, SubsetInduction
    <2> QED
      BY <1>1, <2>2
  <1> DEFINE G == {T \in SUBSET S : Sol(T) # {}}
  <1>2. ASSUME NEW T \in SUBSET S, \A U \in SUBSET T : U # T => U \in G
        PROVE  T \in G
    <2> DEFINE h(U) == CHOOSE g \in Sol(U) : TRUE
               v(U) == h(U)[U]
               top == IF T = {} THEN base ELSE step[c[T]][v(T \ {c[T]})]
               g == [U \in SUBSET T |-> IF U = T THEN top ELSE v(U)]
    <2>1. \A U \in SUBSET T : U # T => h(U) \in Sol(U)
      BY <1>2
    <2>2. \A U \in SUBSET T : U # T => v(U) \in D
      BY <2>1
    <2>3. T # {} => T \ {c[T]} \in SUBSET T /\ T \ {c[T]} # T /\ c[T] \in S
      <3>1. T # {} => c[T] \in T
        OBVIOUS
      <3> QED
        BY <3>1
    <2>4. top \in D
      <3> HIDE DEF v
      <3> QED
        BY <2>2, <2>3
    <2>5. g \in [SUBSET T -> D]
      <3> HIDE DEF top, v
      <3> QED
        BY <2>2, <2>4
    <2>6. ASSUME NEW U \in SUBSET T PROVE Eq(g, U)
      <3>1. CASE U = T
        <4>1. g[T] = top /\ (T # {} => g[T \ {c[T]}] = v(T \ {c[T]}))
          <5> HIDE DEF top, v
          <5> QED
            BY <2>3
        <4> HIDE DEF g, v
        <4> QED
          BY <3>1, <4>1
      <3>2. CASE U # T
        <4> DEFINE W == U \ {c[U]}
        <4>1. g[U] = v(U) /\ h(U) \in Sol(U) /\ U \in SUBSET S
          <5>1. g[U] = v(U)
            <6> HIDE DEF v, top
            <6> QED
              BY <3>2
          <5> QED
            BY <2>1, <3>2, <5>1
        <4>2. Eq(h(U), U)
          BY <4>1
        <4>3. CASE U = {}
          <5> HIDE DEF g, h
          <5> QED
            BY <4>1, <4>2, <4>3
        <4>4. CASE U # {}
          <5>1. c[U] \in U /\ W \in SUBSET U /\ W \in SUBSET T /\ W # T /\ W \in SUBSET S
            BY <3>2, <4>1, <4>4
          <5>2. g[W] = v(W)
            <6> HIDE DEF v, top, W
            <6> QED
              BY <5>1
          <5>3. h(W) \in Sol(W)
            BY <2>1, <5>1
          <5>4. h(U)[W] = h(W)[W]
            <6> HIDE DEF h, Sol, W
            <6> QED
              BY <1>1, <4>1, <5>1, <5>3
          <5> HIDE DEF g, h
          <5> QED
            BY <4>1, <4>2, <4>4, <5>2, <5>4
        <4> QED
          BY <4>3, <4>4
      <3> QED
        BY <3>1, <3>2
    <2>7. g \in Sol(T)
      <3> HIDE DEF g
      <3> QED
        BY <2>5, <2>6
    <2> HIDE DEF g, Sol
    <2> QED
      BY <2>7
  <1>3. SUBSET S \subseteq G
    <2> HIDE DEF G
    <2> QED
      BY <1>2, SubsetInduction
  <1>4. PICK g : g \in Sol(S)
    BY <1>3
  <1> QED
    BY <1>4 DEF Solutions

-----------------------------------------------------------------------------
(* Sums over finite sets. *)

\* The recursion that the library defines a sum over a finite set by.
LEMMA SumUnfold ==
  ASSUME NEW f, NEW T
  PROVE  SumFunctionOnSet(f, T) =
            (CHOOSE iter : iter = [s \in SUBSET T |->
                IF s = {} THEN 0
                ELSE f[CHOOSE x \in s : TRUE] + iter[s \ {CHOOSE x \in s : TRUE}]])[T]
  BY Zenon DEF SumFunctionOnSet, FoldFunctionOnSet, MapThenFoldSet

\* The sums over all subsets of a finite set are defined together.
LEMMA SumsOf ==
  ASSUME NEW T, IsFiniteSet(T), NEW f, \A i \in T : f[i] \in Int
  PROVE  /\ \A V \in SUBSET T : SumFunctionOnSet(f, V) \in Int
         /\ SumFunctionOnSet(f, {}) = 0
         /\ \A V \in SUBSET T : V # {} => \E x \in V :
                SumFunctionOnSet(f, V) = f[x] + SumFunctionOnSet(f, V \ {x})
  <1> DEFINE c == [V \in SUBSET T |-> CHOOSE x \in V : TRUE]
             step == [x \in T |-> [y \in Int |-> f[x] + y]]
  <1>1. PICK g \in [SUBSET T -> Int] : \A V \in SUBSET T :
            g[V] = IF V = {} THEN 0 ELSE step[c[V]][g[V \ {c[V]}]]
    <2>1. Choice(T, c) /\ Stepwise(T, Int, step)
      BY DEF Choice, Stepwise
    <2>2. 0 \in Int
      OBVIOUS
    <2> HIDE DEF c, step
    <2>3. Solutions(T, Int, 0, c, step) # {}
      BY <2>1, <2>2, Recursion
    <2> QED
      BY <2>3 DEF Solutions
  <1> DEFINE pick(V) == CHOOSE x \in V : TRUE
  <1>2. \A V \in SUBSET T : g[V] = IF V = {} THEN 0 ELSE f[pick(V)] + g[V \ {pick(V)}]
    <2> SUFFICES ASSUME NEW V \in SUBSET T, V # {} PROVE g[V] = f[pick(V)] + g[V \ {pick(V)}]
      BY <1>1
    <2>1. c[V] = pick(V) /\ pick(V) \in V
      OBVIOUS
    <2> HIDE DEF pick, c
    <2>2. g[V \ {pick(V)}] \in Int
      OBVIOUS
    <2> QED
      BY <1>1, <2>1, <2>2
  <1>3. ASSUME NEW V \in SUBSET T PROVE SumFunctionOnSet(f, V) = g[V]
    <2> DEFINE Eq(h) == h = [s \in SUBSET V |-> IF s = {} THEN 0 ELSE f[pick(s)] + h[s \ {pick(s)}]]
               r == [s \in SUBSET V |-> g[s]]
               iter == CHOOSE h : Eq(h)
    <2>1. \A s \in SUBSET V : s # {} => pick(s) \in s /\ s \ {pick(s)} \in SUBSET V
                                        /\ s \ {pick(s)} # s
      OBVIOUS
    <2>2. Eq(r)
      <3> HIDE DEF pick
      <3>1. \A s \in SUBSET V : r[s] = IF s = {} THEN 0 ELSE f[pick(s)] + r[s \ {pick(s)}]
        BY <1>2, <2>1
      <3> QED
        BY <3>1
    <2>3. Eq(iter)
      <3> HIDE DEF Eq, r
      <3> QED
        BY <2>2
    <2> HIDE DEF iter, pick
    <2> DEFINE G == {s \in SUBSET V : iter[s] = g[s]}
    <2>4. SUBSET V \subseteq G
      <3>1. IsFiniteSet(V)
        BY FS_Subset
      <3>2. ASSUME NEW s \in SUBSET V, \A u \in SUBSET s : u # s => u \in G PROVE s \in G
        <4>1. CASE s = {}
          BY <1>2, <2>3, <4>1
        <4>2. CASE s # {}
          <5> DEFINE w == s \ {pick(s)}
          <5>1. w \in SUBSET s /\ w # s
            BY <2>1, <4>2
          <5>2. iter[w] = g[w]
            BY <3>2, <5>1
          <5>3. iter[s] = f[pick(s)] + iter[w] /\ g[s] = f[pick(s)] + g[w]
            BY <1>2, <2>3, <4>2
          <5> QED
            BY <5>2, <5>3
        <4> QED
          BY <4>1, <4>2
      <3> HIDE DEF G, Eq
      <3> QED
        BY <3>1, <3>2, SubsetInduction
    <2>5. SumFunctionOnSet(f, V) = iter[V]
      BY SumUnfold, Zenon DEF iter, pick
    <2> QED
      BY <2>4, <2>5
  <1>4. ASSUME NEW V \in SUBSET T, V # {}
        PROVE  \E x \in V : SumFunctionOnSet(f, V) = f[x] + SumFunctionOnSet(f, V \ {x})
    <2>1. pick(V) \in V
      BY <1>4
    <2> HIDE DEF pick
    <2>2. V \ {pick(V)} \in SUBSET T
      OBVIOUS
    <2> QED
      BY <1>2, <1>3, <1>4, <2>1, <2>2
  <1>5. SumFunctionOnSet(f, {}) = 0
    <2>1. {} \in SUBSET T
      OBVIOUS
    <2> HIDE DEF pick
    <2> QED
      BY <1>2, <1>3, <2>1
  <1> QED
    BY <1>3, <1>4, <1>5

\* Any element may be taken out of a sum.
LEMMA SumTake ==
  ASSUME NEW T, IsFiniteSet(T), NEW f, \A i \in T : f[i] \in Int, NEW x \in T
  PROVE  /\ SumFunctionOnSet(f, T) \in Int /\ SumFunctionOnSet(f, T \ {x}) \in Int
         /\ SumFunctionOnSet(f, T) = f[x] + SumFunctionOnSet(f, T \ {x})
  <1> DEFINE Sum(V) == SumFunctionOnSet(f, V)
             G == {V \in SUBSET T : \A z \in V : Sum(V) = f[z] + Sum(V \ {z})}
  <1>1. /\ \A V \in SUBSET T : Sum(V) \in Int
        /\ \A V \in SUBSET T : V # {} => \E z \in V : Sum(V) = f[z] + Sum(V \ {z})
    BY SumsOf
  <1>2. ASSUME NEW V \in SUBSET T, \A U \in SUBSET V : U # V => U \in G PROVE V \in G
    <2> SUFFICES ASSUME NEW z \in V PROVE Sum(V) = f[z] + Sum(V \ {z})
      OBVIOUS
    <2>1. PICK p \in V : Sum(V) = f[p] + Sum(V \ {p})
      BY <1>1
    <2>2. CASE p = z
      BY <2>1, <2>2
    <2>3. CASE p # z
      <3> DEFINE vp == V \ {p}
                 vz == V \ {z}
                 rest == V \ {p, z}
      <3>1. /\ vp \in G /\ vz \in G /\ z \in vp /\ p \in vz
            /\ vp \ {z} = rest /\ vz \ {p} = rest /\ rest \in SUBSET T
        BY <1>2, <2>3
      <3>2. Sum(vp) = f[z] + Sum(rest) /\ Sum(vz) = f[p] + Sum(rest)
        BY <3>1
      <3>3. f[p] \in Int /\ f[z] \in Int /\ Sum(rest) \in Int
        BY <1>1, <3>1
      <3> HIDE DEF Sum
      <3> QED
        BY <2>1, <3>2, <3>3
    <2> QED
      BY <2>2, <2>3
  <1>3. SUBSET T \subseteq G
    <2> HIDE DEF G
    <2> QED
      BY <1>2, SubsetInduction
  <1> QED
    BY <1>1, <1>3

\* Sums of integers are integers.
LEMMA SumInt ==
  ASSUME NEW T, IsFiniteSet(T), NEW f, \A i \in T : f[i] \in Int
  PROVE  SumFunctionOnSet(f, T) \in Int
  BY SumsOf

\* Sums over nothing.
LEMMA SumNone == \A f : SumFunctionOnSet(f, {}) = 0
  BY SumsOf, FS_EmptySet

\* Induction over the elements of a finite set, one at a time.
LEMMA ElementInduction ==
  ASSUME NEW S, IsFiniteSet(S), NEW G, {} \in G,
         \A T \in SUBSET S : \A x \in T : T \ {x} \in G => T \in G
  PROVE  S \in G
  <1>1. ASSUME NEW T \in SUBSET S, \A U \in SUBSET T : U # T => U \in G PROVE T \in G
    <2>1. CASE T = {}
      BY <2>1
    <2>2. CASE T # {}
      <3>1. PICK x \in T : TRUE
        BY <2>2
      <3>2. T \ {x} \in SUBSET T /\ T \ {x} # T
        OBVIOUS
      <3> QED
        BY <1>1, <3>2
    <2> QED
      BY <2>1, <2>2
  <1> QED
    BY <1>1, SubsetInduction

\* The sum of a sum.
LEMMA SumAdd ==
  ASSUME NEW T, IsFiniteSet(T), NEW f, NEW g, NEW h,
         \A i \in T : f[i] \in Int /\ g[i] \in Int /\ h[i] = f[i] + g[i]
  PROVE  SumFunctionOnSet(h, T) = SumFunctionOnSet(f, T) + SumFunctionOnSet(g, T)
  <1> DEFINE G == {V \in SUBSET T :
                    SumFunctionOnSet(h, V) = SumFunctionOnSet(f, V) + SumFunctionOnSet(g, V)}
  <1>1. {} \in G
    BY SumNone
  <1>2. ASSUME NEW V \in SUBSET T, NEW x \in V, V \ {x} \in G PROVE V \in G
    <2> DEFINE U == V \ {x}
    <2>1. IsFiniteSet(V)
      BY FS_Subset
    <2>2. \A i \in V : f[i] \in Int /\ g[i] \in Int /\ h[i] \in Int /\ h[i] = f[i] + g[i]
      OBVIOUS
    <2>3. /\ SumFunctionOnSet(f, V) = f[x] + SumFunctionOnSet(f, U) /\ SumFunctionOnSet(f, U) \in Int
          /\ SumFunctionOnSet(g, V) = g[x] + SumFunctionOnSet(g, U) /\ SumFunctionOnSet(g, U) \in Int
          /\ SumFunctionOnSet(h, V) = h[x] + SumFunctionOnSet(h, U)
      BY <2>1, <2>2, SumTake
    <2>4. SumFunctionOnSet(h, U) = SumFunctionOnSet(f, U) + SumFunctionOnSet(g, U)
      BY <1>2
    <2>5. h[x] = f[x] + g[x] /\ f[x] \in Int /\ g[x] \in Int
      BY <2>2
    <2> HIDE DEF U
    <2>6. SumFunctionOnSet(h, V) = SumFunctionOnSet(f, V) + SumFunctionOnSet(g, V)
      BY <2>3, <2>4, <2>5
    <2> QED
      BY <2>6
  <1>3. T \in G
    <2> HIDE DEF G
    <2> QED
      BY <1>1, <1>2, ElementInduction
  <1> QED
    BY <1>3

\* A sum is monotone.
LEMMA SumLeq ==
  ASSUME NEW T, IsFiniteSet(T), NEW f, NEW g,
         \A i \in T : f[i] \in Int /\ g[i] \in Int /\ f[i] <= g[i]
  PROVE  SumFunctionOnSet(f, T) <= SumFunctionOnSet(g, T)
  <1> DEFINE G == {V \in SUBSET T : SumFunctionOnSet(f, V) <= SumFunctionOnSet(g, V)}
  <1>1. {} \in G
    BY SumNone
  <1>2. ASSUME NEW V \in SUBSET T, NEW x \in V, V \ {x} \in G PROVE V \in G
    <2> DEFINE U == V \ {x}
    <2>1. IsFiniteSet(V)
      BY FS_Subset
    <2>2. \A i \in V : f[i] \in Int /\ g[i] \in Int /\ f[i] <= g[i]
      OBVIOUS
    <2>3. /\ SumFunctionOnSet(f, V) = f[x] + SumFunctionOnSet(f, U) /\ SumFunctionOnSet(f, U) \in Int
          /\ SumFunctionOnSet(g, V) = g[x] + SumFunctionOnSet(g, U) /\ SumFunctionOnSet(g, U) \in Int
      BY <2>1, <2>2, SumTake
    <2>4. SumFunctionOnSet(f, U) <= SumFunctionOnSet(g, U)
      BY <1>2
    <2>5. f[x] <= g[x] /\ f[x] \in Int /\ g[x] \in Int
      BY <2>2
    <2> HIDE DEF U
    <2>6. SumFunctionOnSet(f, V) <= SumFunctionOnSet(g, V)
      BY <2>3, <2>4, <2>5
    <2> QED
      BY <2>6
  <1>3. T \in G
    <2> HIDE DEF G
    <2> QED
      BY <1>1, <1>2, ElementInduction
  <1> QED
    BY <1>3

\* Only the elements summed matter.
LEMMA SumSame ==
  ASSUME NEW T, IsFiniteSet(T), NEW f, NEW g, \A i \in T : f[i] \in Int /\ g[i] = f[i]
  PROVE  SumFunctionOnSet(g, T) = SumFunctionOnSet(f, T)
  <1>1. \A i \in T : f[i] \in Int /\ g[i] \in Int /\ f[i] <= g[i] /\ g[i] <= f[i]
    OBVIOUS
  <1>2. SumFunctionOnSet(f, T) <= SumFunctionOnSet(g, T) /\ SumFunctionOnSet(g, T) <= SumFunctionOnSet(f, T)
    BY <1>1, SumLeq
  <1>3. SumFunctionOnSet(f, T) \in Int /\ SumFunctionOnSet(g, T) \in Int
    BY <1>1, SumInt
  <1> QED
    BY <1>2, <1>3

\* A sum of which only the element x changes.
OneChange(f, g, T, x) == \A i \in T : f[i] \in Int /\ g[i] \in Int /\ (i # x => g[i] = f[i])
LEMMA SumChange ==
  ASSUME NEW T, IsFiniteSet(T), NEW f, NEW g, NEW x \in T, OneChange(f, g, T, x)
  PROVE  SumFunctionOnSet(g, T) = SumFunctionOnSet(f, T) + (g[x] - f[x])
  <1>0. \A i \in T : f[i] \in Int /\ g[i] \in Int /\ (i # x => g[i] = f[i])
    BY DEF OneChange
  <1> DEFINE U == T \ {x}
  <1>1. IsFiniteSet(U)
    BY FS_Subset
  <1>2. SumFunctionOnSet(g, U) = SumFunctionOnSet(f, U)
    <2>1. \A i \in U : f[i] \in Int /\ g[i] = f[i]
      BY <1>0
    <2> HIDE DEF U
    <2> QED
      BY <1>1, <2>1, SumSame
  <1>3. /\ SumFunctionOnSet(f, T) = f[x] + SumFunctionOnSet(f, U) /\ SumFunctionOnSet(f, U) \in Int
        /\ SumFunctionOnSet(g, T) = g[x] + SumFunctionOnSet(g, U)
    BY <1>0, SumTake
  <1>4. f[x] \in Int /\ g[x] \in Int
    BY <1>0
  <1> HIDE DEF U
  <1> QED
    BY <1>2, <1>3, <1>4

\* Elements of no weight may be left out.
LEMMA SumSupport ==
  ASSUME NEW T, IsFiniteSet(T), NEW f, NEW Z \in SUBSET T,
         \A i \in T : f[i] \in Int /\ (i \notin Z => f[i] = 0)
  PROVE  SumFunctionOnSet(f, T) = SumFunctionOnSet(f, Z)
  <1> DEFINE G == {V \in SUBSET T : SumFunctionOnSet(f, V) = SumFunctionOnSet(f, V \cap Z)}
  <1>1. {} \in G
    <2>1. {} \cap Z = {}
      OBVIOUS
    <2> QED
      BY <2>1, SumNone
  <1>2. ASSUME NEW V \in SUBSET T, NEW x \in V, V \ {x} \in G PROVE V \in G
    <2> DEFINE U == V \ {x}
    <2>1. IsFiniteSet(V) /\ IsFiniteSet(V \cap Z) /\ \A i \in V : f[i] \in Int
      <3>1. V \cap Z \in SUBSET T
        OBVIOUS
      <3> QED
        BY <3>1, FS_Subset
    <2>2. SumFunctionOnSet(f, V) = f[x] + SumFunctionOnSet(f, U) /\ SumFunctionOnSet(f, U) \in Int
      BY <2>1, SumTake
    <2>3. SumFunctionOnSet(f, U) = SumFunctionOnSet(f, U \cap Z)
      BY <1>2
    <2>4. CASE x \in Z
      <3>1. (V \cap Z) \ {x} = U \cap Z /\ x \in V \cap Z /\ \A i \in V \cap Z : f[i] \in Int
        BY <2>4
      <3>2. SumFunctionOnSet(f, V \cap Z) = f[x] + SumFunctionOnSet(f, (V \cap Z) \ {x})
        <4> DEFINE W == V \cap Z
        <4>1. IsFiniteSet(W) /\ x \in W /\ \A i \in W : f[i] \in Int
          BY <2>1, <3>1
        <4> HIDE DEF W
        <4>2. SumFunctionOnSet(f, W) = f[x] + SumFunctionOnSet(f, W \ {x})
          BY <4>1, SumTake
        <4> QED
          BY <4>2 DEF W
      <3>3. SumFunctionOnSet(f, V) = SumFunctionOnSet(f, V \cap Z)
        <4> HIDE DEF U
        <4> QED
          BY <2>2, <2>3, <3>1, <3>2
      <3> QED
        BY <3>3
    <2>5. CASE x \notin Z
      <3>1. U \cap Z = V \cap Z /\ f[x] = 0
        BY <2>5
      <3>2. SumFunctionOnSet(f, V) = SumFunctionOnSet(f, V \cap Z)
        <4>1. SumFunctionOnSet(f, U) = SumFunctionOnSet(f, V \cap Z)
          BY <2>3, <3>1, Zenon
        <4> HIDE DEF U
        <4> QED
          BY <2>2, <3>1, <4>1
      <3> QED
        BY <3>2
    <2> QED
      BY <2>4, <2>5
  <1>3. T \in G
    <2> HIDE DEF G
    <2> QED
      BY <1>1, <1>2, ElementInduction
  <1>4. T \cap Z = Z
    OBVIOUS
  <1> QED
    BY <1>3, <1>4

\* A sum of the same amount for each.
LEMMA SumConstant ==
  ASSUME NEW T, IsFiniteSet(T), NEW f, NEW a \in Nat, \A i \in T : f[i] = a
  PROVE  SumFunctionOnSet(f, T) = Cardinality(T) * a
  <1> DEFINE G == {V \in SUBSET T : SumFunctionOnSet(f, V) = Cardinality(V) * a}
  <1>1. {} \in G
    <2>1. Cardinality({}) = 0
      BY FS_EmptySet
    <2> QED
      BY <2>1, SumNone
  <1>2. ASSUME NEW V \in SUBSET T, NEW x \in V, V \ {x} \in G PROVE V \in G
    <2> DEFINE U == V \ {x}
    <2>1. IsFiniteSet(V) /\ IsFiniteSet(U) /\ \A i \in V : f[i] \in Int
      BY FS_Subset
    <2>2. SumFunctionOnSet(f, V) = f[x] + SumFunctionOnSet(f, U)
      BY <2>1, SumTake
    <2>3. SumFunctionOnSet(f, U) = Cardinality(U) * a /\ f[x] = a
      BY <1>2
    <2>4. Cardinality(U) = Cardinality(V) - 1 /\ Cardinality(V) \in Nat
      BY <2>1, FS_RemoveElement, FS_CardinalityType
    <2>5. a + (Cardinality(V) - 1) * a = Cardinality(V) * a
      BY <2>4
    <2> HIDE DEF U
    <2>6. SumFunctionOnSet(f, V) = Cardinality(V) * a
      BY <2>2, <2>3, <2>4, <2>5
    <2> QED
      BY <2>6
  <1>3. T \in G
    <2> HIDE DEF G
    <2> QED
      BY <1>1, <1>2, ElementInduction
  <1> QED
    BY <1>3

\* The sum over one more position of a sequence.
LEMMA SumPrefix ==
  ASSUME NEW n \in Nat \ {0}, NEW f, \A i \in 1..n : f[i] \in Int
  PROVE  /\ SumFunctionOnSet(f, 1..n) = f[n] + SumFunctionOnSet(f, 1..(n - 1))
         /\ SumFunctionOnSet(f, 1..n) \in Int /\ SumFunctionOnSet(f, 1..(n - 1)) \in Int
  <1> DEFINE D == 1..n
  <1>1. IsFiniteSet(D) /\ n \in D /\ D \ {n} = 1..(n - 1) /\ \A i \in D : f[i] \in Int
    BY FS_Interval
  <1> HIDE DEF D
  <1>2. /\ SumFunctionOnSet(f, D) \in Int /\ SumFunctionOnSet(f, D \ {n}) \in Int
        /\ SumFunctionOnSet(f, D) = f[n] + SumFunctionOnSet(f, D \ {n})
    BY <1>1, SumTake
  <1> QED
    BY <1>1, <1>2 DEF D

-----------------------------------------------------------------------------
(* What one more order does to a ledger. *)

\* A row of sleeve_orders with its recorded fills, as the dispatchers and the
\* polls write it: never filled beyond its quantity.
OrderRow == {o \in [side : Side, qty : Nat, price : Nat, status : OrderStatus,
                    filled : Nat, notional : Nat] : o.filled <= o.qty}

\* A ledger with some fields replaced is a ledger.
LEMMA TwoFields ==
  ASSUME NEW l \in LedgerState, NEW cash \in Int, NEW reserved \in Int
  PROVE  [l EXCEPT !.cash = cash, !.reserved = reserved] \in LedgerState
  BY DEF LedgerState
LEMMA FourFields ==
  ASSUME NEW l \in LedgerState, NEW cash \in Int, NEW reserved \in Int,
         NEW qty \in Int, NEW cost \in Int
  PROVE  [l EXCEPT !.cash = cash, !.reserved = reserved, !.qty = qty, !.cost = cost]
            \in LedgerState
  BY DEF LedgerState
LEMMA SoldFields ==
  ASSUME NEW l \in LedgerState, NEW cash \in Int, NEW realized \in Int,
         NEW qty \in Int, NEW cost \in Int
  PROVE  [l EXCEPT !.cash = cash, !.realized = realized, !.qty = qty, !.cost = cost]
            \in LedgerState
  BY DEF LedgerState

\* A reservation that is covered, field by field.
LEMMA ReserveFields ==
  ASSUME NEW l \in LedgerState, NEW n \in Int
  PROVE  LET r == reserve(l, n) IN
         /\ r \in LedgerState
         /\ l.ok /\ r.ok => /\ r.cash = l.cash - n /\ r.reserved = l.reserved + n
                            /\ r.realized = l.realized /\ r.qty = l.qty /\ r.cost = l.cost
         /\ l.ok /\ n <= l.cash => r.ok
  <1> DEFINE taken == [l EXCEPT !.cash = l.cash - n, !.reserved = l.reserved + n]
             raised == [l EXCEPT !.ok = FALSE]
  <1>1. reserve(l, n) = IF n > l.cash THEN raised ELSE taken
    BY DEF reserve, Raises
  <1>2. l.cash \in Int /\ l.reserved \in Int
    BY DEF LedgerState
  <1>3. raised \in LedgerState /\ ~raised.ok
    BY DEF LedgerState
  <1>4. taken \in LedgerState
    <2>1. l.cash - n \in Int /\ l.reserved + n \in Int
      BY <1>2
    <2> QED
      BY <2>1, TwoFields
  <1>5. /\ taken.cash = l.cash - n /\ taken.reserved = l.reserved + n
        /\ taken.realized = l.realized /\ taken.qty = l.qty /\ taken.cost = l.cost
        /\ taken.ok = l.ok
    BY DEF LedgerState
  <1> QED
    BY <1>1, <1>2, <1>3, <1>4, <1>5

\* A release, field by field.
LEMMA ReleaseFields ==
  ASSUME NEW l \in LedgerState, NEW n \in Int
  PROVE  LET r == release(l, n) IN
         /\ r \in LedgerState /\ r.ok = l.ok /\ r.cash = l.cash + n /\ r.reserved = l.reserved - n
         /\ r.realized = l.realized /\ r.qty = l.qty /\ r.cost = l.cost
  <1> DEFINE freed == [l EXCEPT !.cash = l.cash + n, !.reserved = l.reserved - n]
  <1>1. release(l, n) = freed
    BY DEF release
  <1>2. l.cash \in Int /\ l.reserved \in Int
    BY DEF LedgerState
  <1>3. freed \in LedgerState
    <2>1. l.cash + n \in Int /\ l.reserved - n \in Int
      BY <1>2
    <2> QED
      BY <2>1, TwoFields
  <1>4. /\ freed.ok = l.ok /\ freed.cash = l.cash + n /\ freed.reserved = l.reserved - n
        /\ freed.realized = l.realized /\ freed.qty = l.qty /\ freed.cost = l.cost
    BY DEF LedgerState
  <1> QED
    BY <1>1, <1>3, <1>4

\* A fill of a buy, field by field.
LEMMA BuyFields ==
  ASSUME NEW l \in LedgerState, NEW q \in Int, NEW n \in Int, NEW v \in Int
  PROVE  LET r == BuyFill(l, q, n, v) IN
         /\ r \in LedgerState /\ r.ok = l.ok /\ r.cash = l.cash + (v - n)
         /\ r.reserved = l.reserved - v /\ r.realized = l.realized
         /\ r.qty = l.qty + q /\ r.cost = l.cost + n
  <1> DEFINE bought == [l EXCEPT !.cash = l.cash + (v - n), !.reserved = l.reserved - v,
                                 !.qty = l.qty + q, !.cost = l.cost + n]
  <1>1. BuyFill(l, q, n, v) = bought
    BY DEF BuyFill
  <1>2. l.cash \in Int /\ l.reserved \in Int /\ l.qty \in Int /\ l.cost \in Int
    BY DEF LedgerState
  <1>3. bought \in LedgerState
    <2>1. /\ l.cash + (v - n) \in Int /\ l.reserved - v \in Int
          /\ l.qty + q \in Int /\ l.cost + n \in Int
      BY <1>2
    <2> QED
      BY <2>1, FourFields
  <1>4. /\ bought.ok = l.ok /\ bought.cash = l.cash + (v - n)
        /\ bought.reserved = l.reserved - v /\ bought.realized = l.realized
        /\ bought.qty = l.qty + q /\ bought.cost = l.cost + n
    BY DEF LedgerState
  <1> QED
    BY <1>1, <1>3, <1>4

\* The products of an order's quantities with its price.
LEMMA Products ==
  ASSUME NEW q \in Nat, NEW f \in Nat, NEW p \in Nat
  PROVE  /\ q * p \in Int /\ f * p \in Int /\ (q - f) * p \in Int
         /\ q * p - f * p = (q - f) * p
  OBVIOUS

\* A buy that folds.
LEMMA FoldBuyFields ==
  ASSUME NEW l \in LedgerState, l.ok, NEW o \in OrderRow, o.side = "buy"
  PROVE  LET r == FoldBuy(l, o) IN
         /\ r \in LedgerState
         /\ r.ok => /\ r.cash + r.reserved + r.cost = l.cash + l.reserved + l.cost
                    /\ r.reserved = l.reserved + OpenPart(o)
                    /\ r.realized = l.realized /\ r.qty = l.qty + o.filled
                    /\ r.cost = l.cost + o.notional
         /\ o.qty * o.price <= l.cash => r.ok
  <1> DEFINE full == o.qty * o.price
             paid == o.filled * o.price
             taken == reserve(l, full)
             filled == BuyFill(taken, o.filled, o.notional, paid)
             rest == (o.qty - o.filled) * o.price
             freed == release(filled, rest)
             result == FoldBuy(l, o)
  <1>1. /\ o.qty \in Nat /\ o.filled \in Nat /\ o.price \in Nat /\ o.notional \in Nat
        /\ o.status \in OrderStatus
    BY DEF OrderRow
  <1>2. /\ full \in Int /\ paid \in Int /\ rest \in Int
        /\ full - paid = rest
    BY <1>1, Products
  <1>3. /\ taken \in LedgerState
        /\ taken.ok => /\ taken.cash = l.cash - full
                       /\ taken.reserved = l.reserved + full
                       /\ taken.realized = l.realized /\ taken.qty = l.qty /\ taken.cost = l.cost
        /\ full <= l.cash => taken.ok
    BY <1>2, ReserveFields
  <1>4. /\ filled \in LedgerState /\ filled.ok = taken.ok
        /\ filled.cash = taken.cash + (paid - o.notional)
        /\ filled.reserved = taken.reserved - paid
        /\ filled.realized = taken.realized /\ filled.qty = taken.qty + o.filled
        /\ filled.cost = taken.cost + o.notional
    BY <1>1, <1>2, <1>3, BuyFields
  <1>5. /\ freed \in LedgerState /\ freed.ok = filled.ok /\ freed.cash = filled.cash + rest
        /\ freed.reserved = filled.reserved - rest /\ freed.realized = filled.realized
        /\ freed.qty = filled.qty /\ freed.cost = filled.cost
    BY <1>2, <1>4, ReleaseFields
  <1>6. result = IF ~taken.ok THEN taken ELSE IF ~IsOpen(o) THEN freed ELSE filled
    BY DEF FoldBuy
  <1>7. OpenPart(o) = IF IsOpen(o) THEN rest ELSE 0
    BY DEF OpenPart
  <1>8. /\ l.cash \in Int /\ l.reserved \in Int /\ l.cost \in Int /\ l.realized \in Int
        /\ l.qty \in Int
    BY DEF LedgerState
  <1> HIDE DEF taken, filled, rest, freed, result, full, paid
  <1> SUFFICES /\ result \in LedgerState
               /\ result.ok =>
                    /\ result.cash + result.reserved + result.cost = l.cash + l.reserved + l.cost
                    /\ result.reserved = l.reserved + OpenPart(o)
                    /\ result.realized = l.realized /\ result.qty = l.qty + o.filled
                    /\ result.cost = l.cost + o.notional
               /\ full <= l.cash => result.ok
    BY DEF result, full
  <1>9. CASE ~taken.ok
    BY <1>3, <1>6, <1>9
  <1>10. CASE taken.ok /\ ~IsOpen(o)
    <2>1. result = freed /\ OpenPart(o) = 0
      BY <1>6, <1>7, <1>10
    <2>2. result.ok
      BY <1>4, <1>5, <1>10, <2>1
    <2>7. /\ taken.cash = l.cash - full /\ taken.reserved = l.reserved + full
          /\ taken.realized = l.realized /\ taken.qty = l.qty /\ taken.cost = l.cost
      BY <1>3, <1>10
    <2>3. /\ result.cash = l.cash - full + (paid - o.notional) + rest
          /\ result.reserved = l.reserved + full - paid - rest
          /\ result.cost = l.cost + o.notional
          /\ result.realized = l.realized /\ result.qty = l.qty + o.filled
      BY <1>1, <1>2, <1>4, <1>5, <1>8, <2>1, <2>7
    <2>4. /\ result.cash = l.cash - o.notional /\ result.reserved = l.reserved
      BY <1>1, <1>2, <1>8, <2>3, SMTT(60)
    <2>5. result.cash + result.reserved + result.cost = l.cash + l.reserved + l.cost
      BY <1>1, <1>8, <2>3, <2>4
    <2> QED
      BY <1>5, <1>8, <2>1, <2>2, <2>3, <2>4, <2>5
  <1>11. CASE taken.ok /\ IsOpen(o)
    <2>1. result = filled /\ OpenPart(o) = rest
      BY <1>6, <1>7, <1>11
    <2>2. result.ok
      BY <1>4, <1>11, <2>1
    <2>7. /\ taken.cash = l.cash - full /\ taken.reserved = l.reserved + full
          /\ taken.realized = l.realized /\ taken.qty = l.qty /\ taken.cost = l.cost
      BY <1>3, <1>11
    <2>3. /\ result.cash = l.cash - full + (paid - o.notional)
          /\ result.reserved = l.reserved + full - paid
          /\ result.cost = l.cost + o.notional
          /\ result.realized = l.realized /\ result.qty = l.qty + o.filled
      BY <1>1, <1>2, <1>4, <1>8, <2>1, <2>7
    <2>4. result.cash = l.cash - o.notional - rest /\ result.reserved = l.reserved + rest
      BY <1>1, <1>2, <1>8, <2>3, SMTT(60)
    <2>5. result.cash + result.reserved + result.cost = l.cash + l.reserved + l.cost
      BY <1>1, <1>2, <1>8, <2>3, <2>4
    <2> QED
      BY <1>4, <1>8, <2>1, <2>2, <2>3, <2>4, <2>5
  <1> QED
    BY <1>9, <1>10, <1>11

\* A sell that folds.
LEMMA SellFields ==
  ASSUME NEW l \in LedgerState, l.ok, NEW q \in Nat, NEW n \in Nat
  PROVE  LET r == SellFill(l, q, n) IN
         /\ r \in LedgerState
         /\ 0 < l.qty /\ q <= l.qty => r.ok
         /\ r.ok => /\ q <= l.qty /\ r.qty = l.qty - q /\ r.cash = l.cash + n
                    /\ r.cash + r.reserved + r.cost - r.realized
                         = l.cash + l.reserved + l.cost - l.realized
                    /\ r.reserved = l.reserved
  <1> DEFINE removed == (q * l.cost) \div l.qty
             raised == [l EXCEPT !.ok = FALSE]
             sold == [l EXCEPT !.cash = l.cash + n, !.realized = l.realized + (n - removed),
                               !.qty = l.qty - q, !.cost = l.cost - removed]
             result == SellFill(l, q, n)
  <1>1. result = IF l.qty <= 0 \/ q > l.qty THEN raised ELSE sold
    BY DEF SellFill, Raises
  <1>2. /\ l.cash \in Int /\ l.reserved \in Int /\ l.qty \in Int /\ l.cost \in Int
        /\ l.realized \in Int
    BY DEF LedgerState
  <1>3. raised \in LedgerState /\ ~raised.ok
    BY DEF LedgerState
  <1>4. CASE l.qty <= 0 \/ q > l.qty
    BY <1>1, <1>2, <1>3, <1>4
  <1>5. CASE l.qty > 0 /\ q <= l.qty
    <2>1. q * l.cost \in Int
      BY <1>2
    <2>2. removed \in Int
      BY <2>1, <1>2, <1>5
    <2> HIDE DEF removed
    <2>3. sold \in LedgerState
      <3>1. /\ l.cash + n \in Int /\ l.realized + (n - removed) \in Int
            /\ l.qty - q \in Int /\ l.cost - removed \in Int
        BY <1>2, <2>2
      <3> QED
        BY <3>1, SoldFields
    <2>4. /\ sold.cash = l.cash + n /\ sold.reserved = l.reserved
          /\ sold.realized = l.realized + (n - removed) /\ sold.qty = l.qty - q
          /\ sold.cost = l.cost - removed /\ sold.ok = l.ok
      BY DEF LedgerState
    <2>5. result = sold
      BY <1>1, <1>2, <1>5
    <2> HIDE DEF sold, result
    <2>6. /\ result.qty = l.qty - q /\ result.reserved = l.reserved /\ result.cash = l.cash + n
          /\ result.cash + result.reserved + result.cost - result.realized
               = l.cash + l.reserved + l.cost - l.realized
      BY <1>2, <2>2, <2>4, <2>5
    <2>7. result.ok
      BY <2>4, <2>5, Zenon
    <2> SUFFICES /\ result \in LedgerState /\ q <= l.qty /\ result.qty = l.qty - q
                 /\ result.ok /\ result.cash = l.cash + n
                 /\ result.cash + result.reserved + result.cost - result.realized
                      = l.cash + l.reserved + l.cost - l.realized
                 /\ result.reserved = l.reserved
      BY DEF result
    <2> QED
      BY <1>5, <2>3, <2>5, <2>6, <2>7
  <1> QED
    BY <1>2, <1>4, <1>5

-----------------------------------------------------------------------------
\* A history that balances still does with one more order, whatever the order,
\* its price and its fills: reserve, apply_fill and release of ledger.py create
\* and lose no money, slippage and price improvement included.
THEOREM FoldBalances ==
  ASSUME NEW l \in LedgerState, NEW o \in OrderRow, NEW capital \in Nat,
         Balanced(l, capital), FoldOrder(l, o).ok
  PROVE  Balanced(FoldOrder(l, o), capital)
  <1> DEFINE r == FoldOrder(l, o)
  <1>1. /\ o.filled \in Nat /\ o.notional \in Nat /\ o.side \in Side
    BY DEF OrderRow
  <1>2. l.ok
    BY DEF FoldOrder
  <1>3. /\ l.cash \in Int /\ l.reserved \in Int /\ l.cost \in Int /\ l.realized \in Int
        /\ l.cash + l.reserved + l.cost = capital + l.realized
    BY DEF LedgerState, Balanced
  <1>4. CASE o.side = "buy"
    <2>1. r = FoldBuy(l, o)
      BY <1>2, <1>4 DEF FoldOrder
    <2>2. r.cash + r.reserved + r.cost = l.cash + l.reserved + l.cost /\ r.realized = l.realized
      BY <1>2, <1>4, <2>1, FoldBuyFields
    <2> QED
      BY <1>3, <2>2 DEF Balanced
  <1>5. CASE o.side # "buy" /\ o.filled # 0
    <2>1. r = SellFill(l, o.filled, o.notional)
      BY <1>2, <1>5 DEF FoldOrder, FoldSell
    <2>2. /\ r \in LedgerState
          /\ r.cash + r.reserved + r.cost - r.realized = l.cash + l.reserved + l.cost - l.realized
      BY <1>1, <1>2, <2>1, SellFields
    <2>3. r.cash \in Int /\ r.reserved \in Int /\ r.cost \in Int /\ r.realized \in Int
      BY <2>2 DEF LedgerState
    <2> HIDE DEF r
    <2>4. r.cash + r.reserved + r.cost = capital + r.realized
      BY <1>3, <2>2, <2>3
    <2> QED
      BY <2>4 DEF Balanced, r
  <1>6. CASE o.side # "buy" /\ o.filled = 0
    BY <1>2, <1>6 DEF FoldOrder, FoldSell
  <1> QED
    BY <1>4, <1>5, <1>6

\* With one more order a ledger reserves what that order may still spend, and
\* nothing else: a terminal order leaves no reservation behind, and a filled
\* part resolves exactly its own share of it.
THEOREM FoldReserves ==
  ASSUME NEW l \in LedgerState, NEW o \in OrderRow, FoldOrder(l, o).ok
  PROVE  FoldOrder(l, o).reserved = l.reserved + OpenPart(o)
  <1>1. o.filled \in Nat /\ o.notional \in Nat
    BY DEF OrderRow
  <1>2. l.ok /\ l.reserved \in Int
    BY DEF FoldOrder, LedgerState
  <1>3. CASE o.side = "buy"
    BY <1>2, <1>3, FoldBuyFields DEF FoldOrder
  <1>4. CASE o.side # "buy" /\ o.filled # 0
    <2>1. FoldOrder(l, o) = SellFill(l, o.filled, o.notional)
      BY <1>2, <1>4 DEF FoldOrder, FoldSell
    <2>2. FoldOrder(l, o).reserved = l.reserved
      BY <1>1, <1>2, <2>1, SellFields
    <2> QED
      BY <1>2, <1>4, <2>2 DEF OpenPart
  <1>5. CASE o.side # "buy" /\ o.filled = 0
    BY <1>2, <1>5 DEF FoldOrder, FoldSell, OpenPart
  <1> QED
    BY <1>3, <1>4, <1>5

\* A sleeve is never short: a history that folds, and folds one more order,
\* holds what it bought less what it sold, and a sell of more than that raises.
THEOREM FoldNeverShort ==
  ASSUME NEW l \in LedgerState, NEW o \in OrderRow, l.qty >= 0, FoldOrder(l, o).ok
  PROVE  /\ FoldOrder(l, o) \in LedgerState
         /\ FoldOrder(l, o).qty = IF o.side = "buy" THEN l.qty + o.filled ELSE l.qty - o.filled
         /\ FoldOrder(l, o).qty >= 0
  <1>1. o.filled \in Nat /\ o.notional \in Nat
    BY DEF OrderRow
  <1>2. l.ok /\ l.qty \in Int
    BY DEF FoldOrder, LedgerState
  <1>3. CASE o.side = "buy"
    <2>1. FoldOrder(l, o) = FoldBuy(l, o)
      BY <1>2, <1>3 DEF FoldOrder
    <2>2. FoldOrder(l, o) \in LedgerState /\ FoldOrder(l, o).qty = l.qty + o.filled
      BY <1>2, <1>3, <2>1, FoldBuyFields
    <2> QED
      BY <1>1, <1>2, <1>3, <2>2
  <1>4. CASE o.side # "buy" /\ o.filled # 0
    <2>1. FoldOrder(l, o) = SellFill(l, o.filled, o.notional)
      BY <1>2, <1>4 DEF FoldOrder, FoldSell
    <2>2. /\ FoldOrder(l, o) \in LedgerState /\ FoldOrder(l, o).qty = l.qty - o.filled
          /\ o.filled <= l.qty
      BY <1>1, <1>2, <2>1, SellFields
    <2> QED
      BY <1>1, <1>2, <1>4, <2>2
  <1>5. CASE o.side # "buy" /\ o.filled = 0
    BY <1>1, <1>2, <1>5 DEF FoldOrder, FoldSell
  <1> QED
    BY <1>3, <1>4, <1>5

-----------------------------------------------------------------------------
LEMMA LeastOfFour ==
  ASSUME NEW a \in Int, NEW b \in Int, NEW c \in Int, NEW d \in Int,
         NEW S \in SUBSET {a, b, c, d}, S # {}
  PROVE  Min(S) \in S /\ \A y \in S : Min(S) <= y
  <1> DEFINE Up(T) == T \cap S = {} \/ \E x \in T \cap S : \A y \in T \cap S : x <= y
  <1>1. Up({a, b})
    OBVIOUS
  <1>2. Up({a, b, c})
    <2>1. CASE {a, b} \cap S = {} \/ c \notin S
      BY <1>1, <2>1
    <2>2. CASE {a, b} \cap S # {} /\ c \in S
      <3>1. PICK x \in {a, b} \cap S : \A y \in {a, b} \cap S : x <= y
        BY <1>1, <2>2
      <3>2. CASE x <= c
        BY <3>1, <3>2, <2>2
      <3>3. CASE c <= x
        BY <3>1, <3>3, <2>2
      <3> QED
        BY <3>1, <3>2, <3>3
    <2> QED
      BY <2>1, <2>2
  <1>3. Up({a, b, c, d})
    <2>1. CASE {a, b, c} \cap S = {} \/ d \notin S
      BY <1>2, <2>1
    <2>2. CASE {a, b, c} \cap S # {} /\ d \in S
      <3>1. PICK x \in {a, b, c} \cap S : \A y \in {a, b, c} \cap S : x <= y
        BY <1>2, <2>2
      <3>2. CASE x <= d
        BY <3>1, <3>2, <2>2
      <3>3. CASE d <= x
        BY <3>1, <3>3, <2>2
      <3> QED
        BY <3>1, <3>2, <3>3
    <2> QED
      BY <2>1, <2>2
  <1>4. \E x \in S : \A y \in S : x <= y
    BY <1>3
  <1> QED
    BY <1>4 DEF Min

\* As many shares as the dollars pay for.
LEMMA DollarsLeft ==
  ASSUME NEW x \in Nat, NEW price \in Nat \ {0}, NEW n \in Nat, n <= x \div price
  PROVE  n * price <= x
  <1> DEFINE q == x \div price
  <1>1. q \in Int /\ q * price <= x
    BY SMT
  <1>2. n * price <= q * price
    BY <1>1, SMT
  <1> QED
    BY <1>1, <1>2, SMT

\* The box only shrinks an order: never below nothing, never beyond what was
\* proposed, never more of a sale than the position.
THEOREM BoxReduces ==
  ASSUME NEW side \in Side, NEW qty \in Nat, NEW price \in Nat \ {0}, NEW box \in Envelope,
         NEW equity \in Int, NEW position \in Int, NEW turnover \in Int
  PROVE  LET n == clamp_order(side, qty, price, box, equity, position, turnover) IN
         /\ n \in 0..qty
         /\ side = "sell" => n <= Floored(position)
         /\ box.max_order_usd # None => n * price <= box.max_order_usd
         /\ box.max_daily_turnover_usd # None /\ n > 0 =>
                turnover + n * price <= box.max_daily_turnover_usd
  <1> DEFINE pct  == box.max_position_pct
             usd  == box.max_order_usd
             day  == box.max_daily_turnover_usd
             room == IF side = "sell" THEN Floored(position)
                     ELSE Floored((pct * equity) \div (100 * price) - position)
             u    == Floored(usd \div price)
             d    == Floored(Floored(day - turnover) \div price)
             S    == {qty} \cup Ceilings(side, price, box, equity, position, turnover)
             n    == clamp_order(side, qty, price, box, equity, position, turnover)
  <1>1. pct \in Int /\ usd \in Limit /\ day \in Limit /\ usd \in Int /\ day \in Int
    BY DEF Envelope, Limit, None
  <1>2. \A x \in Int : Floored(x) \in Nat /\ (x > 0 => Floored(x) = x)
    BY DEF Floored
  <1>3. (pct * equity) \div (100 * price) \in Int /\ usd \div price \in Int
    <2>1. 100 * price \in Int /\ 100 * price # 0 /\ pct * equity \in Int
      BY <1>1
    <2> QED
      BY <1>1, <2>1
  <1>4. room \in Nat
    BY <1>2, <1>3
  <1>5. u \in Nat /\ Floored(day - turnover) \in Nat
    BY <1>1, <1>2, <1>3
  <1>6. Floored(day - turnover) \div price \in Int
    BY <1>5
  <1>7. d \in Nat
    BY <1>2, <1>6
  <1>8. /\ S \subseteq {qty, room, u, d}
        /\ qty \in S
        /\ side = "sell" => Floored(position) \in S
        /\ usd # None => u \in S
        /\ day # None => d \in S
    BY Zenon DEF Ceilings, Ceiling
  <1>9. Min(S) \in S /\ \A y \in S : Min(S) <= y
    <2> HIDE DEF S, room, u, d
    <2>1. S \in SUBSET {qty, room, u, d} /\ S # {} /\ qty \in Int
      BY <1>8
    <2>2. room \in Int /\ u \in Int /\ d \in Int
      BY <1>4, <1>5, <1>7
    <2> QED
      BY <2>1, <2>2, LeastOfFour
  <1>10. Min(S) \in Nat
    <2> HIDE DEF S, room, u, d
    <2> QED
      BY <1>4, <1>5, <1>7, <1>8, <1>9
  <1>11. n = 0 \/ n = Min(S)
    <2>1. n = IF side = "buy" /\ ~box.allowed THEN 0 ELSE Floored(Min(S))
      BY DEF clamp_order
    <2> HIDE DEF S, n
    <2> QED
      BY <1>10, <2>1 DEF Floored
  <1>12. n \in Nat /\ (n > 0 => \A y \in S : n <= y)
    <2> HIDE DEF S, n
    <2> QED
      BY <1>9, <1>10, <1>11
  <1>13. n <= qty /\ (side = "sell" => n <= Floored(position))
    <2>1. Floored(position) \in Nat
      BY <1>2
    <2> HIDE DEF S, n
    <2> QED
      BY <1>8, <1>12, <2>1
  <1>14. ASSUME usd # None PROVE n * price <= usd
    <2>1. usd \in Nat
      BY <1>1, <1>14 DEF Limit
    <2>2. n <= usd \div price
      <3>1. n = 0 \/ n <= u
        <4>1. u \in S
          BY <1>8, <1>14
        <4> HIDE DEF S, n, u, room, d
        <4> QED
          BY <1>12, <4>1
      <3>2. usd \div price >= 0
        BY <2>1, SMT
      <3> HIDE DEF S, n
      <3> QED
        BY <1>3, <1>12, <3>1, <3>2 DEF Floored
    <2> HIDE DEF n
    <2> QED
      BY <1>12, <2>1, <2>2, DollarsLeft
  <1>15. ASSUME day # None, n > 0 PROVE turnover + n * price <= day
    <2> DEFINE left == Floored(day - turnover)
    <2>1. n <= d
      <3>1. d \in S
        BY <1>8, <1>15
      <3> HIDE DEF S, n, d, room, u
      <3> QED
        BY <1>12, <1>15, <3>1
    <2>2. left \in Nat
      BY <1>5
    <2>3. n <= left \div price /\ left # 0
      <3> DEFINE k == left \div price
      <3>1. k \in Int /\ (left = 0 => k = 0)
        <4> HIDE DEF left
        <4> QED
          BY <2>2, SMT
      <3>2. n <= Floored(k)
        BY <2>1
      <3> HIDE DEF left, n, k, d, S, u, room
      <3>3. n <= k /\ k # 0
        BY <1>12, <1>15, <3>1, <3>2 DEF Floored
      <3> QED
        BY <3>1, <3>3 DEF k
    <2>4. n * price <= left
      <3> HIDE DEF left, n
      <3> QED
        BY <1>12, <2>2, <2>3, DollarsLeft
    <2>5. left = day - turnover
      BY <1>1, <2>3 DEF Floored
    <2>6. n * price \in Int
      <3> HIDE DEF n
      <3> QED
        BY <1>12
    <2> HIDE DEF left, n
    <2> QED
      BY <1>1, <2>4, <2>5, <2>6
  <1> QED
    BY <1>12, <1>13, <1>14, <1>15

-----------------------------------------------------------------------------
(* What a whole history folds into. *)

\* A row that has not filled has cost nothing.
HistoryRow == {o \in OrderRow : o.filled = 0 => o.notional = 0}

\* One more order of a history: what it does to the money, the reservations and
\* the position, and when it folds.
LEMMA FoldStep ==
  ASSUME NEW l \in LedgerState, NEW o \in HistoryRow
  PROVE  LET r == FoldOrder(l, o) IN
         /\ r \in LedgerState
         /\ r.ok => /\ l.ok
                    /\ \A capital \in Nat : Balanced(l, capital) => Balanced(r, capital)
                    /\ r.reserved = l.reserved + OpenPart(o)
                    /\ r.cash + r.reserved = l.cash + l.reserved - Sign(o) * o.notional
                    /\ r.qty = l.qty + Sign(o) * o.filled
                    /\ l.qty >= 0 => r.qty >= 0
         /\ l.ok /\ o.side = "buy" /\ o.qty * o.price <= l.cash => r.ok
         /\ l.ok /\ o.side = "sell" /\ (o.filled = 0 \/ o.filled <= l.qty) => r.ok
  <1> DEFINE r == FoldOrder(l, o)
  <1>1. /\ o \in OrderRow /\ o.filled \in Nat /\ o.notional \in Nat /\ o.side \in Side
        /\ o.filled = 0 => o.notional = 0
    BY DEF HistoryRow, OrderRow
  <1>2. /\ l.cash \in Int /\ l.reserved \in Int /\ l.cost \in Int /\ l.realized \in Int
        /\ l.qty \in Int
    BY DEF LedgerState
  <1>3. ASSUME r.ok PROVE l.ok /\ \A capital \in Nat : Balanced(l, capital) => Balanced(r, capital)
    BY <1>1, <1>3, FoldBalances DEF FoldOrder
  <1>4. CASE ~l.ok
    BY <1>4 DEF FoldOrder
  <1>5. CASE l.ok /\ o.side = "buy"
    <2>1. r = FoldBuy(l, o) /\ Sign(o) = 1
      BY <1>5 DEF FoldOrder, Sign
    <2>2. /\ r \in LedgerState
          /\ r.ok => /\ r.cash + r.reserved + r.cost = l.cash + l.reserved + l.cost
                     /\ r.reserved = l.reserved + OpenPart(o)
                     /\ r.qty = l.qty + o.filled /\ r.cost = l.cost + o.notional
          /\ o.qty * o.price <= l.cash => r.ok
      BY <1>1, <1>5, <2>1, FoldBuyFields
    <2>3. r.cash \in Int /\ r.reserved \in Int /\ r.cost \in Int
      BY <2>2 DEF LedgerState
    <2> HIDE DEF r
    <2>5. Sign(o) * o.notional = o.notional /\ Sign(o) * o.filled = o.filled
      BY <1>1, <2>1
    <2>4. r.ok => /\ r.cash + r.reserved = l.cash + l.reserved - Sign(o) * o.notional
                  /\ r.qty = l.qty + Sign(o) * o.filled
                  /\ l.qty >= 0 => r.qty >= 0
      <3> SUFFICES ASSUME r.ok
                   PROVE  /\ r.cash + r.reserved = l.cash + l.reserved - o.notional
                          /\ r.qty = l.qty + o.filled
                          /\ l.qty >= 0 => r.qty >= 0
        BY <2>5
      <3>1. /\ r.cash + r.reserved + r.cost = l.cash + l.reserved + l.cost
            /\ r.qty = l.qty + o.filled /\ r.cost = l.cost + o.notional
        BY <2>2
      <3> DEFINE a == r.cash  b == r.reserved  d == l.cash  e == l.reserved  c == l.cost
                 n == o.notional
      <3>2. /\ a + b + (c + n) = d + e + c
            /\ a \in Int /\ b \in Int /\ c \in Int /\ d \in Int /\ e \in Int /\ n \in Int
        BY <1>1, <1>2, <2>3, <3>1
      <3>3. a + b = d + e - n
        <4> HIDE DEF a, b, c, d, e, n
        <4> QED
          BY <3>2
      <3> QED
        BY <1>1, <1>2, <3>1, <3>3
    <2> QED
      BY <1>3, <1>5, <2>2, <2>4 DEF r
  <1>6. CASE l.ok /\ o.side = "sell" /\ o.filled # 0
    <2>1. r = SellFill(l, o.filled, o.notional) /\ Sign(o) = -1 /\ OpenPart(o) = 0
      BY <1>6 DEF FoldOrder, FoldSell, Sign, OpenPart
    <2>2. /\ r \in LedgerState
          /\ 0 < l.qty /\ o.filled <= l.qty => r.ok
          /\ r.ok => /\ o.filled <= l.qty /\ r.qty = l.qty - o.filled /\ r.cash = l.cash + o.notional
                     /\ r.reserved = l.reserved
      BY <1>1, <1>6, <2>1, SellFields
    <2> HIDE DEF r
    <2>4. r.ok => /\ r.cash + r.reserved = l.cash + l.reserved - Sign(o) * o.notional
                  /\ r.qty = l.qty + Sign(o) * o.filled /\ r.reserved = l.reserved + OpenPart(o)
                  /\ l.qty >= 0 => r.qty >= 0
      BY <1>1, <1>2, <2>1, <2>2
    <2>5. o.filled <= l.qty => 0 < l.qty
      BY <1>1, <1>2, <1>6
    <2> QED
      BY <1>3, <1>6, <2>2, <2>4, <2>5 DEF r
  <1>7. CASE l.ok /\ o.side = "sell" /\ o.filled = 0
    <2>1. r = l /\ Sign(o) = -1 /\ OpenPart(o) = 0 /\ o.notional = 0
      BY <1>1, <1>7 DEF FoldOrder, FoldSell, Sign, OpenPart
    <2> HIDE DEF r
    <2>2. /\ r.cash + r.reserved = l.cash + l.reserved - Sign(o) * o.notional
          /\ r.qty = l.qty + Sign(o) * o.filled /\ r.reserved = l.reserved + OpenPart(o)
      BY <1>2, <1>7, <2>1
    <2> QED
      BY <1>3, <1>7, <2>1, <2>2 DEF r
  <1>8. o.side = "buy" \/ o.side = "sell"
    BY <1>1 DEF Side
  <1> QED
    BY <1>4, <1>5, <1>6, <1>7, <1>8

\* A finite set of numbers has a greatest one.
LEMMA GreatestOf ==
  ASSUME NEW T \in SUBSET Int, IsFiniteSet(T), T # {}
  PROVE  Max(T) \in T /\ \A y \in T : Max(T) >= y
  <1> DEFINE G == {V \in SUBSET T : V = {} \/ \E x \in V : \A y \in V : x >= y}
  <1>1. {} \in G
    OBVIOUS
  <1>2. ASSUME NEW V \in SUBSET T, NEW x \in V, V \ {x} \in G PROVE V \in G
    <2>1. CASE V \ {x} = {}
      BY <2>1
    <2>2. CASE V \ {x} # {}
      <3>1. PICK z \in V \ {x} : \A y \in V \ {x} : z >= y
        BY <1>2, <2>2
      <3>2. CASE z >= x
        BY <3>1, <3>2
      <3>3. CASE x >= z
        <4>1. \A y \in V : x >= y
          BY <3>1, <3>3
        <4> QED
          BY <4>1
      <3> QED
        BY <3>2, <3>3
    <2> QED
      BY <2>1, <2>2
  <1>3. T \in G
    <2> HIDE DEF G
    <2> QED
      BY <1>1, <1>2, ElementInduction
  <1> QED
    BY <1>3 DEF Max

\* Induction up to a number.
LEMMA UpTo ==
  ASSUME NEW N \in Nat, NEW G, 0 \in G, \A n \in 1..N : n - 1 \in G => n \in G
  PROVE  0..N \subseteq G
  <1> DEFINE H == {n \in 0..N : 0..n \subseteq G}
  <1>1. H \in SUBSET Int /\ IsFiniteSet(H) /\ 0 \in H
    <2>1. IsFiniteSet(0..N) /\ H \subseteq 0..N
      BY FS_Interval
    <2>2. IsFiniteSet(H)
      BY <2>1, FS_Subset
    <2> QED
      BY <2>2
  <1>2. Max(H) \in H /\ \A y \in H : Max(H) >= y
    <2> HIDE DEF H
    <2> QED
      BY <1>1, GreatestOf
  <1>3. CASE Max(H) = N
    BY <1>2, <1>3
  <1>4. CASE Max(H) # N
    <2> DEFINE m == Max(H)
    <2>1. m \in 0..N /\ 0..m \subseteq G /\ m + 1 \in 1..N
      BY <1>2, <1>4
    <2> HIDE DEF m
    <2>2. m + 1 \in G
      BY <2>1
    <2>3. m + 1 \in H
      BY <2>1, <2>2
    <2> HIDE DEF H
    <2>4. m >= m + 1
      BY <1>2, <2>3 DEF m
    <2> QED
      BY <2>1, <2>4
  <1> QED
    BY <1>3, <1>4

\* The recursion that the library folds a sequence by.
LEMMA FoldUnfold ==
  ASSUME NEW capital, NEW os
  PROVE  reconstruct_from_history(capital, os) =
            (CHOOSE iter : iter = [s \in SUBSET DOMAIN os |->
                IF s = {} THEN new_ledger(capital)
                ELSE FoldOrder(iter[s \ {Max(s)}], os[Max(s)])])[DOMAIN os]
  BY Zenon DEF reconstruct_from_history, FoldLeft, MapThenFoldSet

\* The ledgers that folding a history order by order goes through.
Folds(L, capital, os) ==
    /\ L \in [0..Len(os) -> LedgerState] /\ L[0] = new_ledger(capital)
    /\ \A n \in 1..Len(os) : L[n] = FoldOrder(L[n - 1], os[n])
LEMMA FoldExists ==
  ASSUME NEW capital \in Nat, NEW os \in Seq(HistoryRow)
  PROVE  \E L : Folds(L, capital, os) /\ L[Len(os)] = reconstruct_from_history(capital, os)
  <1> DEFINE N == Len(os)
             T == 1..N
             base == new_ledger(capital)
             c == [V \in SUBSET T |-> Max(V)]
             step == [x \in T |-> [y \in LedgerState |-> FoldOrder(y, os[x])]]
  <1>1. /\ N \in Nat /\ DOMAIN os = T /\ IsFiniteSet(T) /\ T \subseteq Int
        /\ \A x \in T : os[x] \in HistoryRow
    BY FS_Interval, ElementOfSeq
  <1>2. base \in LedgerState
    BY DEF new_ledger, LedgerState
  <1>3. \A y \in LedgerState, x \in T : FoldOrder(y, os[x]) \in LedgerState
    BY <1>1, FoldStep
  <1>4. \A V \in SUBSET T : V # {} => Max(V) \in V
    <2> HIDE DEF T
    <2> SUFFICES ASSUME NEW V \in SUBSET T, V # {} PROVE Max(V) \in V
      OBVIOUS
    <2>1. IsFiniteSet(V) /\ V \in SUBSET Int
      BY <1>1, FS_Subset
    <2> QED
      BY <2>1, GreatestOf
  <1> HIDE DEF T
  <1>5. PICK g \in Solutions(T, LedgerState, base, c, step) : TRUE
    <2>1. Choice(T, c)
      BY <1>4 DEF Choice
    <2>2. Stepwise(T, LedgerState, step)
      BY <1>3 DEF Stepwise
    <2> HIDE DEF c, step, base
    <2> QED
      BY <1>1, <1>2, <2>1, <2>2, Recursion
  <1>6. /\ \A V \in SUBSET T : g[V] \in LedgerState
        /\ \A V \in SUBSET T : g[V] = IF V = {} THEN base ELSE FoldOrder(g[V \ {Max(V)}], os[Max(V)])
    <2>1. \A V \in SUBSET T : g[V] = IF V = {} THEN base ELSE step[c[V]][g[V \ {c[V]}]]
      BY <1>5 DEF Solutions
    <2>2. \A V \in SUBSET T : g[V] \in LedgerState
      BY <1>5 DEF Solutions
    <2>3. ASSUME NEW V \in SUBSET T, V # {}
          PROVE  step[c[V]][g[V \ {c[V]}]] = FoldOrder(g[V \ {Max(V)}], os[Max(V)])
      <3>1. c[V] = Max(V) /\ Max(V) \in T /\ V \ {Max(V)} \in SUBSET T
        BY <1>4, <2>3
      <3>2. g[V \ {Max(V)}] \in LedgerState
        BY <2>2, <3>1
      <3> HIDE DEF c
      <3>3. step[Max(V)][g[V \ {Max(V)}]] = FoldOrder(g[V \ {Max(V)}], os[Max(V)])
        BY <3>1, <3>2
      <3> HIDE DEF step
      <3> QED
        BY <3>1, <3>3
    <2> HIDE DEF c, step, base
    <2> QED
      BY <2>1, <2>2, <2>3
  <1>7. reconstruct_from_history(capital, os) = g[T]
    <2> DEFINE Eq(h) == h = [s \in SUBSET T |-> IF s = {} THEN base
                                ELSE FoldOrder(h[s \ {Max(s)}], os[Max(s)])]
               r == [s \in SUBSET T |-> g[s]]
               iter == CHOOSE h : Eq(h)
    <2> HIDE DEF base
    <2>1. \A s \in SUBSET T : s # {} => s \ {Max(s)} \in SUBSET s /\ s \ {Max(s)} # s
                                        /\ s \ {Max(s)} \in SUBSET T
      BY <1>4
    <2>2. Eq(r)
      <3>1. \A s \in SUBSET T : r[s] = IF s = {} THEN base
                                       ELSE FoldOrder(r[s \ {Max(s)}], os[Max(s)])
        BY <1>6, <2>1
      <3> QED
        BY <3>1
    <2>3. Eq(iter)
      <3> HIDE DEF Eq, r
      <3> QED
        BY <2>2
    <2> HIDE DEF iter
    <2> DEFINE G == {s \in SUBSET T : iter[s] = g[s]}
    <2>4. SUBSET T \subseteq G
      <3>2. ASSUME NEW s \in SUBSET T, \A u \in SUBSET s : u # s => u \in G PROVE s \in G
        <4>1. CASE s = {}
          BY <1>6, <2>3, <4>1
        <4>2. CASE s # {}
          <5> DEFINE w == s \ {Max(s)}
          <5>1. w \in SUBSET s /\ w # s
            BY <2>1, <4>2
          <5>2. iter[w] = g[w]
            BY <3>2, <5>1
          <5>3. iter[s] = FoldOrder(iter[w], os[Max(s)]) /\ g[s] = FoldOrder(g[w], os[Max(s)])
            BY <1>6, <2>3, <4>2
          <5> QED
            BY <5>2, <5>3
        <4> QED
          BY <4>1, <4>2
      <3>3. IsFiniteSet(T)
        BY <1>1
      <3> HIDE DEF G, Eq
      <3> QED
        BY <3>2, <3>3, SubsetInduction
    <2>5. reconstruct_from_history(capital, os) = iter[T]
      BY <1>1, FoldUnfold, Zenon DEF iter, base
    <2> QED
      BY <2>4, <2>5
  <1> DEFINE L == [n \in 0..N |-> g[1..n]]
  <1>8. \A n \in 0..N : 1..n \in SUBSET T /\ L[n] = g[1..n]
    BY <1>1 DEF T
  <1>9. ASSUME NEW n \in 1..N PROVE L[n] = FoldOrder(L[n - 1], os[n])
    <2> DEFINE V == 1..n
    <2>1. V \in SUBSET Int /\ IsFiniteSet(V) /\ V # {} /\ V \in SUBSET T
      <3>1. n \in Nat /\ n \in 0..N /\ n \in 1..n
        BY <1>1
      <3>2. IsFiniteSet(1..n)
        BY <3>1, FS_Interval
      <3>3. 1..n \subseteq Int /\ 1..n # {}
        <4>1. n \in 1..n
          BY <3>1
        <4>2. \A x \in 1..n : x \in Int
          OBVIOUS
        <4> QED
          BY <4>1, <4>2
      <3>4. 1..n \in SUBSET T
        BY <1>8, <3>1
      <3> QED
        BY <3>2, <3>3, <3>4
    <2>2. Max(V) \in V /\ \A y \in V : Max(V) >= y
      <3> HIDE DEF V
      <3> QED
        BY <2>1, GreatestOf
    <2>3. Max(V) = n
      <3>1. n \in V
        BY <1>1
      <3> QED
        BY <2>2, <3>1
    <2>4. V \ {n} = 1..(n - 1) /\ n - 1 \in 0..N /\ n \in 0..N
      BY <1>1
    <2>5. g[V] = FoldOrder(g[V \ {n}], os[n])
      <3> HIDE DEF V
      <3> QED
        BY <1>6, <2>1, <2>3
    <2> HIDE DEF L
    <2> QED
      BY <1>8, <2>4, <2>5
  <1>10. L \in [0..N -> LedgerState]
    BY <1>6, <1>8
  <1>11. L[0] = base
    <2>1. 0 \in 0..N /\ 1..0 = {} /\ {} \in SUBSET T
      BY <1>1
    <2> HIDE DEF L, base
    <2> QED
      BY <1>6, <1>8, <2>1
  <1>12. L[N] = reconstruct_from_history(capital, os)
    <2>1. N \in 0..N /\ T = 1..N
      BY <1>1 DEF T
    <2> HIDE DEF L
    <2> QED
      BY <1>7, <1>8, <2>1
  <1> HIDE DEF L
  <1> QED
    BY <1>9, <1>10, <1>11, <1>12 DEF Folds

\* A history that folds: its money, its reservations and its position, in terms
\* of its orders.
FoldsInto(l, capital, os, n) ==
    LET open == [i \in DOMAIN os |-> OpenPart(os[i])]
        flow == [i \in DOMAIN os |-> Sign(os[i]) * os[i].notional]
        move == [i \in DOMAIN os |-> Sign(os[i]) * os[i].filled]
    IN  /\ Balanced(l, capital)
        /\ l.reserved = SumFunctionOnSet(open, 1..n)
        /\ l.cash + l.reserved = capital - SumFunctionOnSet(flow, 1..n)
        /\ l.qty = SumFunctionOnSet(move, 1..n)
        /\ l.qty >= 0
LEMMA FoldsTo ==
  ASSUME NEW capital \in Nat, NEW os \in Seq(HistoryRow), NEW L, Folds(L, capital, os),
         NEW n \in 0..Len(os), L[n].ok
  PROVE  FoldsInto(L[n], capital, os, n)
  <1> DEFINE N == Len(os)
             open == [i \in DOMAIN os |-> OpenPart(os[i])]
             flow == [i \in DOMAIN os |-> Sign(os[i]) * os[i].notional]
             move == [i \in DOMAIN os |-> Sign(os[i]) * os[i].filled]
             Closed(m) == /\ Balanced(L[m], capital)
                          /\ L[m].reserved = SumFunctionOnSet(open, 1..m)
                          /\ L[m].cash + L[m].reserved = capital - SumFunctionOnSet(flow, 1..m)
                          /\ L[m].qty = SumFunctionOnSet(move, 1..m)
                          /\ L[m].qty >= 0
             G == {m \in 0..N : L[m].ok => Closed(m)}
  <1>1. N \in Nat /\ DOMAIN os = 1..N /\ \A i \in 1..N : os[i] \in HistoryRow
    BY ElementOfSeq
  <1>2. \A i \in 1..N : /\ open[i] = OpenPart(os[i]) /\ open[i] \in Int
                        /\ flow[i] = Sign(os[i]) * os[i].notional /\ flow[i] \in Int
                        /\ move[i] = Sign(os[i]) * os[i].filled /\ move[i] \in Int
    <2> SUFFICES ASSUME NEW i \in 1..N
                 PROVE  OpenPart(os[i]) \in Int /\ Sign(os[i]) * os[i].notional \in Int
                        /\ Sign(os[i]) * os[i].filled \in Int
      BY <1>1
    <2>1. /\ os[i].qty \in Nat /\ os[i].filled \in Nat /\ os[i].price \in Nat
          /\ os[i].notional \in Nat
      BY <1>1 DEF HistoryRow, OrderRow
    <2>2. (os[i].qty - os[i].filled) * os[i].price \in Int
      BY <2>1
    <2>3. Sign(os[i]) \in Int
      BY DEF Sign
    <2> QED
      BY <2>1, <2>2, <2>3 DEF OpenPart
  <1> HIDE DEF open, flow, move
  <1>3. 0 \in G
    <2>1. 1..0 = {}
      OBVIOUS
    <2>2. /\ SumFunctionOnSet(open, 1..0) = 0 /\ SumFunctionOnSet(flow, 1..0) = 0
          /\ SumFunctionOnSet(move, 1..0) = 0
      BY <2>1, SumNone
    <2>3. L[0] = [ok |-> TRUE, cash |-> capital, reserved |-> 0, realized |-> 0, qty |-> 0, cost |-> 0]
      BY DEF Folds, new_ledger
    <2>4. Closed(0)
      BY <2>2, <2>3 DEF Balanced
    <2> QED
      BY <1>1, <2>4
  <1>4. ASSUME NEW m \in 1..N, m - 1 \in G PROVE m \in G
    <2> SUFFICES ASSUME L[m].ok PROVE Closed(m)
      BY <1>1
    <2> DEFINE l == L[m - 1]
               o == os[m]
               r == L[m]
    <2>1. l \in LedgerState /\ o \in HistoryRow /\ r = FoldOrder(l, o) /\ m \in Nat \ {0}
      BY <1>1 DEF Folds
    <2>2. /\ r \in LedgerState /\ l.ok
          /\ Balanced(l, capital) => Balanced(r, capital)
          /\ r.reserved = l.reserved + OpenPart(o)
          /\ r.cash + r.reserved = l.cash + l.reserved - Sign(o) * o.notional
          /\ r.qty = l.qty + Sign(o) * o.filled
          /\ l.qty >= 0 => r.qty >= 0
      <3> HIDE DEF l, o
      <3> QED
        BY <2>1, FoldStep
    <2>3. Closed(m - 1)
      BY <1>4, <2>2
    <2>4. /\ \A i \in 1..m : open[i] \in Int /\ flow[i] \in Int /\ move[i] \in Int
          /\ open[m] = OpenPart(o) /\ flow[m] = Sign(o) * o.notional
          /\ move[m] = Sign(o) * o.filled
      <3>1. \A i \in 1..m : i \in 1..N
        BY <1>1
      <3> HIDE DEF N
      <3> QED
        BY <1>2, <3>1
    <2>5. /\ SumFunctionOnSet(open, 1..m) = open[m] + SumFunctionOnSet(open, 1..(m - 1))
          /\ SumFunctionOnSet(open, 1..(m - 1)) \in Int
      BY <2>1, <2>4, SumPrefix
    <2>6. /\ SumFunctionOnSet(flow, 1..m) = flow[m] + SumFunctionOnSet(flow, 1..(m - 1))
          /\ SumFunctionOnSet(flow, 1..(m - 1)) \in Int
      BY <2>1, <2>4, SumPrefix
    <2>7. /\ SumFunctionOnSet(move, 1..m) = move[m] + SumFunctionOnSet(move, 1..(m - 1))
          /\ SumFunctionOnSet(move, 1..(m - 1)) \in Int
      BY <2>1, <2>4, SumPrefix
    <2>8. open[m] \in Int /\ flow[m] \in Int /\ move[m] \in Int
      BY <1>2
    <2> DEFINE so == SumFunctionOnSet(open, 1..(m - 1))
               sf == SumFunctionOnSet(flow, 1..(m - 1))
               sm == SumFunctionOnSet(move, 1..(m - 1))
    <2>9. /\ l.reserved = so /\ l.cash + l.reserved = capital - sf /\ l.qty = sm /\ l.qty >= 0
          /\ Balanced(l, capital)
      BY <2>3
    <2>10. so \in Int /\ sf \in Int /\ sm \in Int
      BY <2>5, <2>6, <2>7
    <2>11. /\ r.reserved = so + open[m] /\ r.cash + r.reserved = capital - sf - flow[m]
           /\ r.qty = sm + move[m]
      <3> HIDE DEF so, sf, sm, r, l, o
      <3>1. r.reserved = so + open[m] /\ r.qty = sm + move[m]
        BY <2>2, <2>4, <2>9
      <3>2. r.cash + r.reserved = (l.cash + l.reserved) - flow[m]
        <4>1. r.cash + r.reserved = l.cash + (l.reserved - flow[m])
          BY <2>2, <2>4, Zenon
        <4>2. l.cash \in Int /\ l.reserved \in Int /\ flow[m] \in Int
          BY <2>1, <2>8 DEF LedgerState
        <4>3. l.cash + (l.reserved - flow[m]) = (l.cash + l.reserved) - flow[m]
          BY <4>2
        <4> QED
          BY <4>1, <4>3, Zenon
      <3>3. l.cash + l.reserved = capital - sf
        BY <2>9
      <3>4. r.cash + r.reserved = (capital - sf) - flow[m]
        BY <3>2, <3>3, Zenon
      <3> QED
        BY <3>1, <3>4, Zenon
    <2>12. /\ SumFunctionOnSet(open, 1..m) = open[m] + so
           /\ SumFunctionOnSet(flow, 1..m) = flow[m] + sf
           /\ SumFunctionOnSet(move, 1..m) = move[m] + sm
      BY <2>5, <2>6, <2>7
    <2>13. /\ r.reserved = SumFunctionOnSet(open, 1..m)
           /\ r.cash + r.reserved = capital - SumFunctionOnSet(flow, 1..m)
           /\ r.qty = SumFunctionOnSet(move, 1..m)
      <3> HIDE DEF so, sf, sm, r
      <3> QED
        BY <2>8, <2>10, <2>11, <2>12
    <2> QED
      BY <2>2, <2>9, <2>13
  <1>5. 0..N \subseteq G
    <2> HIDE DEF G
    <2> QED
      BY <1>1, <1>3, <1>4, UpTo
  <1>6. Closed(n)
    BY <1>5
  <1> QED
    BY <1>6 DEF open, flow, move, FoldsInto

\* The ledger that a whole history folds into, whatever its length: it
\* reserves what its open buys may still spend, no more and no less, its money
\* is the capital and what its fills have moved, and it is never short.
THEOREM HistoryFolds ==
  ASSUME NEW capital \in Nat, NEW os \in Seq(HistoryRow)
  PROVE  LET l == reconstruct_from_history(capital, os) IN
         /\ l \in LedgerState
         /\ l.ok =>
                /\ FoldsInto(l, capital, os, Len(os))
                /\ Balanced(l, capital)
                /\ l.reserved = SumFunction([i \in DOMAIN os |-> OpenPart(os[i])])
                /\ l.cash + l.reserved
                     = capital - SumFunction([i \in DOMAIN os |-> Sign(os[i]) * os[i].notional])
                /\ l.qty = SumFunction([i \in DOMAIN os |-> Sign(os[i]) * os[i].filled])
                /\ l.qty >= 0
  <1> DEFINE open == [i \in DOMAIN os |-> OpenPart(os[i])]
             flow == [i \in DOMAIN os |-> Sign(os[i]) * os[i].notional]
             move == [i \in DOMAIN os |-> Sign(os[i]) * os[i].filled]
             l == reconstruct_from_history(capital, os)
  <1>1. PICK L : Folds(L, capital, os) /\ L[Len(os)] = l
    BY FoldExists
  <1>2. Len(os) \in Nat /\ Len(os) \in 0..Len(os) /\ DOMAIN os = 1..Len(os)
    OBVIOUS
  <1>3. l \in LedgerState
    BY <1>1, <1>2 DEF Folds
  <1>4. /\ SumFunction(open) = SumFunctionOnSet(open, 1..Len(os))
        /\ SumFunction(flow) = SumFunctionOnSet(flow, 1..Len(os))
        /\ SumFunction(move) = SumFunctionOnSet(move, 1..Len(os))
    BY <1>2 DEF SumFunction
  <1>5. ASSUME l.ok
        PROVE  /\ FoldsInto(l, capital, os, Len(os))
               /\ Balanced(l, capital)
               /\ l.reserved = SumFunctionOnSet(open, 1..Len(os))
               /\ l.cash + l.reserved = capital - SumFunctionOnSet(flow, 1..Len(os))
               /\ l.qty = SumFunctionOnSet(move, 1..Len(os))
               /\ l.qty >= 0
    <2>1. L[Len(os)].ok
      BY <1>1, <1>5
    <2>2. /\ FoldsInto(L[Len(os)], capital, os, Len(os))
          /\ Balanced(L[Len(os)], capital)
          /\ L[Len(os)].reserved = SumFunctionOnSet(open, 1..Len(os))
          /\ L[Len(os)].cash + L[Len(os)].reserved = capital - SumFunctionOnSet(flow, 1..Len(os))
          /\ L[Len(os)].qty = SumFunctionOnSet(move, 1..Len(os))
          /\ L[Len(os)].qty >= 0
      <3>1. Folds(L, capital, os) /\ Len(os) \in 0..Len(os)
        BY <1>1, <1>2
      <3>2. FoldsInto(L[Len(os)], capital, os, Len(os))
        <4> HIDE DEF l, open, flow, move
        <4> QED
          BY <2>1, <3>1, FoldsTo
      <3> QED
        BY <3>2 DEF FoldsInto
    <2> HIDE DEF l, open, flow, move
    <2> QED
      BY <1>1, <2>2
  <1> HIDE DEF l, open, flow, move
  <1>6. l.ok =>
          /\ FoldsInto(l, capital, os, Len(os))
          /\ Balanced(l, capital) /\ l.reserved = SumFunction(open)
          /\ l.cash + l.reserved = capital - SumFunction(flow)
          /\ l.qty = SumFunction(move) /\ l.qty >= 0
    BY <1>4, <1>5
  <1> QED
    BY <1>3, <1>6 DEF l, open, flow, move

\* What an order does to the cash of its sleeve.
LEMMA EffectType == \A o \in HistoryRow :
    /\ CashEffect(o) \in Int /\ OpenPart(o) \in Nat /\ Sign(o) * o.notional \in Int
    /\ CashEffect(o) + Sign(o) * o.notional + OpenPart(o) = 0
    /\ Sign(o) * o.filled \in Int /\ Sign(o) \in Int
  <1> SUFFICES ASSUME NEW o \in HistoryRow
               PROVE  /\ CashEffect(o) \in Int /\ OpenPart(o) \in Nat
                      /\ Sign(o) * o.notional \in Int
                      /\ CashEffect(o) + Sign(o) * o.notional + OpenPart(o) = 0
                      /\ Sign(o) * o.filled \in Int /\ Sign(o) \in Int
    OBVIOUS
  <1>1. /\ o.qty \in Nat /\ o.filled \in Nat /\ o.price \in Nat /\ o.notional \in Nat
        /\ o.side \in {"buy", "sell"} /\ o.qty - o.filled \in Nat
    BY DEF HistoryRow, OrderRow, Side
  <1>2. OpenPart(o) \in Nat
    BY <1>1 DEF OpenPart
  <1>3. CASE o.side = "buy"
    <2>1. CashEffect(o) = -o.notional - OpenPart(o) /\ Sign(o) = 1
      BY <1>3 DEF CashEffect, Sign
    <2>2. Sign(o) * o.notional = o.notional /\ Sign(o) * o.filled = o.filled
      BY <1>1, <2>1
    <2>3. -o.notional - OpenPart(o) + o.notional + OpenPart(o) = 0
      BY <1>1, <1>2
    <2> QED
      BY <1>1, <1>2, <2>1, <2>2, <2>3
  <1>4. CASE o.side = "sell"
    <2>1. CashEffect(o) = o.notional /\ OpenPart(o) = 0 /\ Sign(o) = -1
      BY <1>4 DEF CashEffect, Sign, OpenPart
    <2>2. Sign(o) * o.notional = -o.notional /\ Sign(o) * o.filled = -o.filled
      BY <1>1, <2>1
    <2> QED
      BY <1>1, <2>1, <2>2
  <1> QED
    BY <1>1, <1>3, <1>4

\* The cash of a ledger is what the orders folded into it have left.
LEMMA LedgerCash ==
  ASSUME NEW os \in Seq(HistoryRow), NEW k \in 0..Len(os), NEW l \in LedgerState,
         FoldsInto(l, Capital, os, k)
  PROVE  l.cash = CashBefore(os, k + 1)
  <1> DEFINE N == Len(os)
             D == 1..k
             open == [i \in DOMAIN os |-> OpenPart(os[i])]
             flow == [i \in DOMAIN os |-> Sign(os[i]) * os[i].notional]
             eff == [i \in D |-> CashEffect(os[i])]
             both == [i \in D |-> flow[i] + open[i]]
             none == [i \in D |-> 0]
  <1>1. N \in Nat /\ DOMAIN os = 1..N /\ \A i \in 1..N : os[i] \in HistoryRow
    BY ElementOfSeq
  <1>2. \A i \in 1..N : /\ open[i] = OpenPart(os[i]) /\ open[i] \in Int
                        /\ flow[i] = Sign(os[i]) * os[i].notional /\ flow[i] \in Int
                        /\ CashEffect(os[i]) \in Int
                        /\ CashEffect(os[i]) + flow[i] + open[i] = 0
    BY <1>1, EffectType
  <1>3. /\ l.reserved = SumFunctionOnSet(open, D)
        /\ l.cash + l.reserved = Capital - SumFunctionOnSet(flow, D)
    BY DEF FoldsInto
  <1> HIDE DEF open, flow
  <1>4. IsFiniteSet(D) /\ k \in Nat /\ \A i \in D : i \in 1..N
    <2>1. k \in Nat /\ k <= N
      BY <1>1
    <2>2. IsFiniteSet(D)
      BY <2>1, FS_Interval
    <2> QED
      BY <1>1, <2>1, <2>2
  <1>5. \A i \in D : /\ eff[i] \in Int /\ both[i] \in Int /\ none[i] = eff[i] + both[i]
                    /\ flow[i] \in Int /\ open[i] \in Int /\ both[i] = flow[i] + open[i]
                    /\ none[i] = 0
    <2> SUFFICES ASSUME NEW i \in D
                 PROVE  /\ CashEffect(os[i]) \in Int /\ flow[i] + open[i] \in Int
                        /\ 0 = CashEffect(os[i]) + (flow[i] + open[i])
                        /\ flow[i] \in Int /\ open[i] \in Int
      OBVIOUS
    <2>1. i \in 1..N
      BY <1>4
    <2> HIDE DEF D, N
    <2> QED
      BY <1>2, <2>1
  <1>6. CashBefore(os, k + 1) = Capital + SumFunctionOnSet(eff, D)
    <2>1. (k + 1) - 1 = k
      BY <1>4
    <2> QED
      BY <2>1 DEF CashBefore, SumFunction
  <1> HIDE DEF eff, both, none, D
  <1>7. SumFunctionOnSet(none, D) = 0
    <2>1. \A i \in D : none[i] \in Int /\ (i \notin {} => none[i] = 0)
      BY <1>5
    <2>2. SumFunctionOnSet(none, D) = SumFunctionOnSet(none, {})
      BY <1>4, <2>1, {} \in SUBSET D, SumSupport
    <2> QED
      BY <2>2, SumNone
  <1>8. SumFunctionOnSet(none, D) = SumFunctionOnSet(eff, D) + SumFunctionOnSet(both, D)
    BY <1>4, <1>5, SumAdd
  <1>9. SumFunctionOnSet(both, D) = SumFunctionOnSet(flow, D) + SumFunctionOnSet(open, D)
    BY <1>4, <1>5, SumAdd
  <1>10. /\ SumFunctionOnSet(eff, D) \in Int /\ SumFunctionOnSet(flow, D) \in Int
         /\ SumFunctionOnSet(open, D) \in Int
    BY <1>4, <1>5, SumInt
  <1> DEFINE e == SumFunctionOnSet(eff, D)
             f == SumFunctionOnSet(flow, D)
             p == SumFunctionOnSet(open, D)
             cash == l.cash
  <1>11. /\ e + (f + p) = 0 /\ cash + p = Capital - f
         /\ e \in Int /\ f \in Int /\ p \in Int /\ cash \in Int /\ Capital \in Int
    BY <1>3, <1>7, <1>8, <1>9, <1>10, MoneyAssumption DEF LedgerState
  <1>12. cash = Capital + e
    <2> HIDE DEF e, f, p, cash
    <2> QED
      BY <1>11
  <1> QED
    BY <1>6, <1>12

\* A history folds when each buy is covered by what the orders before it leave
\* and no prefix of it sells more than it has bought: reserve and apply_fill
\* raise for no other reason.
THEOREM CoveredFolds ==
  ASSUME NEW os \in Seq(HistoryRow), Covered(os),
         \A n \in DOMAIN os : os[n].side = "buy" => os[n].price = Close,
         \A n \in DOMAIN os : SumFunction([i \in 1..n |-> Sign(os[i]) * os[i].filled]) >= 0
  PROVE  reconstruct_from_history(Capital, os).ok
  <1> DEFINE N == Len(os)
             move == [i \in DOMAIN os |-> Sign(os[i]) * os[i].filled]
  <1>1. PICK L : Folds(L, Capital, os) /\ L[N] = reconstruct_from_history(Capital, os)
    BY FoldExists, MoneyAssumption
  <1>2. N \in Nat /\ DOMAIN os = 1..N /\ \A i \in 1..N : os[i] \in HistoryRow
    BY ElementOfSeq
  <1>3. \A i \in 1..N : move[i] = Sign(os[i]) * os[i].filled /\ move[i] \in Int
    BY <1>2, EffectType
  <1> HIDE DEF move
  <1> DEFINE G == {m \in 0..N : L[m].ok}
  <1>4. 0 \in G
    BY <1>1, <1>2 DEF Folds, new_ledger
  <1>5. ASSUME NEW m \in 1..N, m - 1 \in G PROVE m \in G
    <2> DEFINE l == L[m - 1]
               o == os[m]
    <2>1. /\ l \in LedgerState /\ o \in HistoryRow /\ L[m] = FoldOrder(l, o) /\ l.ok
          /\ m \in Nat \ {0} /\ m \in DOMAIN os /\ m - 1 \in 0..Len(os)
      BY <1>1, <1>2, <1>5 DEF Folds
    <2>2. FoldsInto(l, Capital, os, m - 1)
      <3> DEFINE k == m - 1
      <3>1. Capital \in Nat /\ Folds(L, Capital, os) /\ k \in 0..Len(os) /\ L[k].ok
        BY <1>1, <2>1, MoneyAssumption
      <3> HIDE DEF k, G
      <3>2. FoldsInto(L[k], Capital, os, k)
        BY <3>1, FoldsTo
      <3> QED
        BY <3>2 DEF k
    <2>3. l.qty = SumFunctionOnSet(move, 1..(m - 1))
      BY <2>2 DEF FoldsInto, move
    <2>4. CASE o.side = "buy"
      <3>1. o.qty * Close <= CashBefore(os, m) /\ o.price = Close
        BY <2>1, <2>4 DEF Covered
      <3>2. l.cash = CashBefore(os, m)
        <4> DEFINE k == m - 1
        <4>1. k \in 0..Len(os) /\ k + 1 = m
          BY <2>1
        <4> HIDE DEF l
        <4>2. FoldsInto(l, Capital, os, k)
          BY <2>2
        <4> HIDE DEF k
        <4>3. l.cash = CashBefore(os, k + 1)
          BY <2>1, <4>1, <4>2, LedgerCash
        <4> QED
          BY <4>1, <4>3
      <3>3. FoldOrder(l, o).ok
        <4> HIDE DEF l, o
        <4> QED
          BY <2>1, <2>4, <3>1, <3>2, FoldStep
      <3> QED
        BY <2>1, <3>3
    <2>5. CASE o.side = "sell"
      <3> DEFINE g == [i \in 1..m |-> Sign(os[i]) * os[i].filled]
      <3>1. \A i \in 1..m : move[i] \in Int /\ g[i] = move[i]
        <4>1. \A i \in 1..m : i \in 1..N
          BY <1>2
        <4> HIDE DEF N
        <4> QED
          BY <1>3, <4>1
      <3>2. SumFunctionOnSet(g, 1..m) >= 0
        <4>1. SumFunction(g) >= 0
          BY <2>1
        <4> QED
          BY <4>1 DEF SumFunction
      <3> HIDE DEF g
      <3>3. SumFunctionOnSet(g, 1..m) = SumFunctionOnSet(move, 1..m)
        <4>1. IsFiniteSet(1..m)
          BY <2>1, FS_Interval
        <4> QED
          BY <3>1, <4>1, SumSame
      <3>4. SumFunctionOnSet(move, 1..m) = move[m] + l.qty
        <4>1. SumFunctionOnSet(move, 1..m) = move[m] + SumFunctionOnSet(move, 1..(m - 1))
          BY <2>1, <3>1, SumPrefix
        <4> QED
          BY <2>3, <4>1
      <3>5. move[m] = -o.filled /\ o.filled \in Nat /\ l.qty \in Int
        <4>1. o.filled \in Nat /\ l.qty \in Int
          BY <2>1 DEF HistoryRow, OrderRow, LedgerState
        <4>2. move[m] = Sign(o) * o.filled /\ Sign(o) = -1
          BY <1>3, <2>5 DEF Sign
        <4> QED
          BY <4>1, <4>2
      <3>6. o.filled <= l.qty
        <4> HIDE DEF l, o
        <4> QED
          BY <3>2, <3>3, <3>4, <3>5
      <3>7. FoldOrder(l, o).ok
        <4> HIDE DEF l, o
        <4> QED
          BY <2>1, <2>5, <3>6, FoldStep
      <3> QED
        BY <2>1, <3>7
    <2>6. o.side = "buy" \/ o.side = "sell"
      BY <2>1 DEF HistoryRow, OrderRow, Side
    <2> QED
      BY <2>4, <2>5, <2>6
  <1>6. 0..N \subseteq G
    <2> HIDE DEF G
    <2> QED
      BY <1>2, <1>4, <1>5, UpTo
  <1>7. L[N].ok
    BY <1>2, <1>6
  <1> QED
    BY <1>1, <1>7

-----------------------------------------------------------------------------
(* One order and the broker's view of it. *)

\* What an open sell still waits for.
Waiting(o, b) == IF o.side = "sell" /\ IsOpen(b) THEN o.qty - b.filled ELSE 0
\* The view v that a poll, or a cancellation, finds of an order.
Settles(o, b, v) ==
    v = b \/ (IsOpen(o) /\ IsOpen(b) /\ v = [b EXCEPT !.status = "canceled"])

\* What the numbers of a row and of the broker's view of it are.
LEMMA RowTypes ==
  ASSUME NEW o \in Order, NEW b \in View, NEW slip \in BOOLEAN, RowInv(o, b, slip)
  PROVE  /\ o \in HistoryRow
         /\ Sign(o) \in {1, -1} /\ Sign(o) * b.notional \in Int /\ Sign(o) * b.filled \in Int
         /\ Sign(o) * o.notional \in Int /\ Sign(o) * o.filled \in Int
         /\ Waiting(o, b) \in Nat /\ OpenPart(o) \in Nat /\ CashEffect(o) \in Int
  <1>1. /\ o.side \in Side /\ o.qty \in Nat /\ o.price \in Nat /\ o.status \in OrderStatus
        /\ o.filled \in Nat /\ o.notional \in Nat /\ b.filled \in Nat /\ b.notional \in Nat
        /\ o = [side |-> o.side, qty |-> o.qty, price |-> o.price, status |-> o.status,
                filled |-> o.filled, notional |-> o.notional]
    BY MoneyAssumption DEF Order, View
  <1>2. /\ o.filled <= b.filled /\ b.filled <= o.qty /\ (o.filled = 0 => o.notional = 0)
    BY DEF RowInv
  <1>3. o \in HistoryRow
    <2>1. o \in [side : Side, qty : Nat, price : Nat, status : OrderStatus,
                 filled : Nat, notional : Nat]
      BY <1>1
    <2> QED
      BY <1>1, <1>2, <2>1 DEF HistoryRow, OrderRow
  <1>4. Sign(o) \in {1, -1}
    BY DEF Sign
  <1>5. \A x \in Nat : Sign(o) * x \in Int
    BY <1>4
  <1>6. Waiting(o, b) \in Nat
    BY <1>1, <1>2 DEF Waiting
  <1> QED
    BY <1>1, <1>3, <1>4, <1>5, <1>6, EffectType

\* A poll or a cancellation of one order: nothing is bought or sold by it, and
\* the sleeve has no less cash after it.
LEMMA SettleRow ==
  ASSUME NEW o \in Order, NEW b \in View, NEW slip \in BOOLEAN, RowInv(o, b, slip),
         NEW v, Settles(o, b, v)
  PROVE  LET r == Recorded(o, v) IN
         /\ r \in Order /\ v \in View /\ RowInv(r, v, slip)
         /\ r.side = o.side /\ r.qty = o.qty /\ r.price = o.price /\ Sign(r) = Sign(o)
         /\ v.filled = b.filled /\ v.notional = b.notional
         /\ Waiting(r, v) <= Waiting(o, b)
         /\ ~slip => CashEffect(o) <= CashEffect(r)
  <1> DEFINE r == Recorded(o, v)
  <1>1. /\ o.side \in Side /\ o.qty \in Nat /\ o.price \in {0, Close} /\ o.status \in OrderStatus
        /\ o.filled \in Nat /\ o.notional \in Nat /\ b.filled \in Nat /\ b.notional \in Nat
        /\ b.status \in OrderStatus /\ Close \in Nat /\ o.price \in Nat
    BY MoneyAssumption DEF Order, View
  <1>2. /\ v \in View /\ v.filled = b.filled /\ v.notional = b.notional
        /\ IsOpen(v) => IsOpen(b)
        /\ v.status = b.status \/ (IsOpen(o) /\ IsOpen(b))
    BY DEF Settles, View, OrderStatus, Terminal, IsOpen
  <1>3. IsOpen(o) => r = [o EXCEPT !.filled = b.filled, !.notional = b.notional, !.status = v.status]
    BY <1>2 DEF Recorded
  <1>4. ~IsOpen(o) => r = o /\ v.status = o.status /\ o.filled = b.filled
    BY <1>2 DEF Recorded, RowInv
  <1>5. /\ r \in Order /\ r.side = o.side /\ r.qty = o.qty /\ r.price = o.price
        /\ r.filled = b.filled /\ r.status = v.status
        /\ IsOpen(o) => r.notional = b.notional
        /\ ~IsOpen(o) => r.notional = o.notional /\ o.notional = b.notional
    <2>1. CASE IsOpen(o)
      BY <1>1, <1>2, <1>3, <2>1 DEF Order, View
    <2>2. CASE ~IsOpen(o)
      BY <1>4, <2>2 DEF RowInv
    <2> QED
      BY <2>1, <2>2
  <1>6. r.notional = b.notional
    BY <1>5
  <1>7. Sign(r) = Sign(o)
    BY <1>5 DEF Sign
  <1> HIDE DEF r
  <1>8. /\ o.filled <= b.filled /\ b.filled <= o.qty /\ (IsOpen(b) => b.filled < o.qty)
        /\ o.notional <= b.notional /\ (o.filled = b.filled => o.notional = b.notional)
        /\ o.filled = 0 => o.notional = 0
        /\ o.side = "buy" => o.price = Close
        /\ o.side = "buy" /\ ~slip => b.notional - o.notional <= (b.filled - o.filled) * Close
    BY DEF RowInv
  <1>9. RowInv(r, v, slip)
    <2>1. IsOpen(v) <=> IsOpen(r)
      BY <1>5 DEF IsOpen
    <2>2. b.filled = 0 => b.notional = 0
      BY <1>1, <1>8
    <2>3. b.notional - b.notional <= (b.filled - b.filled) * Close
      BY <1>1
    <2> QED
      BY <1>1, <1>2, <1>5, <1>6, <1>8, <2>1, <2>2, <2>3 DEF RowInv
  <1>10. Waiting(r, v) <= Waiting(o, b)
    BY <1>1, <1>2, <1>5, <1>8 DEF Waiting
  <1>11. ASSUME ~slip PROVE CashEffect(o) <= CashEffect(r)
    <2>1. CASE o.side = "sell"
      BY <1>1, <1>5, <1>6, <1>8, <2>1 DEF CashEffect
    <2>2. CASE o.side = "buy" /\ ~IsOpen(o)
      <3>1. r = o /\ CashEffect(o) \in Int
        BY <1>4, <2>2, RowTypes
      <3> QED
        BY <3>1
    <2>3. CASE o.side = "buy" /\ IsOpen(o)
      <3> DEFINE n == o.notional   k == b.notional   f == o.filled   g == b.filled   q == o.qty
      <3>1. /\ n \in Nat /\ k \in Nat /\ f \in Nat /\ g \in Nat /\ q \in Nat
            /\ f <= g /\ g <= q /\ k - n <= (g - f) * Close
        BY <1>1, <1>8, <1>11, <2>3
      <3>2. CashEffect(o) = -n - (q - f) * Close
        BY <1>8, <2>3 DEF CashEffect, OpenPart
      <3>3. \/ CashEffect(r) = -k - (q - g) * Close
            \/ CashEffect(r) = -k - 0
        BY <1>5, <1>6, <1>8, <2>3 DEF CashEffect, OpenPart
      <3> HIDE DEF n, k, f, g, q
      <3>4. (q - f) * Close = (q - g) * Close + (g - f) * Close
        BY <1>1, <3>1
      <3>5. (q - g) * Close \in Nat /\ (g - f) * Close \in Nat
        <4>1. q - g \in Nat /\ g - f \in Nat
          BY <3>1
        <4> QED
          BY <1>1, <4>1
      <3> DEFINE u == (q - g) * Close   w == (g - f) * Close
      <3>6. -n - (u + w) <= -k - u /\ -n - (u + w) <= -k - 0
        <4>1. u \in Nat /\ w \in Nat /\ k - n <= w
          BY <3>1, <3>5
        <4> HIDE DEF u, w
        <4> QED
          BY <3>1, <4>1
      <3> QED
        BY <3>2, <3>3, <3>4, <3>6
    <2> QED
      BY <1>1, <2>1, <2>2, <2>3 DEF Side
  <1> QED
    BY <1>2, <1>5, <1>7, <1>9, <1>10, <1>11 DEF r

\* A share of an open order fills: the broker's view v of it afterwards, and
\* whether the sleeve has slipped.
FilledView(o, b, price) ==
    [status |-> IF b.filled + 1 = o.qty THEN "filled" ELSE b.status,
     filled |-> b.filled + 1, notional |-> b.notional + price]
Slips(o, price, slip, slip2) ==
    (slip => slip2) /\ (o.side = "buy" /\ price > o.price => slip2)
LEMMA FillRow ==
  ASSUME NEW o \in Order, NEW b \in View, NEW slip \in BOOLEAN, NEW slip2 \in BOOLEAN,
         RowInv(o, b, slip), IsOpen(b), NEW price \in Nat, Slips(o, price, slip, slip2)
  PROVE  LET v == FilledView(o, b, price) IN
         /\ v \in View /\ RowInv(o, v, slip2) /\ o.filled # v.filled
         /\ v.filled = b.filled + 1 /\ v.notional = b.notional + price
         /\ Waiting(o, v) = Waiting(o, b) - (IF o.side = "sell" THEN 1 ELSE 0)
         /\ o.side = "sell" => Waiting(o, b) >= 1
         /\ Sign(o) * v.notional = Sign(o) * b.notional + Sign(o) * price
         /\ Sign(o) * v.filled = Sign(o) * b.filled + Sign(o)
  <1> DEFINE v == FilledView(o, b, price)
  <1>1. /\ o.side \in Side /\ o.qty \in Nat /\ o.price \in {0, Close} /\ o.status \in OrderStatus
        /\ o.filled \in Nat /\ o.notional \in Nat /\ b.filled \in Nat /\ b.notional \in Nat
        /\ b.status \in OrderStatus /\ Close \in Nat
    BY MoneyAssumption DEF Order, View
  <1>2. /\ o.filled <= b.filled /\ b.filled < o.qty
        /\ o.notional <= b.notional
        /\ o.filled = 0 => o.notional = 0
        /\ IsOpen(o)
        /\ o.side = "buy" => o.price = Close
        /\ o.side = "buy" /\ ~slip => b.notional - o.notional <= (b.filled - o.filled) * Close
        /\ slip => slip2
        /\ o.side = "buy" /\ price > o.price => slip2
    BY DEF RowInv, IsOpen, Slips
  <1>3. v \in View /\ v.filled = b.filled + 1 /\ v.notional = b.notional + price
    BY <1>1 DEF View, OrderStatus, Terminal, FilledView
  <1>4. IsOpen(v) <=> b.filled + 1 # o.qty
    BY DEF IsOpen, Terminal, FilledView
  <1>5. ASSUME o.side = "buy", ~slip2
        PROVE  v.notional - o.notional <= (v.filled - o.filled) * Close
    <2> DEFINE n == o.notional   k == b.notional   f == o.filled   g == b.filled
    <2>1. /\ n \in Nat /\ k \in Nat /\ f \in Nat /\ g \in Nat /\ price <= Close
          /\ k - n <= (g - f) * Close
      BY <1>1, <1>2, <1>5
    <2> HIDE DEF n, k, f, g
    <2>2. ((g + 1) - f) * Close = (g - f) * Close + Close /\ (g - f) * Close \in Int
      BY <1>1, <2>1
    <2> DEFINE w == (g - f) * Close
    <2>3. (k + price) - n <= w + Close
      <3>1. k - n <= w /\ w \in Int
        BY <2>1, <2>2
      <3> HIDE DEF w
      <3> QED
        BY <1>1, <2>1, <3>1
    <2>4. (k + price) - n <= ((g + 1) - f) * Close
      BY <2>2, <2>3
    <2>5. v.notional = k + price /\ v.filled = g + 1
      BY <1>3 DEF k, g
    <2> HIDE DEF v
    <2> QED
      BY <2>4, <2>5 DEF n, f
  <1>6. RowInv(o, v, slip2)
    <2> HIDE DEF v
    <2> QED
      BY <1>1, <1>2, <1>3, <1>4, <1>5 DEF RowInv
  <1>7. /\ Waiting(o, v) = Waiting(o, b) - (IF o.side = "sell" THEN 1 ELSE 0)
        /\ o.side = "sell" => Waiting(o, b) >= 1
    <2> HIDE DEF v
    <2> QED
      BY <1>1, <1>2, <1>3, <1>4 DEF Waiting
  <1>8. /\ Sign(o) * v.notional = Sign(o) * b.notional + Sign(o) * price
        /\ Sign(o) * v.filled = Sign(o) * b.filled + Sign(o)
    <2>1. Sign(o) = 1 \/ Sign(o) = -1
      BY DEF Sign
    <2> HIDE DEF v
    <2>2. CASE Sign(o) = 1
      BY <1>1, <1>3, <2>2
    <2>3. CASE Sign(o) = -1
      BY <1>1, <1>3, <2>3
    <2> QED
      BY <2>1, <2>2, <2>3
  <1>9. o.filled # v.filled
    BY <1>1, <1>2, <1>3
  <1> HIDE DEF v
  <1> QED
    BY <1>3, <1>6, <1>7, <1>8, <1>9 DEF v

-----------------------------------------------------------------------------
(* The orders of a sleeve and the broker's views of them. *)

\* Sums of natural numbers are natural numbers.
LEMMA SumNat ==
  ASSUME NEW T, IsFiniteSet(T), NEW f, \A i \in T : f[i] \in Nat
  PROVE  SumFunctionOnSet(f, T) \in Nat
  <1> DEFINE none == [i \in T |-> 0]
  <1>1. \A i \in T : /\ f[i] \in Int /\ none[i] \in Int /\ none[i] <= f[i]
                     /\ (i \notin {} => none[i] = 0)
    OBVIOUS
  <1> HIDE DEF none
  <1>2. SumFunctionOnSet(none, T) <= SumFunctionOnSet(f, T)
    BY <1>1, SumLeq
  <1>3. SumFunctionOnSet(none, T) = SumFunctionOnSet(none, {})
    BY <1>1, {} \in SUBSET T, SumSupport
  <1>4. SumFunctionOnSet(f, T) \in Int
    BY <1>1, SumInt
  <1> QED
    BY <1>2, <1>3, <1>4, SumNone

\* A sum to which one more element is appended.
LEMMA SumAppend ==
  ASSUME NEW n \in Nat, NEW f, NEW g, DOMAIN f = 1..n, DOMAIN g = 1..(n + 1),
         \A i \in 1..n : f[i] \in Int /\ g[i] = f[i], g[n + 1] \in Int
  PROVE  SumFunction(g) = SumFunction(f) + g[n + 1]
  <1>1. \A i \in 1..(n + 1) : g[i] \in Int
    <2>1. \A i \in 1..(n + 1) : i \in 1..n \/ i = n + 1
      OBVIOUS
    <2> QED
      BY <2>1
  <1>2. n + 1 \in Nat \ {0} /\ (n + 1) - 1 = n
    OBVIOUS
  <1>3. /\ SumFunctionOnSet(g, 1..(n + 1)) = g[n + 1] + SumFunctionOnSet(g, 1..((n + 1) - 1))
        /\ SumFunctionOnSet(g, 1..((n + 1) - 1)) \in Int
    BY <1>1, <1>2, SumPrefix
  <1>4. SumFunctionOnSet(g, 1..n) = SumFunctionOnSet(f, 1..n)
    <2>1. IsFiniteSet(1..n)
      BY FS_Interval
    <2> QED
      BY <2>1, SumSame
  <1> QED
    BY <1>2, <1>3, <1>4 DEF SumFunction

\* What is known of each order of a sleeve, and of the sums over them.
LEMMA RowsTypes ==
  ASSUME NEW os \in Seq(Order), NEW bs \in Seq(View), NEW slip \in BOOLEAN, Rows(os, bs, slip)
  PROVE  /\ Len(os) \in Nat /\ DOMAIN os = 1..Len(os) /\ DOMAIN bs = DOMAIN os
         /\ IsFiniteSet(DOMAIN os) /\ os \in Seq(HistoryRow)
         /\ \A i \in DOMAIN os :
                /\ os[i] \in Order /\ bs[i] \in View /\ RowInv(os[i], bs[i], slip)
                /\ os[i] \in HistoryRow
                /\ Sign(os[i]) * bs[i].notional \in Int /\ Sign(os[i]) * bs[i].filled \in Int
                /\ Sign(os[i]) * os[i].notional \in Int /\ Sign(os[i]) * os[i].filled \in Int
                /\ Waiting(os[i], bs[i]) \in Nat /\ OpenPart(os[i]) \in Nat
                /\ CashEffect(os[i]) \in Int
  <1>1. /\ Len(os) \in Nat /\ DOMAIN os = 1..Len(os) /\ DOMAIN bs = DOMAIN os
        /\ IsFiniteSet(DOMAIN os)
    BY FS_Interval DEF Rows
  <1>2. \A i \in DOMAIN os : /\ os[i] \in Order /\ bs[i] \in View
                             /\ RowInv(os[i], bs[i], slip)
    <2>1. \A i \in DOMAIN os : os[i] \in Order
      BY <1>1, ElementOfSeq
    <2>2. \A i \in DOMAIN os : bs[i] \in View
      <3>1. DOMAIN bs = 1..Len(bs)
        OBVIOUS
      <3> QED
        BY <1>1, <3>1, ElementOfSeq
    <2> QED
      BY <2>1, <2>2 DEF Rows
  <1>3. \A i \in DOMAIN os :
                /\ os[i] \in HistoryRow
                /\ Sign(os[i]) * bs[i].notional \in Int /\ Sign(os[i]) * bs[i].filled \in Int
                /\ Sign(os[i]) * os[i].notional \in Int /\ Sign(os[i]) * os[i].filled \in Int
                /\ Waiting(os[i], bs[i]) \in Nat /\ OpenPart(os[i]) \in Nat
                /\ CashEffect(os[i]) \in Int
    <2> SUFFICES ASSUME NEW i \in DOMAIN os
                 PROVE  /\ os[i] \in HistoryRow
                        /\ Sign(os[i]) * bs[i].notional \in Int
                        /\ Sign(os[i]) * bs[i].filled \in Int
                        /\ Sign(os[i]) * os[i].notional \in Int
                        /\ Sign(os[i]) * os[i].filled \in Int
                        /\ Waiting(os[i], bs[i]) \in Nat /\ OpenPart(os[i]) \in Nat
                        /\ CashEffect(os[i]) \in Int
      OBVIOUS
    <2> QED
      BY <1>2, RowTypes
  <1>4. os \in Seq(HistoryRow)
    <2>1. os = [i \in 1..Len(os) |-> os[i]]
      BY <1>1
    <2>2. \A i \in 1..Len(os) : os[i] \in HistoryRow
      BY <1>1, <1>3
    <2> QED
      BY <1>1, <2>1, <2>2
  <1> QED
    BY <1>1, <1>2, <1>3, <1>4

\* The sums as functions of the order's number, to apply the lemmas on sums to.
SpentOn(os, bs) == [i \in DOMAIN os |-> Sign(os[i]) * bs[i].notional]
BoughtBy(os, bs) == [i \in DOMAIN os |-> Sign(os[i]) * bs[i].filled]
WaitingFor(os, bs) == [i \in DOMAIN os |-> Waiting(os[i], bs[i])]
Effects(os, n) == [i \in 1..(n - 1) |-> CashEffect(os[i])]

\* The sums over the orders of a sleeve, as sums over a set.
LEMMA SumsAre ==
  ASSUME NEW os, NEW bs
  PROVE  /\ Spent(os, bs) = SumFunctionOnSet(SpentOn(os, bs), DOMAIN os)
         /\ Bought(os, bs) = SumFunctionOnSet(BoughtBy(os, bs), DOMAIN os)
         /\ OnSale(os, bs) = SumFunctionOnSet(WaitingFor(os, bs), DOMAIN os)
         /\ \A n : CashBefore(os, n) = Capital + SumFunctionOnSet(Effects(os, n), 1..(n - 1))
         /\ DOMAIN SpentOn(os, bs) = DOMAIN os /\ DOMAIN BoughtBy(os, bs) = DOMAIN os
         /\ DOMAIN WaitingFor(os, bs) = DOMAIN os
         /\ \A i \in DOMAIN os : /\ SpentOn(os, bs)[i] = Sign(os[i]) * bs[i].notional
                                 /\ BoughtBy(os, bs)[i] = Sign(os[i]) * bs[i].filled
                                 /\ WaitingFor(os, bs)[i] = Waiting(os[i], bs[i])
  <1>1. Spent(os, bs) = SumFunctionOnSet(SpentOn(os, bs), DOMAIN os)
    BY DEF Spent, SumFunction, SpentOn
  <1>2. Bought(os, bs) = SumFunctionOnSet(BoughtBy(os, bs), DOMAIN os)
    BY DEF Bought, SumFunction, BoughtBy
  <1>3. OnSale(os, bs) = SumFunctionOnSet(WaitingFor(os, bs), DOMAIN os)
    BY DEF OnSale, SumFunction, WaitingFor, Waiting
  <1>4. \A n : CashBefore(os, n) = Capital + SumFunctionOnSet(Effects(os, n), 1..(n - 1))
    BY DEF CashBefore, SumFunction, Effects
  <1> QED
    BY <1>1, <1>2, <1>3, <1>4 DEF SpentOn, BoughtBy, WaitingFor

\* What the sums over the orders of a sleeve are.
LEMMA SumTypes ==
  ASSUME NEW os \in Seq(Order), NEW bs \in Seq(View), NEW slip \in BOOLEAN, Rows(os, bs, slip)
  PROVE  Spent(os, bs) \in Int /\ Bought(os, bs) \in Int /\ OnSale(os, bs) \in Nat
  <1>1. /\ IsFiniteSet(DOMAIN os)
        /\ \A i \in DOMAIN os : /\ SpentOn(os, bs)[i] \in Int /\ BoughtBy(os, bs)[i] \in Int
                                /\ WaitingFor(os, bs)[i] \in Nat
    <2>1. /\ IsFiniteSet(DOMAIN os)
          /\ \A i \in DOMAIN os : /\ Sign(os[i]) * bs[i].notional \in Int
                                  /\ Sign(os[i]) * bs[i].filled \in Int
                                  /\ Waiting(os[i], bs[i]) \in Nat
      BY RowsTypes
    <2>2. \A i \in DOMAIN os : /\ SpentOn(os, bs)[i] = Sign(os[i]) * bs[i].notional
                               /\ BoughtBy(os, bs)[i] = Sign(os[i]) * bs[i].filled
                               /\ WaitingFor(os, bs)[i] = Waiting(os[i], bs[i])
      BY SumsAre
    <2> QED
      BY <2>1, <2>2
  <1>2. Spent(os, bs) \in Int
    BY <1>1, SumInt, SumsAre
  <1>3. Bought(os, bs) \in Int
    BY <1>1, SumInt, SumsAre
  <1>4. OnSale(os, bs) \in Nat
    BY <1>1, SumNat, SumsAre
  <1> QED
    BY <1>2, <1>3, <1>4

\* A poll or a cancellation of a sleeve's orders: vs is found, rs is recorded.
Settled(os, bs, vs, rs) ==
    /\ Len(vs) = Len(os) /\ \A i \in DOMAIN os : Settles(os[i], bs[i], vs[i])
    /\ rs = [i \in DOMAIN os |-> Recorded(os[i], vs[i])]
LEMMA SettleRows ==
  ASSUME NEW os \in Seq(Order), NEW bs \in Seq(View), NEW slip \in BOOLEAN, Rows(os, bs, slip),
         NEW vs \in Seq(View), NEW rs, Settled(os, bs, vs, rs)
  PROVE  /\ rs \in Seq(Order) /\ Len(rs) = Len(os) /\ Rows(rs, vs, slip)
         /\ Spent(rs, vs) = Spent(os, bs) /\ Bought(rs, vs) = Bought(os, bs)
         /\ OnSale(rs, vs) <= OnSale(os, bs)
         /\ ~slip /\ Covered(os) => Covered(rs)
  <1> DEFINE D == DOMAIN os
  <1>0. /\ Len(vs) = Len(os) /\ \A i \in D : Settles(os[i], bs[i], vs[i])
        /\ rs = [i \in D |-> Recorded(os[i], vs[i])]
    BY DEF Settled
  <1>1. /\ Len(os) \in Nat /\ D = 1..Len(os) /\ DOMAIN bs = D /\ IsFiniteSet(D)
        /\ \A i \in D : /\ os[i] \in Order /\ bs[i] \in View /\ RowInv(os[i], bs[i], slip)
                        /\ CashEffect(os[i]) \in Int
    BY RowsTypes
  <1>2. \A i \in D : /\ rs[i] \in Order /\ vs[i] \in View /\ RowInv(rs[i], vs[i], slip)
                     /\ rs[i].side = os[i].side /\ rs[i].qty = os[i].qty
                     /\ Sign(rs[i]) = Sign(os[i])
                     /\ vs[i].filled = bs[i].filled /\ vs[i].notional = bs[i].notional
                     /\ Waiting(rs[i], vs[i]) <= Waiting(os[i], bs[i])
                     /\ ~slip => CashEffect(os[i]) <= CashEffect(rs[i])
    <2> SUFFICES ASSUME NEW i \in D
                 PROVE  /\ rs[i] \in Order /\ vs[i] \in View /\ RowInv(rs[i], vs[i], slip)
                        /\ rs[i].side = os[i].side /\ rs[i].qty = os[i].qty
                        /\ Sign(rs[i]) = Sign(os[i])
                        /\ vs[i].filled = bs[i].filled /\ vs[i].notional = bs[i].notional
                        /\ Waiting(rs[i], vs[i]) <= Waiting(os[i], bs[i])
                        /\ ~slip => CashEffect(os[i]) <= CashEffect(rs[i])
      OBVIOUS
    <2>1. rs[i] = Recorded(os[i], vs[i]) /\ Settles(os[i], bs[i], vs[i])
      BY <1>0
    <2> QED
      BY <1>1, <2>1, SettleRow
  <1>3. DOMAIN rs = D /\ rs \in Seq(Order) /\ Len(rs) = Len(os)
    <2>1. rs = [i \in 1..Len(os) |-> rs[i]] /\ DOMAIN rs = D
      BY <1>0, <1>1
    <2>2. \A i \in 1..Len(os) : rs[i] \in Order
      BY <1>1, <1>2
    <2> QED
      BY <1>1, <2>1, <2>2
  <1>4. Rows(rs, vs, slip)
    BY <1>0, <1>2, <1>3 DEF Rows
  <1>5. \A i \in D : /\ CashEffect(rs[i]) \in Int
                     /\ SpentOn(rs, vs)[i] = SpentOn(os, bs)[i] /\ SpentOn(os, bs)[i] \in Int
                     /\ BoughtBy(rs, vs)[i] = BoughtBy(os, bs)[i] /\ BoughtBy(os, bs)[i] \in Int
                     /\ WaitingFor(rs, vs)[i] <= WaitingFor(os, bs)[i]
                     /\ WaitingFor(rs, vs)[i] \in Int /\ WaitingFor(os, bs)[i] \in Int
    <2>1. \A i \in D : /\ CashEffect(rs[i]) \in Int /\ Waiting(rs[i], vs[i]) \in Int
                       /\ Waiting(os[i], bs[i]) \in Int
                       /\ Sign(os[i]) * bs[i].notional \in Int
                       /\ Sign(os[i]) * bs[i].filled \in Int
      <3>1. \A i \in DOMAIN rs : /\ CashEffect(rs[i]) \in Int
                                 /\ Waiting(rs[i], vs[i]) \in Nat
        <4> SUFFICES ASSUME NEW i \in D
                     PROVE  CashEffect(rs[i]) \in Int /\ Waiting(rs[i], vs[i]) \in Nat
          BY <1>3
        <4>1. rs[i] \in Order /\ vs[i] \in View /\ RowInv(rs[i], vs[i], slip)
          BY <1>2
        <4> QED
          BY <4>1, RowTypes
      <3>2. \A i \in DOMAIN os : /\ Waiting(os[i], bs[i]) \in Nat
                                 /\ Sign(os[i]) * bs[i].notional \in Int
                                 /\ Sign(os[i]) * bs[i].filled \in Int
        BY RowsTypes
      <3> QED
        BY <1>3, <3>1, <3>2
    <2>2. \A i \in D : /\ SpentOn(os, bs)[i] = Sign(os[i]) * bs[i].notional
                       /\ BoughtBy(os, bs)[i] = Sign(os[i]) * bs[i].filled
                       /\ WaitingFor(os, bs)[i] = Waiting(os[i], bs[i])
      BY SumsAre
    <2>3. \A i \in D : /\ SpentOn(rs, vs)[i] = Sign(rs[i]) * vs[i].notional
                       /\ BoughtBy(rs, vs)[i] = Sign(rs[i]) * vs[i].filled
                       /\ WaitingFor(rs, vs)[i] = Waiting(rs[i], vs[i])
      BY <1>3, SumsAre
    <2> SUFFICES ASSUME NEW i \in D
                 PROVE  /\ CashEffect(rs[i]) \in Int
                        /\ SpentOn(rs, vs)[i] = SpentOn(os, bs)[i] /\ SpentOn(os, bs)[i] \in Int
                        /\ BoughtBy(rs, vs)[i] = BoughtBy(os, bs)[i]
                        /\ BoughtBy(os, bs)[i] \in Int
                        /\ WaitingFor(rs, vs)[i] <= WaitingFor(os, bs)[i]
                        /\ WaitingFor(rs, vs)[i] \in Int /\ WaitingFor(os, bs)[i] \in Int
      OBVIOUS
    <2>4. SpentOn(rs, vs)[i] = SpentOn(os, bs)[i] /\ BoughtBy(rs, vs)[i] = BoughtBy(os, bs)[i]
      BY <1>2, <2>2, <2>3
    <2>5. WaitingFor(rs, vs)[i] <= WaitingFor(os, bs)[i]
      BY <1>2, <2>2, <2>3
    <2> QED
      BY <2>1, <2>2, <2>3, <2>4, <2>5
  <1>6. Spent(rs, vs) = Spent(os, bs)
    <2>1. SumFunctionOnSet(SpentOn(rs, vs), D) = SumFunctionOnSet(SpentOn(os, bs), D)
      BY <1>1, <1>5, SumSame
    <2> QED
      BY <1>3, <2>1, SumsAre
  <1>7. Bought(rs, vs) = Bought(os, bs)
    <2>1. SumFunctionOnSet(BoughtBy(rs, vs), D) = SumFunctionOnSet(BoughtBy(os, bs), D)
      BY <1>1, <1>5, SumSame
    <2> QED
      BY <1>3, <2>1, SumsAre
  <1>8. OnSale(rs, vs) <= OnSale(os, bs)
    <2>1. SumFunctionOnSet(WaitingFor(rs, vs), D) <= SumFunctionOnSet(WaitingFor(os, bs), D)
      BY <1>1, <1>5, SumLeq
    <2> QED
      BY <1>3, <2>1, SumsAre
  <1>9. ASSUME ~slip, Covered(os) PROVE Covered(rs)
    <2> SUFFICES ASSUME NEW n \in D, rs[n].side = "buy"
                 PROVE  rs[n].qty * Close <= CashBefore(rs, n)
      BY <1>3 DEF Covered
    <2>1. rs[n].qty = os[n].qty /\ os[n].qty * Close <= CashBefore(os, n)
      BY <1>2, <1>9 DEF Covered
    <2> DEFINE W == 1..(n - 1)
    <2>2. IsFiniteSet(W) /\ \A i \in W : i \in D
      <3>1. n - 1 \in Nat
        BY <1>1
      <3>2. IsFiniteSet(W)
        BY <3>1, FS_Interval
      <3>3. \A i \in W : i \in D
        BY <1>1
      <3> QED
        BY <3>2, <3>3
    <2>3. \A i \in W : /\ Effects(os, n)[i] \in Int /\ Effects(rs, n)[i] \in Int
                       /\ Effects(os, n)[i] <= Effects(rs, n)[i]
      BY <1>1, <1>2, <1>5, <1>9, <2>2 DEF Effects
    <2> HIDE DEF W
    <2>4. SumFunctionOnSet(Effects(os, n), W) <= SumFunctionOnSet(Effects(rs, n), W)
      BY <2>2, <2>3, SumLeq
    <2>5. SumFunctionOnSet(Effects(os, n), W) \in Int /\ SumFunctionOnSet(Effects(rs, n), W) \in Int
      BY <2>2, <2>3, SumInt
    <2>6. /\ CashBefore(os, n) = Capital + SumFunctionOnSet(Effects(os, n), W)
          /\ CashBefore(rs, n) = Capital + SumFunctionOnSet(Effects(rs, n), W)
      BY SumsAre DEF W
    <2>7. os[n].qty * Close \in Int /\ Capital \in Int
      <3>1. os[n].qty \in Nat
        BY <1>1 DEF Order
      <3>2. Close \in Nat /\ Capital \in Nat
        BY MoneyAssumption
      <3> QED
        BY <3>1, <3>2
    <2> QED
      BY <2>1, <2>4, <2>5, <2>6, <2>7
  <1> QED
    BY <1>3, <1>4, <1>6, <1>7, <1>8, <1>9

\* What Append does.
LEMMA Appended ==
  ASSUME NEW S, NEW q \in Seq(S), NEW x \in S
  PROVE  /\ Append(q, x) \in Seq(S) /\ Len(Append(q, x)) = Len(q) + 1 /\ Len(q) \in Nat
         /\ DOMAIN q = 1..Len(q) /\ DOMAIN Append(q, x) = 1..(Len(q) + 1)
         /\ \A i \in 1..Len(q) : Append(q, x)[i] = q[i]
         /\ Append(q, x)[Len(q) + 1] = x
  OBVIOUS

\* A new order is appended to the rows and to the broker's views.
Extended(os, bs, o, v, rs, vs) == rs = Append(os, o) /\ vs = Append(bs, v)
LEMMA AppendRows ==
  ASSUME NEW os \in Seq(Order), NEW bs \in Seq(View), NEW slip \in BOOLEAN, Rows(os, bs, slip),
         NEW o \in Order, NEW v \in View, RowInv(o, v, slip), v.filled = 0, v.notional = 0,
         NEW rs, NEW vs, Extended(os, bs, o, v, rs, vs)
  PROVE  /\ rs \in Seq(Order) /\ vs \in Seq(View) /\ Rows(rs, vs, slip)
         /\ Len(rs) = Len(os) + 1
         /\ Spent(rs, vs) = Spent(os, bs) /\ Bought(rs, vs) = Bought(os, bs)
         /\ OnSale(rs, vs) = OnSale(os, bs) + Waiting(o, v)
         /\ Covered(os) /\ (o.side = "buy" => o.qty * Close <= CashBefore(os, Len(os) + 1))
                => Covered(rs)
  <1> DEFINE n == Len(os)
  <1>1. /\ n \in Nat /\ Len(bs) = n /\ DOMAIN os = 1..n
        /\ \A i \in 1..n : RowInv(os[i], bs[i], slip)
    BY RowsTypes DEF Rows
  <1>2. /\ rs \in Seq(Order) /\ Len(rs) = n + 1 /\ DOMAIN rs = 1..(n + 1)
        /\ \A i \in 1..n : rs[i] = os[i]
        /\ rs[n + 1] = o
    BY Appended DEF Extended
  <1>3. /\ vs \in Seq(View) /\ Len(vs) = n + 1 /\ DOMAIN vs = 1..(n + 1)
        /\ \A i \in 1..n : vs[i] = bs[i]
        /\ vs[n + 1] = v
    BY <1>1, Appended DEF Extended
  <1>4. \A i \in 1..(n + 1) : i \in 1..n \/ i = n + 1
    BY <1>1
  <1>5. Rows(rs, vs, slip)
    BY <1>1, <1>2, <1>3, <1>4 DEF Rows
  <1>6. /\ n + 1 \in 1..(n + 1) /\ \A i \in 1..n : i \in 1..(n + 1)
    BY <1>1
  <1>7. Sign(o) * v.notional = 0 /\ Sign(o) * v.filled = 0 /\ Waiting(o, v) \in Nat
    <2>1. Sign(o) \in {1, -1} /\ Waiting(o, v) \in Nat
      BY RowTypes
    <2> QED
      BY <2>1
  <1>8. /\ \A i \in 1..n : /\ SpentOn(os, bs)[i] \in Int
                           /\ SpentOn(rs, vs)[i] = SpentOn(os, bs)[i]
                           /\ BoughtBy(os, bs)[i] \in Int
                           /\ BoughtBy(rs, vs)[i] = BoughtBy(os, bs)[i]
                           /\ WaitingFor(os, bs)[i] \in Int
                           /\ WaitingFor(rs, vs)[i] = WaitingFor(os, bs)[i]
        /\ SpentOn(rs, vs)[n + 1] = 0 /\ BoughtBy(rs, vs)[n + 1] = 0
        /\ WaitingFor(rs, vs)[n + 1] = Waiting(o, v)
        /\ DOMAIN SpentOn(os, bs) = 1..n /\ DOMAIN SpentOn(rs, vs) = 1..(n + 1)
        /\ DOMAIN BoughtBy(os, bs) = 1..n /\ DOMAIN BoughtBy(rs, vs) = 1..(n + 1)
        /\ DOMAIN WaitingFor(os, bs) = 1..n /\ DOMAIN WaitingFor(rs, vs) = 1..(n + 1)
    <2>1. \A i \in 1..n : /\ SpentOn(os, bs)[i] = Sign(os[i]) * bs[i].notional
                          /\ BoughtBy(os, bs)[i] = Sign(os[i]) * bs[i].filled
                          /\ WaitingFor(os, bs)[i] = Waiting(os[i], bs[i])
      BY <1>1, SumsAre
    <2>2. \A i \in 1..(n + 1) : /\ SpentOn(rs, vs)[i] = Sign(rs[i]) * vs[i].notional
                                /\ BoughtBy(rs, vs)[i] = Sign(rs[i]) * vs[i].filled
                                /\ WaitingFor(rs, vs)[i] = Waiting(rs[i], vs[i])
      BY <1>2 DEF SpentOn, BoughtBy, WaitingFor
    <2>3. \A i \in 1..n : /\ Sign(os[i]) * bs[i].notional \in Int
                          /\ Sign(os[i]) * bs[i].filled \in Int
                          /\ Waiting(os[i], bs[i]) \in Nat
      BY <1>1, RowsTypes
    <2>4. /\ DOMAIN SpentOn(os, bs) = 1..n /\ DOMAIN SpentOn(rs, vs) = 1..(n + 1)
          /\ DOMAIN BoughtBy(os, bs) = 1..n /\ DOMAIN BoughtBy(rs, vs) = 1..(n + 1)
          /\ DOMAIN WaitingFor(os, bs) = 1..n /\ DOMAIN WaitingFor(rs, vs) = 1..(n + 1)
      BY <1>1, <1>2, SumsAre
    <2>5. /\ SpentOn(rs, vs)[n + 1] = 0 /\ BoughtBy(rs, vs)[n + 1] = 0
          /\ WaitingFor(rs, vs)[n + 1] = Waiting(o, v)
      BY <1>2, <1>3, <1>6, <1>7, <2>2
    <2>6. ASSUME NEW i \in 1..n
          PROVE  /\ SpentOn(rs, vs)[i] = SpentOn(os, bs)[i] /\ SpentOn(os, bs)[i] \in Int
                 /\ BoughtBy(rs, vs)[i] = BoughtBy(os, bs)[i] /\ BoughtBy(os, bs)[i] \in Int
                 /\ WaitingFor(rs, vs)[i] = WaitingFor(os, bs)[i]
                 /\ WaitingFor(os, bs)[i] \in Int
      <3>1. i \in 1..(n + 1) /\ rs[i] = os[i] /\ vs[i] = bs[i]
        BY <1>2, <1>3, <1>6
      <3>2. /\ SpentOn(rs, vs)[i] = Sign(os[i]) * bs[i].notional
            /\ BoughtBy(rs, vs)[i] = Sign(os[i]) * bs[i].filled
            /\ WaitingFor(rs, vs)[i] = Waiting(os[i], bs[i])
        BY <2>2, <3>1
      <3>3. /\ SpentOn(os, bs)[i] = Sign(os[i]) * bs[i].notional
            /\ BoughtBy(os, bs)[i] = Sign(os[i]) * bs[i].filled
            /\ WaitingFor(os, bs)[i] = Waiting(os[i], bs[i])
        BY <2>1
      <3>4. /\ Sign(os[i]) * bs[i].notional \in Int /\ Sign(os[i]) * bs[i].filled \in Int
            /\ Waiting(os[i], bs[i]) \in Nat
        BY <2>3
      <3> QED
        BY <3>2, <3>3, <3>4
    <2> QED
      BY <2>4, <2>5, <2>6
  <1>9. \A os1, bs1 : /\ Spent(os1, bs1) = SumFunction(SpentOn(os1, bs1))
                      /\ Bought(os1, bs1) = SumFunction(BoughtBy(os1, bs1))
                      /\ OnSale(os1, bs1) = SumFunction(WaitingFor(os1, bs1))
    BY SumsAre DEF SumFunction
  <1> HIDE DEF n
  <1> DEFINE Grows(f, g) == /\ DOMAIN f = 1..n /\ DOMAIN g = 1..(n + 1) /\ g[n + 1] \in Int
                            /\ \A i \in 1..n : f[i] \in Int /\ g[i] = f[i]
  <1>10. ASSUME NEW f, NEW g, Grows(f, g) PROVE SumFunction(g) = SumFunction(f) + g[n + 1]
    BY <1>1, <1>10, SumAppend
  <1>11. /\ Grows(SpentOn(os, bs), SpentOn(rs, vs)) /\ Grows(BoughtBy(os, bs), BoughtBy(rs, vs))
         /\ Grows(WaitingFor(os, bs), WaitingFor(rs, vs))
    BY <1>7, <1>8
  <1> HIDE DEF Grows
  <1>12. Spent(rs, vs) = Spent(os, bs)
    <2>1. SumFunction(SpentOn(rs, vs)) = SumFunction(SpentOn(os, bs)) + SpentOn(rs, vs)[n + 1]
      BY <1>10, <1>11
    <2> QED
      BY <1>8, <1>9, <2>1, SumTypes
  <1>13. Bought(rs, vs) = Bought(os, bs)
    <2>1. SumFunction(BoughtBy(rs, vs)) = SumFunction(BoughtBy(os, bs)) + BoughtBy(rs, vs)[n + 1]
      BY <1>10, <1>11
    <2> QED
      BY <1>8, <1>9, <2>1, SumTypes
  <1>14. OnSale(rs, vs) = OnSale(os, bs) + Waiting(o, v)
    <2>1. SumFunction(WaitingFor(rs, vs))
             = SumFunction(WaitingFor(os, bs)) + WaitingFor(rs, vs)[n + 1]
      BY <1>10, <1>11
    <2> QED
      BY <1>8, <1>9, <2>1
  <1>15. ASSUME Covered(os), o.side = "buy" => o.qty * Close <= CashBefore(os, n + 1)
         PROVE  Covered(rs)
    <2>1. ASSUME NEW k \in 1..(n + 1) PROVE CashBefore(rs, k) = CashBefore(os, k)
      <3>1. \A i \in 1..(k - 1) : rs[i] = os[i]
        <4>1. \A i \in 1..(k - 1) : i \in 1..n
          BY <1>1
        <4> QED
          BY <1>2, <4>1
      <3>2. [i \in 1..(k - 1) |-> CashEffect(rs[i])] = [i \in 1..(k - 1) |-> CashEffect(os[i])]
        BY <3>1
      <3> QED
        BY <3>2 DEF CashBefore
    <2> SUFFICES ASSUME NEW k \in 1..(n + 1), rs[k].side = "buy"
                 PROVE  rs[k].qty * Close <= CashBefore(rs, k)
      BY <1>2 DEF Covered
    <2>2. CASE k \in 1..n
      <3>1. rs[k] = os[k] /\ k \in DOMAIN os
        BY <1>1, <1>2, <2>2 DEF n
      <3> QED
        BY <1>15, <2>1, <3>1 DEF Covered
    <2>3. CASE k = n + 1
      BY <1>2, <1>15, <2>1, <2>3
    <2> QED
      BY <1>4, <2>2, <2>3
  <1> QED
    BY <1>2, <1>3, <1>5, <1>12, <1>13, <1>14, <1>15 DEF n

\* A share of the i-th order fills: the broker's view v of it replaces the old one.
Changed(bs, i, v, vs) == vs = [bs EXCEPT ![i] = v]
LEMMA FillRows ==
  ASSUME NEW os \in Seq(Order), NEW bs \in Seq(View), NEW slip \in BOOLEAN, Rows(os, bs, slip),
         NEW slip2 \in BOOLEAN, slip => slip2, NEW i \in DOMAIN os, NEW v \in View,
         RowInv(os[i], v, slip2), NEW vs, Changed(bs, i, v, vs)
  PROVE  /\ vs \in Seq(View) /\ Rows(os, vs, slip2)
         /\ Spent(os, vs) = Spent(os, bs)
                + (Sign(os[i]) * v.notional - Sign(os[i]) * bs[i].notional)
         /\ Bought(os, vs) = Bought(os, bs)
                + (Sign(os[i]) * v.filled - Sign(os[i]) * bs[i].filled)
         /\ OnSale(os, vs) = OnSale(os, bs) + (Waiting(os[i], v) - Waiting(os[i], bs[i]))
         /\ Waiting(os[i], bs[i]) <= OnSale(os, bs)
  <1> DEFINE D == DOMAIN os
  <1>1. /\ Len(os) \in Nat /\ D = 1..Len(os) /\ DOMAIN bs = D /\ IsFiniteSet(D)
        /\ \A j \in D : /\ os[j] \in Order /\ bs[j] \in View /\ RowInv(os[j], bs[j], slip)
                        /\ Waiting(os[j], bs[j]) \in Nat
    BY RowsTypes
  <1>2. /\ DOMAIN vs = D /\ vs[i] = v /\ \A j \in D : j # i => vs[j] = bs[j]
        /\ Len(bs) = Len(os) /\ vs = [bs EXCEPT ![i] = v]
    BY <1>1 DEF Rows, Changed
  <1>3. vs \in Seq(View) /\ Len(vs) = Len(os)
    <2>1. vs = [j \in 1..Len(os) |-> vs[j]]
      BY <1>1, <1>2
    <2>2. \A j \in 1..Len(os) : vs[j] \in View
      BY <1>1, <1>2
    <2> QED
      BY <1>1, <2>1, <2>2
  <1>4. Rows(os, vs, slip2)
    <2>1. \A j \in D : RowInv(os[j], vs[j], slip2)
      <3> SUFFICES ASSUME NEW j \in D, j # i PROVE RowInv(os[j], bs[j], slip2)
        BY <1>2
      <3>1. RowInv(os[j], bs[j], slip)
        BY <1>1
      <3> QED
        BY <3>1 DEF RowInv
    <2> QED
      BY <1>3, <2>1 DEF Rows
  <1>5. \A j \in D : /\ SpentOn(os, bs)[j] = Sign(os[j]) * bs[j].notional
                     /\ BoughtBy(os, bs)[j] = Sign(os[j]) * bs[j].filled
                     /\ WaitingFor(os, bs)[j] = Waiting(os[j], bs[j])
                     /\ SpentOn(os, bs)[j] \in Int /\ BoughtBy(os, bs)[j] \in Int
                     /\ WaitingFor(os, bs)[j] \in Nat
    <2>1. \A j \in D : /\ Sign(os[j]) * bs[j].notional \in Int
                       /\ Sign(os[j]) * bs[j].filled \in Int
                       /\ Waiting(os[j], bs[j]) \in Nat
      BY RowsTypes
    <2>2. \A j \in D : /\ SpentOn(os, bs)[j] = Sign(os[j]) * bs[j].notional
                       /\ BoughtBy(os, bs)[j] = Sign(os[j]) * bs[j].filled
                       /\ WaitingFor(os, bs)[j] = Waiting(os[j], bs[j])
      BY SumsAre
    <2> QED
      BY <2>1, <2>2
  <1>6. \A j \in D : /\ SpentOn(os, vs)[j] = Sign(os[j]) * vs[j].notional
                     /\ BoughtBy(os, vs)[j] = Sign(os[j]) * vs[j].filled
                     /\ WaitingFor(os, vs)[j] = Waiting(os[j], vs[j])
                     /\ SpentOn(os, vs)[j] \in Int /\ BoughtBy(os, vs)[j] \in Int
                     /\ WaitingFor(os, vs)[j] \in Int
    <2>1. \A j \in D : /\ Sign(os[j]) * vs[j].notional \in Int
                       /\ Sign(os[j]) * vs[j].filled \in Int
                       /\ Waiting(os[j], vs[j]) \in Nat
      <3> SUFFICES ASSUME NEW j \in D
                   PROVE  /\ Sign(os[j]) * vs[j].notional \in Int
                          /\ Sign(os[j]) * vs[j].filled \in Int
                          /\ Waiting(os[j], vs[j]) \in Nat
        OBVIOUS
      <3>1. os[j] \in Order /\ vs[j] \in View /\ RowInv(os[j], vs[j], slip2)
        BY <1>1, <1>2, <1>4 DEF Rows
      <3> QED
        BY <3>1, RowTypes
    <2>2. \A j \in D : /\ SpentOn(os, vs)[j] = Sign(os[j]) * vs[j].notional
                       /\ BoughtBy(os, vs)[j] = Sign(os[j]) * vs[j].filled
                       /\ WaitingFor(os, vs)[j] = Waiting(os[j], vs[j])
      BY DEF SpentOn, BoughtBy, WaitingFor
    <2>3. \A j \in D : /\ SpentOn(os, vs)[j] \in Int /\ BoughtBy(os, vs)[j] \in Int
                       /\ WaitingFor(os, vs)[j] \in Int
      <3> SUFFICES ASSUME NEW j \in D
                   PROVE  /\ SpentOn(os, vs)[j] \in Int /\ BoughtBy(os, vs)[j] \in Int
                          /\ WaitingFor(os, vs)[j] \in Int
        OBVIOUS
      <3>1. /\ SpentOn(os, vs)[j] = Sign(os[j]) * vs[j].notional
            /\ BoughtBy(os, vs)[j] = Sign(os[j]) * vs[j].filled
            /\ WaitingFor(os, vs)[j] = Waiting(os[j], vs[j])
        BY <2>2, Zenon
      <3>2. /\ Sign(os[j]) * vs[j].notional \in Int /\ Sign(os[j]) * vs[j].filled \in Int
            /\ Waiting(os[j], vs[j]) \in Int
        BY <2>1
      <3> QED
        BY <3>1, <3>2, Zenon
    <2> QED
      BY <2>2, <2>3
  <1>7. /\ OneChange(SpentOn(os, bs), SpentOn(os, vs), D, i)
        /\ OneChange(BoughtBy(os, bs), BoughtBy(os, vs), D, i)
        /\ OneChange(WaitingFor(os, bs), WaitingFor(os, vs), D, i)
    <2> SUFFICES ASSUME NEW j \in D
                 PROVE  /\ SpentOn(os, bs)[j] \in Int /\ SpentOn(os, vs)[j] \in Int
                        /\ BoughtBy(os, bs)[j] \in Int /\ BoughtBy(os, vs)[j] \in Int
                        /\ WaitingFor(os, bs)[j] \in Int /\ WaitingFor(os, vs)[j] \in Int
                        /\ j # i => /\ SpentOn(os, vs)[j] = SpentOn(os, bs)[j]
                                    /\ BoughtBy(os, vs)[j] = BoughtBy(os, bs)[j]
                                    /\ WaitingFor(os, vs)[j] = WaitingFor(os, bs)[j]
      BY DEF OneChange
    <2>1. j # i => vs[j] = bs[j]
      BY <1>2
    <2>2. /\ SpentOn(os, bs)[j] \in Int /\ BoughtBy(os, bs)[j] \in Int
          /\ WaitingFor(os, bs)[j] \in Int
      BY <1>5
    <2>3. /\ SpentOn(os, vs)[j] \in Int /\ BoughtBy(os, vs)[j] \in Int
          /\ WaitingFor(os, vs)[j] \in Int
      BY <1>6, Zenon
    <2>4. j # i => /\ SpentOn(os, vs)[j] = SpentOn(os, bs)[j]
                   /\ BoughtBy(os, vs)[j] = BoughtBy(os, bs)[j]
                   /\ WaitingFor(os, vs)[j] = WaitingFor(os, bs)[j]
      BY <2>1 DEF SpentOn, BoughtBy, WaitingFor
    <2> QED
      BY <2>2, <2>3, <2>4
  <1>9. /\ SumFunctionOnSet(SpentOn(os, vs), D) = SumFunctionOnSet(SpentOn(os, bs), D)
                + (SpentOn(os, vs)[i] - SpentOn(os, bs)[i])
        /\ SumFunctionOnSet(BoughtBy(os, vs), D) = SumFunctionOnSet(BoughtBy(os, bs), D)
                + (BoughtBy(os, vs)[i] - BoughtBy(os, bs)[i])
        /\ SumFunctionOnSet(WaitingFor(os, vs), D) = SumFunctionOnSet(WaitingFor(os, bs), D)
                + (WaitingFor(os, vs)[i] - WaitingFor(os, bs)[i])
    <2>1. i \in D /\ IsFiniteSet(D)
      BY <1>1
    <2> HIDE DEF D
    <2> QED
      BY <1>7, <2>1, SumChange
  <1>10. Waiting(os[i], bs[i]) <= OnSale(os, bs)
    <2> DEFINE w == WaitingFor(os, bs)
    <2>1. \A j \in D : w[j] \in Nat
      BY <1>5
    <2>2. IsFiniteSet(D) /\ i \in D /\ D \ {i} \in SUBSET D
      BY <1>1
    <2>3. IsFiniteSet(D \ {i})
      BY <2>2, FS_Subset
    <2> HIDE DEF w, D
    <2>4. SumFunctionOnSet(w, D) = w[i] + SumFunctionOnSet(w, D \ {i})
      BY <2>1, <2>2, SumTake
    <2>5. SumFunctionOnSet(w, D \ {i}) \in Nat
      BY <2>1, <2>3, SumNat
    <2>6. w[i] <= SumFunctionOnSet(w, D)
      BY <2>1, <2>2, <2>4, <2>5
    <2> QED
      BY <1>5, <2>6, SumsAre DEF w, D
  <1>11. /\ SpentOn(os, vs)[i] = Sign(os[i]) * v.notional
         /\ BoughtBy(os, vs)[i] = Sign(os[i]) * v.filled
         /\ WaitingFor(os, vs)[i] = Waiting(os[i], v)
    BY <1>2, <1>6
  <1>12. /\ Spent(os, vs) = Spent(os, bs)
                + (Sign(os[i]) * v.notional - Sign(os[i]) * bs[i].notional)
         /\ Bought(os, vs) = Bought(os, bs)
                + (Sign(os[i]) * v.filled - Sign(os[i]) * bs[i].filled)
         /\ OnSale(os, vs) = OnSale(os, bs) + (Waiting(os[i], v) - Waiting(os[i], bs[i]))
    BY <1>5, <1>9, <1>11, SumsAre
  <1> QED
    BY <1>3, <1>4, <1>10, <1>12

-----------------------------------------------------------------------------
(* The books of the group: all rows, all views, and the account. *)

TotalSpent(os, bs) == SumFunction([s \in Sleeves |-> Spent(os[s], bs[s])])
TotalBought(os, bs) == SumFunction([s \in Sleeves |-> Bought(os[s], bs[s])])
TotalOnSale(os, bs) == SumFunction([s \in Sleeves |-> OnSale(os[s], bs[s])])
Funds == Cardinality(Sleeves) * Capital + Float

\* The part of the invariant that is about orders and the account: its cash and
\* shares without what exit legs have made of them, and the shares they leave free.
BookTypes(os, bs, sl) ==
    /\ os \in [Sleeves -> Seq(Order)] /\ bs \in [Sleeves -> Seq(View)] /\ sl \in SUBSET Sleeves
    /\ \A s \in Sleeves : Rows(os[s], bs[s], s \in sl)
Books(os, bs, acc, hand, sl) ==
    /\ BookTypes(os, bs, sl) /\ acc \in [cash : Int, qty : Int, free : Nat]
    /\ hand = 0 => acc.cash = Funds - TotalSpent(os, bs) /\ acc.qty = TotalBought(os, bs)
    /\ TotalOnSale(os, bs) <= acc.free
    /\ \A s \in Sleeves \ sl : Covered(os[s])

\* What the sleeves start with, and the rest of the account.
LEMMA FundsType == Funds \in Int
  <1>1. Cardinality(Sleeves) \in Nat
    BY SleevesAssumption, FS_CardinalityType
  <1> QED
    BY <1>1, MoneyAssumption DEF Funds

\* Only the orders of the sleeve s change.
OnlyOf(s, os, bs, os2, bs2) == \A t \in Sleeves : t # s => os2[t] = os[t] /\ bs2[t] = bs[t]
\* The orders and views of s are replaced by rs and vs.
Replaced(os, bs, s, rs, vs, os2, bs2) ==
    os2 = [os EXCEPT ![s] = rs] /\ bs2 = [bs EXCEPT ![s] = vs]

\* The sums over the sleeves, when the orders of one sleeve s change.
LEMMA TotalsChange ==
  ASSUME NEW os, NEW bs, NEW sl, BookTypes(os, bs, sl),
         NEW os2, NEW bs2, NEW sl2, BookTypes(os2, bs2, sl2), NEW s \in Sleeves,
         OnlyOf(s, os, bs, os2, bs2)
  PROVE  /\ TotalSpent(os, bs) \in Int /\ TotalBought(os, bs) \in Int
         /\ TotalOnSale(os, bs) \in Nat /\ TotalOnSale(os2, bs2) \in Nat
         /\ OnSale(os[s], bs[s]) <= TotalOnSale(os, bs)
         /\ TotalSpent(os2, bs2)
              = TotalSpent(os, bs) + (Spent(os2[s], bs2[s]) - Spent(os[s], bs[s]))
         /\ TotalBought(os2, bs2)
              = TotalBought(os, bs) + (Bought(os2[s], bs2[s]) - Bought(os[s], bs[s]))
         /\ TotalOnSale(os2, bs2)
              = TotalOnSale(os, bs) + (OnSale(os2[s], bs2[s]) - OnSale(os[s], bs[s]))
  <1> DEFINE f1 == [t \in Sleeves |-> Spent(os[t], bs[t])]
             f2 == [t \in Sleeves |-> Spent(os2[t], bs2[t])]
             g1 == [t \in Sleeves |-> Bought(os[t], bs[t])]
             g2 == [t \in Sleeves |-> Bought(os2[t], bs2[t])]
             h1 == [t \in Sleeves |-> OnSale(os[t], bs[t])]
             h2 == [t \in Sleeves |-> OnSale(os2[t], bs2[t])]
  <1>1. \A t \in Sleeves : f1[t] \in Int /\ g1[t] \in Int /\ h1[t] \in Nat
    <2> SUFFICES ASSUME NEW t \in Sleeves
                 PROVE  /\ Spent(os[t], bs[t]) \in Int /\ Bought(os[t], bs[t]) \in Int
                        /\ OnSale(os[t], bs[t]) \in Nat
      OBVIOUS
    <2>1. /\ os[t] \in Seq(Order) /\ bs[t] \in Seq(View) /\ (t \in sl) \in BOOLEAN
          /\ Rows(os[t], bs[t], t \in sl)
      BY DEF BookTypes
    <2> QED
      BY <2>1, SumTypes
  <1>2. \A t \in Sleeves : f2[t] \in Int /\ g2[t] \in Int /\ h2[t] \in Nat
    <2> SUFFICES ASSUME NEW t \in Sleeves
                 PROVE  /\ Spent(os2[t], bs2[t]) \in Int /\ Bought(os2[t], bs2[t]) \in Int
                        /\ OnSale(os2[t], bs2[t]) \in Nat
      OBVIOUS
    <2>1. /\ os2[t] \in Seq(Order) /\ bs2[t] \in Seq(View) /\ (t \in sl2) \in BOOLEAN
          /\ Rows(os2[t], bs2[t], t \in sl2)
      BY DEF BookTypes
    <2> QED
      BY <2>1, SumTypes
  <1>3. \A t \in Sleeves : t # s => f2[t] = f1[t] /\ g2[t] = g1[t] /\ h2[t] = h1[t]
    BY DEF OnlyOf
  <1>4. /\ TotalSpent(os, bs) = SumFunctionOnSet(f1, Sleeves)
        /\ TotalSpent(os2, bs2) = SumFunctionOnSet(f2, Sleeves)
        /\ TotalBought(os, bs) = SumFunctionOnSet(g1, Sleeves)
        /\ TotalBought(os2, bs2) = SumFunctionOnSet(g2, Sleeves)
        /\ TotalOnSale(os, bs) = SumFunctionOnSet(h1, Sleeves)
        /\ TotalOnSale(os2, bs2) = SumFunctionOnSet(h2, Sleeves)
    BY DEF TotalSpent, TotalBought, TotalOnSale, SumFunction
  <1>5. /\ f1[s] = Spent(os[s], bs[s]) /\ f2[s] = Spent(os2[s], bs2[s])
        /\ g1[s] = Bought(os[s], bs[s]) /\ g2[s] = Bought(os2[s], bs2[s])
        /\ h1[s] = OnSale(os[s], bs[s]) /\ h2[s] = OnSale(os2[s], bs2[s])
    OBVIOUS
  <1> HIDE DEF f1, f2, g1, g2, h1, h2
  <1>6. IsFiniteSet(Sleeves)
    BY SleevesAssumption
  <1>7. /\ OneChange(f1, f2, Sleeves, s) /\ OneChange(g1, g2, Sleeves, s)
        /\ OneChange(h1, h2, Sleeves, s)
    BY <1>1, <1>2, <1>3 DEF OneChange
  <1>8. /\ SumFunctionOnSet(f2, Sleeves) = SumFunctionOnSet(f1, Sleeves) + (f2[s] - f1[s])
        /\ SumFunctionOnSet(g2, Sleeves) = SumFunctionOnSet(g1, Sleeves) + (g2[s] - g1[s])
        /\ SumFunctionOnSet(h2, Sleeves) = SumFunctionOnSet(h1, Sleeves) + (h2[s] - h1[s])
    BY <1>6, <1>7, SumChange
  <1>9. SumFunctionOnSet(f1, Sleeves) \in Int /\ SumFunctionOnSet(g1, Sleeves) \in Int
    BY <1>1, <1>6, SumInt
  <1>10. SumFunctionOnSet(h1, Sleeves) \in Nat /\ SumFunctionOnSet(h2, Sleeves) \in Nat
    BY <1>1, <1>2, <1>6, SumNat
  <1>11. h1[s] <= SumFunctionOnSet(h1, Sleeves)
    <2>1. IsFiniteSet(Sleeves \ {s})
      BY <1>6, FS_Subset
    <2>2. SumFunctionOnSet(h1, Sleeves) = h1[s] + SumFunctionOnSet(h1, Sleeves \ {s})
      BY <1>1, <1>6, SumTake
    <2>3. SumFunctionOnSet(h1, Sleeves \ {s}) \in Nat
      <3>1. \A t \in Sleeves \ {s} : h1[t] \in Nat
        BY <1>1
      <3> QED
        BY <2>1, <3>1, SumNat
    <2> QED
      BY <1>1, <2>2, <2>3
  <1> QED
    BY <1>4, <1>5, <1>8, <1>9, <1>10, <1>11

\* The pieces that a change of one sleeve's orders is made of.
LEMMA OneSleeve ==
  ASSUME NEW os, NEW bs, NEW sl, BookTypes(os, bs, sl), NEW s \in Sleeves,
         NEW rs \in Seq(Order), NEW vs \in Seq(View), NEW sl2 \in SUBSET Sleeves,
         sl2 = sl \/ sl2 = sl \cup {s}, Rows(rs, vs, s \in sl2),
         NEW os2, NEW bs2, Replaced(os, bs, s, rs, vs, os2, bs2)
  PROVE  /\ BookTypes(os2, bs2, sl2) /\ os2[s] = rs /\ bs2[s] = vs
         /\ OnlyOf(s, os, bs, os2, bs2)
         /\ os[s] \in Seq(Order) /\ bs[s] \in Seq(View) /\ Rows(os[s], bs[s], s \in sl)
  <1>1. /\ os \in [Sleeves -> Seq(Order)] /\ bs \in [Sleeves -> Seq(View)]
        /\ \A t \in Sleeves : Rows(os[t], bs[t], t \in sl)
    BY DEF BookTypes
  <1>2. /\ os2 \in [Sleeves -> Seq(Order)] /\ bs2 \in [Sleeves -> Seq(View)]
        /\ os2[s] = rs /\ bs2[s] = vs
        /\ \A t \in Sleeves : t # s => os2[t] = os[t] /\ bs2[t] = bs[t]
    BY <1>1 DEF Replaced
  <1>3. \A t \in Sleeves : t # s => (t \in sl2 <=> t \in sl)
    OBVIOUS
  <1>4. \A t \in Sleeves : Rows(os2[t], bs2[t], t \in sl2)
    <2> SUFFICES ASSUME NEW t \in Sleeves PROVE Rows(os2[t], bs2[t], t \in sl2)
      OBVIOUS
    <2>1. CASE t = s
      BY <1>2, <2>1
    <2>2. CASE t # s
      <3>1. (t \in sl2) = (t \in sl)
        BY <1>3, <2>2
      <3> QED
        BY <1>1, <1>2, <2>2, <3>1
    <2> QED
      BY <2>1, <2>2
  <1> QED
    BY <1>1, <1>2, <1>4 DEF BookTypes, OnlyOf

\* Polling and cancelling leave the books in order.
LEMMA BooksSettle ==
  ASSUME NEW os, NEW bs, NEW acc, NEW hand, NEW sl, Books(os, bs, acc, hand, sl),
         NEW s \in Sleeves, NEW vs \in Seq(View), NEW rs, Settled(os[s], bs[s], vs, rs),
         NEW os2, NEW bs2, Replaced(os, bs, s, rs, vs, os2, bs2)
  PROVE  Books(os2, bs2, acc, hand, sl)
  <1>1. BookTypes(os, bs, sl) /\ sl \in SUBSET Sleeves
    BY DEF Books, BookTypes
  <1>2. os[s] \in Seq(Order) /\ bs[s] \in Seq(View) /\ Rows(os[s], bs[s], s \in sl)
    BY <1>1 DEF BookTypes
  <1>3. /\ rs \in Seq(Order) /\ Rows(rs, vs, s \in sl)
        /\ Spent(rs, vs) = Spent(os[s], bs[s]) /\ Bought(rs, vs) = Bought(os[s], bs[s])
        /\ OnSale(rs, vs) <= OnSale(os[s], bs[s])
        /\ s \notin sl /\ Covered(os[s]) => Covered(rs)
    <2> DEFINE q == os[s]  w == bs[s]  slip == s \in sl
    <2>1. /\ q \in Seq(Order) /\ w \in Seq(View) /\ slip \in BOOLEAN /\ Rows(q, w, slip)
          /\ Settled(q, w, vs, rs)
      BY <1>2
    <2> HIDE DEF q, w, slip
    <2>2. /\ rs \in Seq(Order) /\ Rows(rs, vs, slip)
          /\ Spent(rs, vs) = Spent(q, w) /\ Bought(rs, vs) = Bought(q, w)
          /\ OnSale(rs, vs) <= OnSale(q, w)
          /\ ~slip /\ Covered(q) => Covered(rs)
      BY <2>1, SettleRows
    <2> QED
      BY <2>2 DEF q, w, slip
  <1>4. /\ BookTypes(os2, bs2, sl) /\ os2[s] = rs /\ bs2[s] = vs
        /\ OnlyOf(s, os, bs, os2, bs2)
    <2>1. sl = sl \/ sl = sl \cup {s}
      OBVIOUS
    <2> QED
      BY <1>1, <1>3, <2>1, OneSleeve
  <1>5. /\ TotalSpent(os, bs) \in Int /\ TotalBought(os, bs) \in Int
        /\ TotalOnSale(os, bs) \in Nat /\ TotalOnSale(os2, bs2) \in Nat
        /\ TotalSpent(os2, bs2)
              = TotalSpent(os, bs) + (Spent(os2[s], bs2[s]) - Spent(os[s], bs[s]))
        /\ TotalBought(os2, bs2)
              = TotalBought(os, bs) + (Bought(os2[s], bs2[s]) - Bought(os[s], bs[s]))
        /\ TotalOnSale(os2, bs2)
              = TotalOnSale(os, bs) + (OnSale(os2[s], bs2[s]) - OnSale(os[s], bs[s]))
    BY <1>1, <1>4, TotalsChange
  <1>6. /\ Spent(os[s], bs[s]) \in Int /\ Bought(os[s], bs[s]) \in Int
        /\ OnSale(os[s], bs[s]) \in Nat /\ OnSale(rs, vs) \in Nat
    <2> DEFINE slip == s \in sl  q == os[s]  w == bs[s]
    <2>1. /\ q \in Seq(Order) /\ w \in Seq(View) /\ slip \in BOOLEAN /\ Rows(q, w, slip)
          /\ rs \in Seq(Order) /\ Rows(rs, vs, slip)
      BY <1>2, <1>3
    <2> HIDE DEF slip, q, w
    <2>2. /\ Spent(q, w) \in Int /\ Bought(q, w) \in Int /\ OnSale(q, w) \in Nat
          /\ OnSale(rs, vs) \in Nat
      BY <2>1, SumTypes
    <2> QED
      BY <2>2 DEF q, w
  <1>7. /\ TotalSpent(os2, bs2) = TotalSpent(os, bs) /\ TotalBought(os2, bs2) = TotalBought(os, bs)
        /\ TotalOnSale(os2, bs2) <= TotalOnSale(os, bs)
    BY <1>3, <1>4, <1>5, <1>6
  <1>8. TotalOnSale(os2, bs2) <= acc.free
    BY <1>5, <1>7 DEF Books
  <1>9. \A t \in Sleeves \ sl : Covered(os2[t])
    <2>1. \A t \in Sleeves \ sl : Covered(os[t])
      BY DEF Books
    <2> QED
      BY <1>3, <1>4, <2>1 DEF OnlyOf
  <1> QED
    BY <1>4, <1>7, <1>8, <1>9 DEF Books

\* Exit legs may leave other shares free, as long as there are enough of them.
LEMMA BooksFree ==
  ASSUME NEW os, NEW bs, NEW acc, NEW hand, NEW sl, Books(os, bs, acc, hand, sl),
         NEW acc2, acc2 \in [cash : Int, qty : Int, free : Int],
         acc2.cash = acc.cash, acc2.qty = acc.qty, TotalOnSale(os, bs) <= acc2.free,
         TotalOnSale(os, bs) \in Nat
  PROVE  Books(os, bs, acc2, hand, sl)
  <1>1. acc2.free \in Nat
    OBVIOUS
  <1>2. acc2 \in [cash : Int, qty : Int, free : Nat]
    BY <1>1
  <1> QED
    BY <1>2 DEF Books

\* An order may be placed that waits for no more shares than there are, and, if
\* it is a buy, spends no more than the orders before it have left.
LEMMA BooksAppend ==
  ASSUME NEW os, NEW bs, NEW acc, NEW hand, NEW sl, Books(os, bs, acc, hand, sl),
         NEW s \in Sleeves, NEW o \in Order, NEW v \in View, RowInv(o, v, s \in sl),
         v.filled = 0, v.notional = 0, Waiting(o, v) <= acc.free - TotalOnSale(os, bs),
         o.side = "buy" => o.qty * Close <= CashBefore(os[s], Len(os[s]) + 1),
         NEW os2, NEW bs2, Replaced(os, bs, s, Append(os[s], o), Append(bs[s], v), os2, bs2)
  PROVE  Books(os2, bs2, acc, hand, sl)
  <1> DEFINE rs == Append(os[s], o)
             vs == Append(bs[s], v)
  <1>1. BookTypes(os, bs, sl) /\ sl \in SUBSET Sleeves /\ acc.free \in Nat
    BY DEF Books, BookTypes
  <1>2. os[s] \in Seq(Order) /\ bs[s] \in Seq(View) /\ Rows(os[s], bs[s], s \in sl)
    BY <1>1 DEF BookTypes
  <1>3. /\ rs \in Seq(Order) /\ vs \in Seq(View) /\ Rows(rs, vs, s \in sl)
        /\ Spent(rs, vs) = Spent(os[s], bs[s]) /\ Bought(rs, vs) = Bought(os[s], bs[s])
        /\ OnSale(rs, vs) = OnSale(os[s], bs[s]) + Waiting(o, v)
        /\ Covered(os[s]) => Covered(rs)
        /\ Waiting(o, v) \in Nat
    <2> DEFINE q == os[s]  w == bs[s]  slip == s \in sl
    <2>1. /\ q \in Seq(Order) /\ w \in Seq(View) /\ slip \in BOOLEAN /\ Rows(q, w, slip)
          /\ Extended(q, w, o, v, rs, vs) /\ RowInv(o, v, slip)
          /\ o.side = "buy" => o.qty * Close <= CashBefore(q, Len(q) + 1)
      BY <1>2 DEF Extended
    <2> HIDE DEF q, w, slip, rs, vs
    <2>2. /\ rs \in Seq(Order) /\ vs \in Seq(View) /\ Rows(rs, vs, slip)
          /\ Spent(rs, vs) = Spent(q, w) /\ Bought(rs, vs) = Bought(q, w)
          /\ OnSale(rs, vs) = OnSale(q, w) + Waiting(o, v)
          /\ Covered(q) /\ (o.side = "buy" => o.qty * Close <= CashBefore(q, Len(q) + 1))
                => Covered(rs)
      BY <2>1, AppendRows
    <2>3. Waiting(o, v) \in Nat
      BY <2>1, RowTypes
    <2> QED
      BY <2>1, <2>2, <2>3 DEF q, w, slip
  <1> HIDE DEF rs, vs
  <1>4. /\ BookTypes(os2, bs2, sl) /\ os2[s] = rs /\ bs2[s] = vs
        /\ OnlyOf(s, os, bs, os2, bs2)
    <2>1. sl = sl \/ sl = sl \cup {s}
      OBVIOUS
    <2>2. Replaced(os, bs, s, rs, vs, os2, bs2)
      BY DEF rs, vs
    <2> QED
      BY <1>1, <1>3, <2>1, <2>2, OneSleeve
  <1>5. /\ TotalSpent(os, bs) \in Int /\ TotalBought(os, bs) \in Int
        /\ TotalOnSale(os, bs) \in Nat /\ TotalOnSale(os2, bs2) \in Nat
        /\ TotalSpent(os2, bs2)
              = TotalSpent(os, bs) + (Spent(os2[s], bs2[s]) - Spent(os[s], bs[s]))
        /\ TotalBought(os2, bs2)
              = TotalBought(os, bs) + (Bought(os2[s], bs2[s]) - Bought(os[s], bs[s]))
        /\ TotalOnSale(os2, bs2)
              = TotalOnSale(os, bs) + (OnSale(os2[s], bs2[s]) - OnSale(os[s], bs[s]))
    BY <1>1, <1>4, TotalsChange
  <1>6. /\ Spent(os[s], bs[s]) \in Int /\ Bought(os[s], bs[s]) \in Int
        /\ OnSale(os[s], bs[s]) \in Nat
    <2> DEFINE slip == s \in sl  q == os[s]  w == bs[s]
    <2>1. q \in Seq(Order) /\ w \in Seq(View) /\ slip \in BOOLEAN /\ Rows(q, w, slip)
      BY <1>2
    <2> HIDE DEF slip, q, w
    <2>2. Spent(q, w) \in Int /\ Bought(q, w) \in Int /\ OnSale(q, w) \in Nat
      BY <2>1, SumTypes
    <2> QED
      BY <2>2 DEF q, w
  <1>7. /\ TotalSpent(os2, bs2) = TotalSpent(os, bs) /\ TotalBought(os2, bs2) = TotalBought(os, bs)
        /\ TotalOnSale(os2, bs2) = TotalOnSale(os, bs) + Waiting(o, v)
    BY <1>3, <1>4, <1>5, <1>6
  <1>8. TotalOnSale(os2, bs2) <= acc.free
    BY <1>1, <1>3, <1>5, <1>7
  <1>9. \A t \in Sleeves \ sl : Covered(os2[t])
    <2>1. \A t \in Sleeves \ sl : Covered(os[t])
      BY DEF Books
    <2> QED
      BY <1>3, <1>4, <2>1 DEF OnlyOf
  <1> QED
    BY <1>4, <1>7, <1>8, <1>9 DEF Books

\* A share of the i-th order of s fills: the account pays or is paid, and its
\* shares follow.
Filling(os, bs, acc, sl, s, i, price, bs2, acc2, sl2) ==
    LET o == os[s][i]
    IN  /\ bs2 = [bs EXCEPT ![s] = [bs[s] EXCEPT ![i] = FilledView(o, bs[s][i], price)]]
        /\ acc2 = [cash |-> acc.cash - Sign(o) * price, qty |-> acc.qty + Sign(o),
                   free |-> acc.free + Sign(o)]
        /\ sl2 = sl \cup (IF o.side = "buy" /\ price > o.price THEN {s} ELSE {})
LEMMA BooksFill ==
  ASSUME NEW os, NEW bs, NEW acc, NEW hand, NEW sl, Books(os, bs, acc, hand, sl),
         NEW s \in Sleeves, NEW i \in DOMAIN os[s], IsOpen(bs[s][i]), NEW price \in Nat,
         NEW bs2, NEW acc2, NEW sl2, Filling(os, bs, acc, sl, s, i, price, bs2, acc2, sl2)
  PROVE  /\ Books(os, bs2, acc2, hand, sl2)
         /\ os[s][i].side = "buy" => TotalOnSale(os, bs2) = TotalOnSale(os, bs)
         /\ os[s][i].filled # bs2[s][i].filled
  <1> DEFINE b == bs[s][i]
             o == os[s][i]
             v == FilledView(o, b, price)
             vs == [bs[s] EXCEPT ![i] = v]
  <1>0. /\ bs2 = [bs EXCEPT ![s] = vs]
        /\ acc2 = [cash |-> acc.cash - Sign(o) * price, qty |-> acc.qty + Sign(o),
                   free |-> acc.free + Sign(o)]
        /\ sl2 = sl \cup (IF o.side = "buy" /\ price > o.price THEN {s} ELSE {})
    BY DEF Filling
  <1>1. /\ BookTypes(os, bs, sl) /\ sl \in SUBSET Sleeves /\ acc.qty \in Int /\ acc.cash \in Int
        /\ acc.free \in Nat
        /\ bs \in [Sleeves -> Seq(View)] /\ sl2 \in SUBSET Sleeves
        /\ sl2 = sl \/ sl2 = sl \cup {s}
    BY <1>0 DEF Books, BookTypes
  <1>2. os[s] \in Seq(Order) /\ bs[s] \in Seq(View) /\ Rows(os[s], bs[s], s \in sl)
    BY <1>1 DEF BookTypes
  <1>3. DOMAIN bs[s] = DOMAIN os[s] /\ o \in Order /\ b \in View /\ RowInv(o, b, s \in sl)
    <2> DEFINE slip == s \in sl  q == os[s]  w == bs[s]
    <2>1. q \in Seq(Order) /\ w \in Seq(View) /\ slip \in BOOLEAN /\ Rows(q, w, slip)
      BY <1>2
    <2> HIDE DEF slip, q, w
    <2>2. DOMAIN w = DOMAIN q /\ \A j \in DOMAIN q : /\ q[j] \in Order /\ w[j] \in View
                                                     /\ RowInv(q[j], w[j], slip)
      BY <2>1, RowsTypes
    <2> QED
      BY <2>2 DEF q, w, slip
  <1>4. Sign(o) \in {1, -1} /\ Sign(o) * b.notional \in Int /\ Sign(o) * b.filled \in Int
    <2>1. (s \in sl) \in BOOLEAN
      OBVIOUS
    <2> HIDE DEF o, b
    <2> QED
      BY <1>3, <2>1, RowTypes
  <1>5. /\ v \in View /\ RowInv(o, v, s \in sl2) /\ o.filled # v.filled
        /\ Waiting(o, v) = Waiting(o, b) - (IF o.side = "sell" THEN 1 ELSE 0)
        /\ o.side = "sell" => Waiting(o, b) >= 1
        /\ Sign(o) * v.notional = Sign(o) * b.notional + Sign(o) * price
        /\ Sign(o) * v.filled = Sign(o) * b.filled + Sign(o)
    <2> DEFINE slip == s \in sl  slip2 == s \in sl2
    <2>1. /\ slip \in BOOLEAN /\ slip2 \in BOOLEAN /\ Slips(o, price, slip, slip2) /\ IsOpen(b)
          /\ RowInv(o, b, slip)
      BY <1>0, <1>3 DEF Slips
    <2> HIDE DEF slip, slip2, o, b
    <2>2. /\ v \in View /\ RowInv(o, v, slip2) /\ o.filled # v.filled
          /\ Waiting(o, v) = Waiting(o, b) - (IF o.side = "sell" THEN 1 ELSE 0)
          /\ o.side = "sell" => Waiting(o, b) >= 1
          /\ Sign(o) * v.notional = Sign(o) * b.notional + Sign(o) * price
          /\ Sign(o) * v.filled = Sign(o) * b.filled + Sign(o)
      BY <1>3, <2>1, FillRow
    <2> QED
      BY <2>2 DEF slip2
  <1> HIDE DEF v
  <1>7. /\ vs \in Seq(View) /\ Rows(os[s], vs, s \in sl2)
        /\ Spent(os[s], vs) = Spent(os[s], bs[s]) + (Sign(o) * v.notional - Sign(o) * b.notional)
        /\ Bought(os[s], vs) = Bought(os[s], bs[s]) + (Sign(o) * v.filled - Sign(o) * b.filled)
        /\ OnSale(os[s], vs) = OnSale(os[s], bs[s]) + (Waiting(o, v) - Waiting(o, b))
        /\ Waiting(o, b) <= OnSale(os[s], bs[s])
    <2> DEFINE slip == s \in sl  slip2 == s \in sl2  q == os[s]  w == bs[s]
    <2>1. /\ q \in Seq(Order) /\ w \in Seq(View) /\ slip \in BOOLEAN /\ Rows(q, w, slip)
          /\ slip2 \in BOOLEAN /\ (slip => slip2) /\ i \in DOMAIN q /\ RowInv(q[i], v, slip2)
          /\ Changed(w, i, v, vs)
      BY <1>0, <1>2, <1>5 DEF Changed
    <2> HIDE DEF slip, slip2, q, w, vs
    <2>2. /\ vs \in Seq(View) /\ Rows(q, vs, slip2)
          /\ Spent(q, vs) = Spent(q, w) + (Sign(q[i]) * v.notional - Sign(q[i]) * w[i].notional)
          /\ Bought(q, vs) = Bought(q, w) + (Sign(q[i]) * v.filled - Sign(q[i]) * w[i].filled)
          /\ OnSale(q, vs) = OnSale(q, w) + (Waiting(q[i], v) - Waiting(q[i], w[i]))
          /\ Waiting(q[i], w[i]) <= OnSale(q, w)
      BY <1>5, <2>1, FillRows
    <2> QED
      BY <2>2 DEF q, w, slip2
  <1>8. bs2[s] = vs /\ vs[i] = v /\ Replaced(os, bs, s, os[s], vs, os, bs2)
    BY <1>0, <1>1, <1>3 DEF Replaced, BookTypes
  <1> HIDE DEF vs, o, b
  <1>9. BookTypes(os, bs2, sl2) /\ OnlyOf(s, os, bs, os, bs2)
    BY <1>1, <1>2, <1>7, <1>8, OneSleeve
  <1>10. /\ TotalSpent(os, bs) \in Int /\ TotalBought(os, bs) \in Int
         /\ TotalOnSale(os, bs) \in Nat /\ TotalOnSale(os, bs2) \in Nat
         /\ OnSale(os[s], bs[s]) <= TotalOnSale(os, bs)
         /\ TotalSpent(os, bs2)
              = TotalSpent(os, bs) + (Spent(os[s], bs2[s]) - Spent(os[s], bs[s]))
         /\ TotalBought(os, bs2)
              = TotalBought(os, bs) + (Bought(os[s], bs2[s]) - Bought(os[s], bs[s]))
         /\ TotalOnSale(os, bs2)
              = TotalOnSale(os, bs) + (OnSale(os[s], bs2[s]) - OnSale(os[s], bs[s]))
    BY <1>1, <1>9, TotalsChange
  <1>11. /\ Spent(os[s], bs[s]) \in Int /\ Bought(os[s], bs[s]) \in Int
         /\ OnSale(os[s], bs[s]) \in Nat
    <2> DEFINE slip == s \in sl  q == os[s]  w == bs[s]
    <2>1. q \in Seq(Order) /\ w \in Seq(View) /\ slip \in BOOLEAN /\ Rows(q, w, slip)
      BY <1>2
    <2> HIDE DEF slip, q, w
    <2>2. Spent(q, w) \in Int /\ Bought(q, w) \in Int /\ OnSale(q, w) \in Nat
      BY <2>1, SumTypes
    <2> QED
      BY <2>2 DEF q, w
  <1>12. Waiting(o, b) \in Nat /\ Sign(o) * price \in Int /\ Sign(o) \in Int
    <2>1. Sign(o) * price \in Int
      BY <1>4
    <2>2. (s \in sl) \in BOOLEAN
      OBVIOUS
    <2>3. Waiting(o, b) \in Nat
      BY <1>3, <2>2, RowTypes
    <2> QED
      BY <1>4, <2>1, <2>3
  <1>13. /\ TotalSpent(os, bs2) = TotalSpent(os, bs) + Sign(o) * price
         /\ TotalBought(os, bs2) = TotalBought(os, bs) + Sign(o)
         /\ TotalOnSale(os, bs2) = TotalOnSale(os, bs) - (IF o.side = "sell" THEN 1 ELSE 0)
    <2> DEFINE x == Sign(o) * b.notional  y == Sign(o) * b.filled  p == Sign(o) * price
    <2>1. x \in Int /\ y \in Int /\ p \in Int
      BY <1>4, <1>12
    <2>2. /\ Sign(o) * v.notional = x + p /\ Sign(o) * v.filled = y + Sign(o)
      BY <1>5
    <2> HIDE DEF x, y, p
    <2>3. TotalSpent(os, bs2) = TotalSpent(os, bs) + p
      BY <1>7, <1>8, <1>10, <1>11, <2>1, <2>2 DEF x
    <2>4. TotalBought(os, bs2) = TotalBought(os, bs) + Sign(o)
      <3> DEFINE t1 == TotalBought(os, bs)
                 t2 == TotalBought(os, bs2)
                 w1 == Bought(os[s], bs[s])
                 w2 == Bought(os[s], vs)
                 g == Sign(o)
                 z == Sign(o) * v.filled
      <3>1. /\ t2 = t1 + (w2 - w1) /\ w2 = w1 + (z - y) /\ z = y + g
            /\ t1 \in Int /\ w1 \in Int /\ g \in Int
        BY <1>7, <1>8, <1>10, <1>11, <1>12, <2>2 DEF y
      <3> HIDE DEF t1, t2, w1, w2, g, z
      <3>2. t2 = t1 + g
        BY <2>1, <3>1
      <3> QED
        BY <3>2 DEF t1, t2, g
    <2>5. TotalOnSale(os, bs2) = TotalOnSale(os, bs) - (IF o.side = "sell" THEN 1 ELSE 0)
      <3> DEFINE d == IF o.side = "sell" THEN 1 ELSE 0
                 t1 == TotalOnSale(os, bs)
                 t2 == TotalOnSale(os, bs2)
                 w1 == OnSale(os[s], bs[s])
                 w2 == OnSale(os[s], vs)
                 k1 == Waiting(o, b)
                 k2 == Waiting(o, v)
      <3>1. /\ t2 = t1 + (w2 - w1) /\ w2 = w1 + (k2 - k1) /\ k2 = k1 - d
            /\ t1 \in Int /\ w1 \in Int /\ k1 \in Int /\ d \in Int
        BY <1>5, <1>7, <1>8, <1>10, <1>11, <1>12
      <3> HIDE DEF d, t1, t2, w1, w2, k1, k2
      <3>2. t2 = t1 - d
        BY <3>1
      <3> QED
        BY <3>2 DEF t1, t2, d
    <2> QED
      BY <2>3, <2>4, <2>5 DEF p
  <1>14. TotalOnSale(os, bs) <= acc.free
    BY DEF Books
  <1>15. o.side \in {"buy", "sell"} /\ Sign(o) = IF o.side = "buy" THEN 1 ELSE -1
    BY <1>3 DEF Order, Side, Sign
  <1>16. /\ acc2.free \in Nat /\ TotalOnSale(os, bs2) <= acc2.free
         /\ acc2.cash \in Int /\ acc2.qty \in Int
    <2>1. /\ acc2.cash = acc.cash - Sign(o) * price /\ acc2.qty = acc.qty + Sign(o)
          /\ acc2.free = acc.free + Sign(o)
      BY <1>0
    <2>2. o.side = "sell" => TotalOnSale(os, bs) >= 1
      <3> DEFINE t1 == TotalOnSale(os, bs)  w1 == OnSale(os[s], bs[s])  k1 == Waiting(o, b)
      <3>1. /\ t1 \in Int /\ w1 \in Int /\ k1 \in Int /\ k1 <= w1 /\ w1 <= t1
            /\ o.side = "sell" => k1 >= 1
        BY <1>5, <1>7, <1>10, <1>11, <1>12
      <3> HIDE DEF t1, w1, k1
      <3>2. o.side = "sell" => t1 >= 1
        BY <3>1
      <3> QED
        BY <3>2 DEF t1
    <2>3. acc2.cash \in Int /\ acc2.qty \in Int
      <3> DEFINE cost == Sign(o) * price  g == Sign(o)
      <3>1. /\ acc2.cash = acc.cash - cost /\ acc2.qty = acc.qty + g
            /\ cost \in Int /\ g \in Int
        BY <1>12, <2>1
      <3> HIDE DEF cost, g
      <3> QED
        BY <1>1, <3>1
    <2> DEFINE q2 == acc2.free  q1 == acc.free  t1 == TotalOnSale(os, bs)
               t2 == TotalOnSale(os, bs2)
    <2>4. /\ t1 \in Nat /\ t2 \in Nat /\ q1 \in Nat /\ t1 <= q1
          /\ o.side = "sell" => t1 >= 1 /\ t2 = t1 - 1 /\ q2 = q1 + (-1)
          /\ o.side = "buy" => t2 = t1 - 0 /\ q2 = q1 + 1
      BY <1>1, <1>10, <1>13, <1>14, <1>15, <2>1, <2>2
    <2> HIDE DEF q1, q2, t1, t2
    <2>5. q2 \in Nat /\ t2 <= q2
      BY <1>15, <2>4
    <2> QED
      BY <2>3, <2>5 DEF q2, t2
  <1>17. hand = 0 => acc2.cash = Funds - TotalSpent(os, bs2) /\ acc2.qty = TotalBought(os, bs2)
    <2> DEFINE p == Sign(o) * price
    <2>1. p \in Int
      BY <1>12
    <2>2. hand = 0 => acc.cash = Funds - TotalSpent(os, bs) /\ acc.qty = TotalBought(os, bs)
      BY DEF Books
    <2>3. acc2.cash = acc.cash - p /\ acc2.qty = acc.qty + Sign(o)
      BY <1>0
    <2>4. TotalSpent(os, bs2) = TotalSpent(os, bs) + p
      BY <1>13
    <2> HIDE DEF p
    <2> QED
      BY <1>10, <1>12, <1>13, <2>1, <2>2, <2>3, <2>4, FundsType
  <1>18. \A t \in Sleeves \ sl2 : Covered(os[t])
    <2>1. \A t \in Sleeves \ sl : Covered(os[t])
      BY DEF Books
    <2> QED
      BY <1>0, <1>1, <2>1
  <1>19. Books(os, bs2, acc2, hand, sl2)
    <2>1. acc2 \in [cash : Int, qty : Int, free : Nat]
      BY <1>0, <1>16
    <2> QED
      BY <1>9, <1>16, <1>17, <1>18, <2>1 DEF Books
  <1>20. o.filled # bs2[s][i].filled
    BY <1>5, <1>8
  <1>21. o.side = "buy" => TotalOnSale(os, bs2) = TotalOnSale(os, bs)
    BY <1>10, <1>13, <1>15
  <1> QED
    BY <1>19, <1>20, <1>21 DEF o

-----------------------------------------------------------------------------
(* What the books say of the ledgers. *)

\* What the rows record of a sleeve's fills, and what they do not record yet.
Flow(os) == SumFunction([i \in DOMAIN os |-> Sign(os[i]) * os[i].notional])
Move(os) == SumFunction([i \in DOMAIN os |-> Sign(os[i]) * os[i].filled])
CashToCome(os, bs) == SumFunction([i \in DOMAIN os |->
    IF IsOpen(os[i]) THEN Sign(os[i]) * (bs[i].notional - os[i].notional) ELSE 0])
SharesToCome(os, bs) == SumFunction([i \in DOMAIN os |->
    IF IsOpen(os[i]) THEN Sign(os[i]) * (bs[i].filled - os[i].filled) ELSE 0])

\* What the broker has of an order is what its row has and what is still to
\* come.
LEMMA RowToCome ==
  ASSUME NEW o \in Order, NEW b \in View, NEW slip \in BOOLEAN, RowInv(o, b, slip)
  PROVE  LET c == IF IsOpen(o) THEN Sign(o) * (b.notional - o.notional) ELSE 0
             n == IF IsOpen(o) THEN Sign(o) * (b.filled - o.filled) ELSE 0
         IN  /\ c \in Int /\ n \in Int
             /\ Sign(o) * b.notional = Sign(o) * o.notional + c
             /\ Sign(o) * b.filled = Sign(o) * o.filled + n
             /\ o.filled = b.filled => c = 0 /\ n = 0
  <1>1. /\ o.filled \in Nat /\ o.notional \in Nat /\ b.filled \in Nat /\ b.notional \in Nat
    BY DEF Order, View
  <1>2. /\ o.filled = b.filled => o.notional = b.notional
        /\ ~IsOpen(o) => o.filled = b.filled
    BY DEF RowInv
  <1>3. CASE Sign(o) = 1
    BY <1>1, <1>2, <1>3
  <1>4. CASE Sign(o) = -1
    BY <1>1, <1>2, <1>4
  <1>5. Sign(o) = 1 \/ Sign(o) = -1
    BY DEF Sign
  <1> QED
    BY <1>3, <1>4, <1>5

\* What the broker has of a sleeve is what its rows have and what is still to
\* come.
LEMMA ToCome ==
  ASSUME NEW os \in Seq(Order), NEW bs \in Seq(View), NEW slip \in BOOLEAN, Rows(os, bs, slip)
  PROVE  /\ Flow(os) \in Int /\ Move(os) \in Int
         /\ CashToCome(os, bs) \in Int /\ SharesToCome(os, bs) \in Int
         /\ Spent(os, bs) = Flow(os) + CashToCome(os, bs)
         /\ Bought(os, bs) = Move(os) + SharesToCome(os, bs)
         /\ (\A i \in DOMAIN os : os[i].filled = bs[i].filled)
                => CashToCome(os, bs) = 0 /\ SharesToCome(os, bs) = 0
  <1> DEFINE D == DOMAIN os
             flow == [i \in D |-> Sign(os[i]) * os[i].notional]
             move == [i \in D |-> Sign(os[i]) * os[i].filled]
             cash == [i \in D |-> IF IsOpen(os[i])
                                  THEN Sign(os[i]) * (bs[i].notional - os[i].notional) ELSE 0]
             shares == [i \in D |-> IF IsOpen(os[i])
                                    THEN Sign(os[i]) * (bs[i].filled - os[i].filled) ELSE 0]
  <1>1. /\ IsFiniteSet(D)
        /\ \A i \in D : /\ os[i] \in Order /\ bs[i] \in View /\ RowInv(os[i], bs[i], slip)
                        /\ Sign(os[i]) * bs[i].notional \in Int
                        /\ Sign(os[i]) * bs[i].filled \in Int
                        /\ Sign(os[i]) * os[i].notional \in Int
                        /\ Sign(os[i]) * os[i].filled \in Int
    BY RowsTypes
  <1>2. \A i \in D : /\ SpentOn(os, bs)[i] = Sign(os[i]) * bs[i].notional
                     /\ BoughtBy(os, bs)[i] = Sign(os[i]) * bs[i].filled
    BY DEF SpentOn, BoughtBy
  <1>3. ASSUME NEW i \in D
        PROVE  /\ flow[i] \in Int /\ move[i] \in Int /\ cash[i] \in Int /\ shares[i] \in Int
               /\ SpentOn(os, bs)[i] = flow[i] + cash[i]
               /\ BoughtBy(os, bs)[i] = move[i] + shares[i]
               /\ SpentOn(os, bs)[i] \in Int /\ BoughtBy(os, bs)[i] \in Int
               /\ os[i].filled = bs[i].filled => cash[i] = 0 /\ shares[i] = 0
    <2> DEFINE c == IF IsOpen(os[i]) THEN Sign(os[i]) * (bs[i].notional - os[i].notional) ELSE 0
               n == IF IsOpen(os[i]) THEN Sign(os[i]) * (bs[i].filled - os[i].filled) ELSE 0
    <2>1. /\ c \in Int /\ n \in Int
          /\ Sign(os[i]) * bs[i].notional = Sign(os[i]) * os[i].notional + c
          /\ Sign(os[i]) * bs[i].filled = Sign(os[i]) * os[i].filled + n
          /\ os[i].filled = bs[i].filled => c = 0 /\ n = 0
      BY <1>1, RowToCome
    <2>2. /\ flow[i] = Sign(os[i]) * os[i].notional /\ move[i] = Sign(os[i]) * os[i].filled
          /\ cash[i] = c /\ shares[i] = n
      OBVIOUS
    <2> HIDE DEF flow, move, cash, shares, c, n
    <2>3. /\ Sign(os[i]) * bs[i].notional \in Int /\ Sign(os[i]) * bs[i].filled \in Int
          /\ Sign(os[i]) * os[i].notional \in Int /\ Sign(os[i]) * os[i].filled \in Int
      BY <1>1
    <2>4. /\ SpentOn(os, bs)[i] = Sign(os[i]) * bs[i].notional
          /\ BoughtBy(os, bs)[i] = Sign(os[i]) * bs[i].filled
      BY <1>2, Zenon
    <2> QED
      BY <2>1, <2>2, <2>3, <2>4, Zenon
  <1> HIDE DEF flow, move, cash, shares
  <1>4. /\ SumFunctionOnSet(SpentOn(os, bs), D)
             = SumFunctionOnSet(flow, D) + SumFunctionOnSet(cash, D)
        /\ SumFunctionOnSet(BoughtBy(os, bs), D)
             = SumFunctionOnSet(move, D) + SumFunctionOnSet(shares, D)
    <2> DEFINE x == SpentOn(os, bs)  y == BoughtBy(os, bs)
    <2>1. \A i \in D : flow[i] \in Int /\ cash[i] \in Int /\ x[i] = flow[i] + cash[i]
      BY <1>3
    <2>2. \A i \in D : move[i] \in Int /\ shares[i] \in Int /\ y[i] = move[i] + shares[i]
      BY <1>3
    <2> HIDE DEF D, x, y
    <2>3. SumFunctionOnSet(x, D) = SumFunctionOnSet(flow, D) + SumFunctionOnSet(cash, D)
      BY <1>1, <2>1, SumAdd
    <2>4. SumFunctionOnSet(y, D) = SumFunctionOnSet(move, D) + SumFunctionOnSet(shares, D)
      BY <1>1, <2>2, SumAdd
    <2> QED
      BY <2>3, <2>4 DEF x, y
  <1>5. /\ SumFunctionOnSet(flow, D) \in Int /\ SumFunctionOnSet(cash, D) \in Int
        /\ SumFunctionOnSet(move, D) \in Int /\ SumFunctionOnSet(shares, D) \in Int
    <2>1. \A i \in D : /\ flow[i] \in Int /\ cash[i] \in Int /\ move[i] \in Int
                       /\ shares[i] \in Int
      BY <1>3
    <2> HIDE DEF D
    <2> QED
      BY <1>1, <2>1, SumInt
  <1>6. (\A i \in D : os[i].filled = bs[i].filled)
            => SumFunctionOnSet(cash, D) = 0 /\ SumFunctionOnSet(shares, D) = 0
    <2> SUFFICES ASSUME \A i \in D : os[i].filled = bs[i].filled
                 PROVE  SumFunctionOnSet(cash, D) = 0 /\ SumFunctionOnSet(shares, D) = 0
      OBVIOUS
    <2>1. \A i \in D : /\ cash[i] \in Int /\ (i \notin {} => cash[i] = 0)
                       /\ shares[i] \in Int /\ (i \notin {} => shares[i] = 0)
      BY <1>3
    <2> HIDE DEF D
    <2>2. SumFunctionOnSet(cash, D) = SumFunctionOnSet(cash, {})
      BY <1>1, <2>1, {} \in SUBSET D, SumSupport
    <2>3. SumFunctionOnSet(shares, D) = SumFunctionOnSet(shares, {})
      BY <1>1, <2>1, {} \in SUBSET D, SumSupport
    <2> QED
      BY <2>2, <2>3, SumNone
  <1>7. /\ Flow(os) = SumFunctionOnSet(flow, D) /\ Move(os) = SumFunctionOnSet(move, D)
        /\ CashToCome(os, bs) = SumFunctionOnSet(cash, D)
        /\ SharesToCome(os, bs) = SumFunctionOnSet(shares, D)
    BY DEF Flow, Move, CashToCome, SharesToCome, SumFunction, flow, move, cash, shares
  <1> QED
    BY <1>4, <1>5, <1>6, <1>7, SumsAre

\* The ledger that a sleeve's rows fold into.
LEMMA SleeveFolds ==
  ASSUME NEW os, NEW bs, NEW sl, BookTypes(os, bs, sl), NEW s \in Sleeves
  PROVE  LET l == reconstruct_from_history(Capital, os[s]) IN
         /\ l \in LedgerState
         /\ l.ok => /\ Balanced(l, Capital)
                    /\ l.reserved = SumFunction([i \in DOMAIN os[s] |-> OpenPart(os[s][i])])
                    /\ l.cash + l.reserved = Capital - Flow(os[s])
                    /\ l.qty = Move(os[s]) /\ l.qty \in Nat
                    /\ l.cash = CashBefore(os[s], Len(os[s]) + 1)
  <1> DEFINE q == os[s]  w == bs[s]  slip == s \in sl
             l == reconstruct_from_history(Capital, q)
  <1>1. q \in Seq(Order) /\ w \in Seq(View) /\ slip \in BOOLEAN /\ Rows(q, w, slip)
    BY DEF BookTypes
  <1> HIDE DEF q, w, slip
  <1>2. q \in Seq(HistoryRow) /\ Len(q) \in Nat
    BY <1>1, RowsTypes
  <1>3. Capital \in Nat
    BY MoneyAssumption
  <1>4. /\ l \in LedgerState
        /\ l.ok => /\ FoldsInto(l, Capital, q, Len(q))
                   /\ Balanced(l, Capital)
                   /\ l.reserved = SumFunction([i \in DOMAIN q |-> OpenPart(q[i])])
                   /\ l.cash + l.reserved
                        = Capital - SumFunction([i \in DOMAIN q |-> Sign(q[i]) * q[i].notional])
                   /\ l.qty = SumFunction([i \in DOMAIN q |-> Sign(q[i]) * q[i].filled])
                   /\ l.qty >= 0
    BY <1>2, <1>3, HistoryFolds
  <1> HIDE DEF l
  <1>5. l.ok => l.cash = CashBefore(q, Len(q) + 1)
    <2>1. Len(q) \in 0..Len(q)
      BY <1>2
    <2> QED
      BY <1>2, <1>4, <2>1, LedgerCash
  <1>6. l.ok => l.qty \in Nat
    BY <1>4 DEF LedgerState
  <1> QED
    BY <1>4, <1>5, <1>6 DEF l, q, Flow, Move

-----------------------------------------------------------------------------
(* What exit legs hold. *)

Keys == Sleeves \X (1..MaxOrders)
Legs == [Keys -> Nat]
Exits == [qty : Nat, cash : Nat]
\* The account without what exit legs have sold, and the shares that they leave.
Net == [cash |-> account.cash - exits.cash, qty |-> account.qty + exits.qty,
        free |-> account.qty - SumFunction(legs)]

\* The orders of the group are finitely many.
LEMMA KeysFinite == IsFiniteSet(Keys)
  <1>1. IsFiniteSet(1..MaxOrders)
    BY BoundAssumption, FS_Interval
  <1> QED
    BY <1>1, SleevesAssumption, FS_Product DEF Keys

\* The shares that all exit legs hold.
LEMMA LegSum ==
  ASSUME NEW ls \in Legs
  PROVE  SumFunction(ls) \in Nat /\ SumFunction(ls) = SumFunctionOnSet(ls, Keys)
  <1>1. SumFunction(ls) = SumFunctionOnSet(ls, Keys)
    BY DEF SumFunction, Legs
  <1>2. \A key \in Keys : ls[key] \in Nat
    BY DEF Legs
  <1> QED
    BY <1>1, <1>2, KeysFinite, SumNat

\* The legs of one order come to hold n shares.
HoldNow(ls, key, n, ls2) == ls2 = [ls EXCEPT ![key] = n]
LEMMA LegChange ==
  ASSUME NEW ls \in Legs, NEW key \in Keys, NEW n \in Nat, NEW ls2, HoldNow(ls, key, n, ls2)
  PROVE  /\ ls2 \in Legs /\ ls[key] \in Nat /\ ls[key] <= SumFunction(ls)
         /\ SumFunction(ls2) = SumFunction(ls) + (n - ls[key])
  <1>1. /\ ls2 \in Legs /\ ls2[key] = n /\ ls[key] \in Nat
        /\ \A k \in Keys : k # key => ls2[k] = ls[k]
    BY DEF Legs, HoldNow
  <1>2. \A k \in Keys : ls[k] \in Nat /\ ls2[k] \in Nat
    BY <1>1 DEF Legs
  <1>3. OneChange(ls, ls2, Keys, key)
    BY <1>1, <1>2 DEF OneChange
  <1>4. SumFunctionOnSet(ls2, Keys) = SumFunctionOnSet(ls, Keys) + (n - ls[key])
    <2>1. SumFunctionOnSet(ls2, Keys) = SumFunctionOnSet(ls, Keys) + (ls2[key] - ls[key])
      BY <1>3, KeysFinite, SumChange
    <2> QED
      BY <1>1, <2>1
  <1>5. SumFunction(ls) = SumFunctionOnSet(ls, Keys) /\ SumFunction(ls2) = SumFunctionOnSet(ls2, Keys)
    BY <1>1, LegSum
  <1>6. SumFunction(ls) \in Nat /\ SumFunction(ls2) \in Nat
    BY <1>1, LegSum
  <1>7. ls[key] <= SumFunctionOnSet(ls, Keys)
    <2>1. \A k \in Keys : ls[k] \in Int
      BY <1>2
    <2>2. SumFunctionOnSet(ls, Keys) = ls[key] + SumFunctionOnSet(ls, Keys \ {key})
      BY <2>1, KeysFinite, SumTake
    <2>3. SumFunctionOnSet(ls, Keys \ {key}) \in Nat
      <3>1. IsFiniteSet(Keys \ {key}) /\ \A k \in Keys \ {key} : ls[k] \in Nat
        BY <1>2, KeysFinite, FS_Subset
      <3> QED
        BY <3>1, SumNat
    <2> QED
      BY <1>1, <2>2, <2>3
  <1> QED
    BY <1>1, <1>4, <1>5, <1>7

\* Some legs are cancelled.
LEMMA LegsCancelled ==
  ASSUME NEW ls \in Legs, NEW ls2 \in Legs, \A key \in Keys : ls2[key] <= ls[key]
  PROVE  SumFunction(ls2) <= SumFunction(ls)
  <1>1. \A key \in Keys : ls2[key] \in Int /\ ls[key] \in Int /\ ls2[key] <= ls[key]
    BY DEF Legs
  <1>2. SumFunctionOnSet(ls2, Keys) <= SumFunctionOnSet(ls, Keys)
    BY <1>1, KeysFinite, SumLeq
  <1> QED
    BY <1>2, LegSum

-----------------------------------------------------------------------------
(* What the invariant says of a state. *)

\* What the sums over the group are.
LEMMA TotalTypes ==
  ASSUME NEW os, NEW bs, NEW sl, BookTypes(os, bs, sl)
  PROVE  /\ TotalSpent(os, bs) \in Int /\ TotalBought(os, bs) \in Int
         /\ TotalOnSale(os, bs) \in Nat
  <1> DEFINE f == [t \in Sleeves |-> Spent(os[t], bs[t])]
             g == [t \in Sleeves |-> Bought(os[t], bs[t])]
             h == [t \in Sleeves |-> OnSale(os[t], bs[t])]
  <1>1. \A t \in Sleeves : f[t] \in Int /\ g[t] \in Int /\ h[t] \in Nat
    <2> SUFFICES ASSUME NEW t \in Sleeves
                 PROVE  /\ Spent(os[t], bs[t]) \in Int /\ Bought(os[t], bs[t]) \in Int
                        /\ OnSale(os[t], bs[t]) \in Nat
      OBVIOUS
    <2>1. /\ os[t] \in Seq(Order) /\ bs[t] \in Seq(View) /\ (t \in sl) \in BOOLEAN
          /\ Rows(os[t], bs[t], t \in sl)
      BY DEF BookTypes
    <2> QED
      BY <2>1, SumTypes
  <1>2. /\ TotalSpent(os, bs) = SumFunctionOnSet(f, Sleeves)
        /\ TotalBought(os, bs) = SumFunctionOnSet(g, Sleeves)
        /\ TotalOnSale(os, bs) = SumFunctionOnSet(h, Sleeves)
    BY DEF TotalSpent, TotalBought, TotalOnSale, SumFunction
  <1> HIDE DEF f, g, h
  <1>3. SumFunctionOnSet(f, Sleeves) \in Int
    BY <1>1, SleevesAssumption, SumInt
  <1>4. SumFunctionOnSet(g, Sleeves) \in Int
    BY <1>1, SleevesAssumption, SumInt
  <1>5. SumFunctionOnSet(h, Sleeves) \in Nat
    BY <1>1, SleevesAssumption, SumNat
  <1> QED
    BY <1>2, <1>3, <1>4, <1>5

\* The invariant says that the books are in order.
LEMMA StateBooks == IInv => Books(orders, broker, Net, byHand, slipped)
  <1> SUFFICES ASSUME IInv PROVE Books(orders, broker, Net, byHand, slipped)
    OBVIOUS
  <1>1. /\ BookTypes(orders, broker, slipped) /\ account \in [cash : Int, qty : Nat]
        /\ legs \in Legs /\ exits \in Exits
    BY DEF IInv, TypeOK, RowsInv, BookTypes, Legs, Keys, Exits
  <1> DEFINE sp == TotalSpent(orders, broker)
             c == Cardinality(Sleeves) * Capital
             w == TotalOnSale(orders, broker)
             ex == exits.cash   eq == exits.qty   h == SumFunction(legs)
             ac == account.cash   aq == account.qty   tb == TotalBought(orders, broker)
  <1>2. sp \in Int /\ w \in Nat /\ tb \in Int /\ ex \in Int /\ eq \in Int /\ h \in Nat
        /\ ac \in Int /\ aq \in Nat
    BY <1>1, TotalTypes, LegSum DEF Exits
  <1>3. /\ byHand = 0 => ac = (c + Float) + (ex - sp) /\ aq = tb - eq
        /\ (aq - h) - w >= 0
    BY DEF IInv, AccountInv, SaleInv, Available, TotalSpent, TotalBought, TotalOnSale
  <1>4. c \in Int /\ Float \in Int
    <2>1. Cardinality(Sleeves) \in Nat
      BY SleevesAssumption, FS_CardinalityType
    <2> QED
      BY <2>1, MoneyAssumption
  <1>5. Funds = c + Float
    BY DEF Funds
  <1>6. Net = [cash |-> ac - ex, qty |-> aq + eq, free |-> aq - h]
    BY DEF Net
  <1> HIDE DEF sp, c, w, ex, eq, h, ac, aq, tb
  <1>7. byHand = 0 => ac - ex = Funds - sp /\ aq + eq = tb
    BY <1>2, <1>3, <1>4, <1>5
  <1>8. w <= aq - h /\ aq - h \in Nat /\ ac - ex \in Int /\ aq + eq \in Int
    BY <1>2, <1>3
  <1>9. Net.cash = ac - ex /\ Net.qty = aq + eq /\ Net.free = aq - h
        /\ Net \in [cash : Int, qty : Int, free : Nat]
    BY <1>6, <1>8
  <1> QED
    BY <1>1, <1>7, <1>8, <1>9 DEF IInv, AffordInv, Books, sp, w, tb

\* The sums of the ledgers, when all histories fold.
LEMMA LedgersTotal ==
  ASSUME IInv, AllFold
  PROVE  LET pend == SumFunction([s \in Sleeves |-> PendingCash(s)])
             come == SumFunction([s \in Sleeves |-> PendingQty(s)])
         IN  /\ CashClaim(Sleeves) \in Int /\ Held(Sleeves) \in Int
             /\ pend \in Int /\ come \in Int
             /\ byHand = 0 => Net.cash = CashClaim(Sleeves) + Float - pend
                              /\ Net.qty = Held(Sleeves) + come
             /\ (\A s \in Sleeves : \A i \in DOMAIN orders[s] : ~Unrecorded(s, i))
                   => pend = 0 /\ come = 0
  <1> DEFINE claim == [s \in Sleeves |-> Ledger(s).cash + Ledger(s).reserved]
             held == [s \in Sleeves |-> Ledger(s).qty]
             flow == [s \in Sleeves |-> Flow(orders[s])]
             cap == [s \in Sleeves |-> Capital]
             pc == [s \in Sleeves |-> PendingCash(s)]
             pq == [s \in Sleeves |-> PendingQty(s)]
             spent == [s \in Sleeves |-> Spent(orders[s], broker[s])]
             bought == [s \in Sleeves |-> Bought(orders[s], broker[s])]
             Quiet == \A s \in Sleeves : \A i \in DOMAIN orders[s] : ~Unrecorded(s, i)
  <1>1. /\ Books(orders, broker, Net, byHand, slipped)
        /\ BookTypes(orders, broker, slipped)
    BY StateBooks DEF Books
  <1>2. ASSUME NEW s \in Sleeves
        PROVE  /\ claim[s] \in Int /\ held[s] \in Int /\ flow[s] \in Int /\ cap[s] \in Int
               /\ pc[s] \in Int /\ pq[s] \in Int
               /\ cap[s] = claim[s] + flow[s]
               /\ spent[s] = flow[s] + pc[s] /\ bought[s] = held[s] + pq[s]
               /\ Quiet => pc[s] = 0 /\ pq[s] = 0
    <2> DEFINE q == orders[s]  w == broker[s]  slip == s \in slipped
               l == reconstruct_from_history(Capital, q)
    <2>1. q \in Seq(Order) /\ w \in Seq(View) /\ slip \in BOOLEAN /\ Rows(q, w, slip)
      BY <1>1 DEF BookTypes
    <2>2. /\ l \in LedgerState
          /\ l.ok => /\ l.cash + l.reserved = Capital - Flow(q)
                     /\ l.qty = Move(q) /\ l.qty \in Nat
      BY <1>1, SleeveFolds
    <2>3. l.ok /\ l = Ledger(s)
      BY DEF AllFold, Ledger
    <2>4. pc[s] = CashToCome(q, w) /\ pq[s] = SharesToCome(q, w)
      BY DEF PendingCash, PendingQty, CashToCome, SharesToCome
    <2>5. Quiet => \A i \in DOMAIN q : q[i].filled = w[i].filled
      BY DEF Unrecorded
    <2>6. /\ claim[s] = l.cash + l.reserved /\ held[s] = l.qty /\ flow[s] = Flow(q)
          /\ cap[s] = Capital /\ spent[s] = Spent(q, w) /\ bought[s] = Bought(q, w)
      BY <2>3
    <2> HIDE DEF q, w, slip, l, claim, held, flow, cap, pc, pq, spent, bought, Quiet
    <2>7. /\ Flow(q) \in Int /\ Move(q) \in Int
          /\ CashToCome(q, w) \in Int /\ SharesToCome(q, w) \in Int
          /\ Spent(q, w) = Flow(q) + CashToCome(q, w)
          /\ Bought(q, w) = Move(q) + SharesToCome(q, w)
          /\ (\A i \in DOMAIN q : q[i].filled = w[i].filled)
                => CashToCome(q, w) = 0 /\ SharesToCome(q, w) = 0
      BY <2>1, ToCome
    <2>8. Capital \in Int
      BY MoneyAssumption
    <2>9. Quiet => pc[s] = 0 /\ pq[s] = 0
      BY <2>4, <2>5, <2>7
    <2> QED
      BY <2>2, <2>3, <2>4, <2>6, <2>7, <2>8, <2>9
  <1>3. /\ CashClaim(Sleeves) = SumFunctionOnSet(claim, Sleeves)
        /\ Held(Sleeves) = SumFunctionOnSet(held, Sleeves)
        /\ SumFunction(pc) = SumFunctionOnSet(pc, Sleeves)
        /\ SumFunction(pq) = SumFunctionOnSet(pq, Sleeves)
        /\ TotalSpent(orders, broker) = SumFunctionOnSet(spent, Sleeves)
        /\ TotalBought(orders, broker) = SumFunctionOnSet(bought, Sleeves)
    BY DEF CashClaim, Held, TotalSpent, TotalBought, SumFunction
  <1>4. \A s \in Sleeves : cap[s] = Capital
    OBVIOUS
  <1> HIDE DEF claim, held, flow, cap, pc, pq, spent, bought, Quiet
  <1>5. IsFiniteSet(Sleeves)
    BY SleevesAssumption
  <1>6. SumFunctionOnSet(cap, Sleeves)
           = SumFunctionOnSet(claim, Sleeves) + SumFunctionOnSet(flow, Sleeves)
    BY <1>2, <1>5, SumAdd
  <1>7. SumFunctionOnSet(spent, Sleeves)
           = SumFunctionOnSet(flow, Sleeves) + SumFunctionOnSet(pc, Sleeves)
    BY <1>2, <1>5, SumAdd
  <1>8. SumFunctionOnSet(bought, Sleeves)
           = SumFunctionOnSet(held, Sleeves) + SumFunctionOnSet(pq, Sleeves)
    BY <1>2, <1>5, SumAdd
  <1>9. SumFunctionOnSet(cap, Sleeves) = Cardinality(Sleeves) * Capital
    BY <1>4, <1>5, MoneyAssumption, SumConstant
  <1>10. /\ SumFunctionOnSet(claim, Sleeves) \in Int /\ SumFunctionOnSet(flow, Sleeves) \in Int
         /\ SumFunctionOnSet(pc, Sleeves) \in Int /\ SumFunctionOnSet(pq, Sleeves) \in Int
         /\ SumFunctionOnSet(held, Sleeves) \in Int
    BY <1>2, <1>5, SumInt
  <1>11. Quiet => SumFunctionOnSet(pc, Sleeves) = 0 /\ SumFunctionOnSet(pq, Sleeves) = 0
    <2> SUFFICES ASSUME Quiet
                 PROVE  SumFunctionOnSet(pc, Sleeves) = 0 /\ SumFunctionOnSet(pq, Sleeves) = 0
      OBVIOUS
    <2>1. \A s \in Sleeves : /\ pc[s] \in Int /\ (s \notin {} => pc[s] = 0)
                             /\ pq[s] \in Int /\ (s \notin {} => pq[s] = 0)
      BY <1>2
    <2>2. SumFunctionOnSet(pc, Sleeves) = SumFunctionOnSet(pc, {})
      BY <1>5, <2>1, {} \in SUBSET Sleeves, SumSupport
    <2>3. SumFunctionOnSet(pq, Sleeves) = SumFunctionOnSet(pq, {})
      BY <1>5, <2>1, {} \in SUBSET Sleeves, SumSupport
    <2> QED
      BY <2>2, <2>3, SumNone
  <1>12. byHand = 0 =>
            Net.cash = SumFunctionOnSet(claim, Sleeves) + (Float - SumFunctionOnSet(pc, Sleeves))
            /\ Net.qty = SumFunctionOnSet(held, Sleeves) + SumFunctionOnSet(pq, Sleeves)
    <2> SUFFICES ASSUME byHand = 0
                 PROVE  /\ Net.cash = SumFunctionOnSet(claim, Sleeves)
                                         + (Float - SumFunctionOnSet(pc, Sleeves))
                        /\ Net.qty = SumFunctionOnSet(held, Sleeves)
                                        + SumFunctionOnSet(pq, Sleeves)
      OBVIOUS
    <2>1. /\ Net.cash = Funds - TotalSpent(orders, broker)
          /\ Net.qty = TotalBought(orders, broker)
      BY <1>1 DEF Books
    <2> DEFINE a == SumFunctionOnSet(claim, Sleeves)
               b == SumFunctionOnSet(flow, Sleeves)
               d == SumFunctionOnSet(pc, Sleeves)
               n == Cardinality(Sleeves) * Capital
    <2>2. /\ a \in Int /\ b \in Int /\ d \in Int /\ n = a + b /\ Float \in Int
          /\ Net.cash = (n + Float) - (b + d)
      BY <1>3, <1>6, <1>7, <1>9, <1>10, <2>1, MoneyAssumption DEF Funds
    <2> HIDE DEF a, b, d, n
    <2>3. Net.cash = a + (Float - d)
      BY <2>2
    <2> QED
      BY <1>3, <1>8, <2>1, <2>3 DEF a, d
  <1> QED
    BY <1>3, <1>10, <1>11, <1>12 DEF pc, pq, Quiet

\* The folded ledgers and the fills still to be recorded account for the broker.
LEMMA BookMatches == IInv => BookMatchesBroker
  <1> SUFFICES ASSUME IInv, byHand = 0, AllFold
               PROVE  /\ CashClaim(Sleeves)
                           + (Float - SumFunction([s \in Sleeves |-> PendingCash(s)])) = Net.cash
                      /\ Held(Sleeves) + SumFunction([s \in Sleeves |-> PendingQty(s)]) = Net.qty
    BY DEF BookMatchesBroker, Net
  <1> QED
    BY LedgersTotal

\* Every ledger that folds balances and reserves what its open buys may spend.
LEMMA LedgersBalance == IInv => LedgersAddUp
  <1> SUFFICES ASSUME IInv, NEW s \in Sleeves, Ledger(s).ok
               PROVE  /\ Balanced(Ledger(s), Capital)
                      /\ Ledger(s).reserved
                           = SumFunction([i \in DOMAIN orders[s] |-> OpenPart(orders[s][i])])
    BY DEF LedgersAddUp
  <1>1. BookTypes(orders, broker, slipped)
    BY StateBooks DEF Books
  <1> QED
    BY <1>1, SleeveFolds DEF Ledger

\* A history that does not fold has slipped or sells what the sleeve has not.
LEMMA ReservedOnce == IInv => CashIsReservedOnce
  <1> SUFFICES ASSUME IInv, NEW s \in Sleeves, s \notin slipped, ~Oversold(s)
               PROVE  Ledger(s).ok
    BY DEF CashIsReservedOnce
  <1> DEFINE q == orders[s]  w == broker[s]  slip == s \in slipped
  <1>1. /\ BookTypes(orders, broker, slipped) /\ Covered(q)
    BY StateBooks DEF Books
  <1>2. q \in Seq(Order) /\ w \in Seq(View) /\ slip \in BOOLEAN /\ Rows(q, w, slip)
    BY <1>1 DEF BookTypes
  <1>3. \A n \in DOMAIN q :
            ~(SumFunction([i \in 1..n |-> Sign(q[i]) * q[i].filled]) < 0)
    BY DEF Oversold
  <1> HIDE DEF q, w, slip
  <1>4. /\ q \in Seq(HistoryRow) /\ Len(q) \in Nat /\ DOMAIN q = 1..Len(q)
        /\ \A i \in DOMAIN q : Sign(q[i]) * q[i].filled \in Int /\ RowInv(q[i], w[i], slip)
    BY <1>2, RowsTypes
  <1>5. \A n \in DOMAIN q : q[n].side = "buy" => q[n].price = Close
    BY <1>4 DEF RowInv
  <1>6. \A n \in DOMAIN q : SumFunction([i \in 1..n |-> Sign(q[i]) * q[i].filled]) >= 0
    <2> SUFFICES ASSUME NEW n \in DOMAIN q
                 PROVE  SumFunction([i \in 1..n |-> Sign(q[i]) * q[i].filled]) >= 0
      OBVIOUS
    <2> DEFINE f == [i \in 1..n |-> Sign(q[i]) * q[i].filled]
    <2>1. \A i \in 1..n : f[i] \in Int
      <3>1. \A i \in 1..n : i \in DOMAIN q
        BY <1>4
      <3> QED
        BY <1>4, <3>1
    <2>2. IsFiniteSet(1..n) /\ SumFunction(f) = SumFunctionOnSet(f, 1..n)
      BY <1>4, FS_Interval DEF SumFunction
    <2> HIDE DEF f
    <2>3. SumFunctionOnSet(f, 1..n) \in Int
      BY <2>1, <2>2, SumInt
    <2>4. ~(SumFunction(f) < 0)
      BY <1>3 DEF f
    <2>5. SumFunction(f) >= 0
      BY <2>2, <2>3, <2>4
    <2> QED
      BY <2>5 DEF f
  <1>7. Covered(q)
    BY <1>1 DEF q
  <1>8. reconstruct_from_history(Capital, q).ok
    BY <1>4, <1>5, <1>6, <1>7, CoveredFolds
  <1> QED
    BY <1>8 DEF Ledger, q

-----------------------------------------------------------------------------
(* The invariant is inductive. *)

TickState == [pc : {"idle", "poll", "account", "rules"}, todo : SUBSET Sleeves,
              shadow : SUBSET Sleeves, cleaning : SUBSET Sleeves, skip : SUBSET Sleeves,
              armed : SUBSET Sleeves, positions : Nat \cup {NoAnswer}, ctx : Context]
InBooks ==
    /\ Books(orders, broker, Net, byHand, slipped)
    /\ legs \in Legs /\ exits \in Exits /\ account \in [cash : Int, qty : Nat]
InTick ==
    /\ status \in [Sleeves -> Status] /\ tick \in TickState /\ byHand \in 0..MaxOutside
    /\ CheckInv /\ PhaseInv

\* The invariant is one of the books and one of the tick.
LEMMA InvIs == IInv <=> InBooks /\ InTick
  <1>1. IInv => InBooks
    BY StateBooks DEF InBooks, IInv, TypeOK, Legs, Keys, Exits
  <1>2. IInv => InTick
    BY DEF IInv, TypeOK, InTick, TickState
  <1>3. ASSUME InBooks, InTick PROVE IInv
    <2>1. /\ BookTypes(orders, broker, slipped) /\ account \in [cash : Int, qty : Nat]
          /\ legs \in Legs /\ exits \in Exits
          /\ byHand = 0 => Net.cash = Funds - TotalSpent(orders, broker)
                           /\ Net.qty = TotalBought(orders, broker)
          /\ TotalOnSale(orders, broker) <= Net.free
          /\ \A s \in Sleeves \ slipped : Covered(orders[s])
      BY <1>3 DEF InBooks, Books
    <2>2. TypeOK
      BY <1>3, <2>1 DEF TypeOK, InTick, TickState, BookTypes, Legs, Keys, Exits
    <2>3. RowsInv
      BY <2>1 DEF RowsInv, BookTypes
    <2> DEFINE sp == TotalSpent(orders, broker)
               c == Cardinality(Sleeves) * Capital
               w == TotalOnSale(orders, broker)
               ex == exits.cash   eq == exits.qty   h == SumFunction(legs)
               ac == account.cash   aq == account.qty   tb == TotalBought(orders, broker)
    <2>4. /\ sp \in Int /\ w \in Nat /\ tb \in Int /\ ex \in Int /\ eq \in Int /\ h \in Nat
          /\ ac \in Int /\ aq \in Nat
      BY <2>1, TotalTypes, LegSum DEF Exits
    <2>5. c \in Int /\ Float \in Int /\ Funds = c + Float
      <3>1. Cardinality(Sleeves) \in Nat
        BY SleevesAssumption, FS_CardinalityType
      <3> QED
        BY <3>1, MoneyAssumption DEF Funds
    <2>6. AccountInv
      <3>1. byHand = 0 => ac - ex = Funds - sp /\ aq + eq = tb
        BY <2>1 DEF Net
      <3>2. byHand = 0 => ac = (c + Float) + (ex - sp) /\ aq = tb - eq
        <4> HIDE DEF sp, c, ex, eq, ac, aq, tb
        <4> QED
          BY <2>4, <2>5, <3>1
      <3> QED
        BY <3>2 DEF AccountInv, TotalSpent, TotalBought
    <2>7. SaleInv
      <3>1. w <= aq - h
        BY <2>1 DEF Net
      <3>2. (aq - h) - w >= 0
        <4> HIDE DEF w, aq, h
        <4> QED
          BY <2>4, <3>1
      <3> QED
        BY <3>2 DEF SaleInv, Available, TotalOnSale
    <2>8. AffordInv
      BY <2>1 DEF AffordInv
    <2> QED
      BY <1>3, <2>2, <2>3, <2>6, <2>7, <2>8 DEF IInv, InTick
  <1> QED
    BY <1>1, <1>2, <1>3

\* The tick at rest.
LEMMA IdleType == Idle \in TickState /\ NoContext \in Context
  <1>1. Actions \in Nat
    BY MoneyAssumption
  <1>2. NoContext \in Context
    BY <1>1 DEF NoContext, Context
  <1> QED
    BY <1>2 DEF Idle, TickState

\* A group without orders has spent, bought and promised nothing.
LEMMA NothingOn == TotalSpent([s \in Sleeves |-> <<>>], [s \in Sleeves |-> <<>>]) = 0
                   /\ TotalBought([s \in Sleeves |-> <<>>], [s \in Sleeves |-> <<>>]) = 0
                   /\ TotalOnSale([s \in Sleeves |-> <<>>], [s \in Sleeves |-> <<>>]) = 0
  <1> DEFINE q == [s \in Sleeves |-> <<>>]
             f == [s \in Sleeves |-> Spent(q[s], q[s])]
             g == [s \in Sleeves |-> Bought(q[s], q[s])]
             h == [s \in Sleeves |-> OnSale(q[s], q[s])]
  <1>1. /\ Spent(<<>>, <<>>) = 0 /\ Bought(<<>>, <<>>) = 0 /\ OnSale(<<>>, <<>>) = 0
    <2>1. DOMAIN <<>> = {}
      OBVIOUS
    <2>2. /\ Spent(<<>>, <<>>) = SumFunctionOnSet(SpentOn(<<>>, <<>>), {})
          /\ Bought(<<>>, <<>>) = SumFunctionOnSet(BoughtBy(<<>>, <<>>), {})
          /\ OnSale(<<>>, <<>>) = SumFunctionOnSet(WaitingFor(<<>>, <<>>), {})
      BY <2>1, SumsAre
    <2> QED
      BY <2>2, SumNone
  <1>2. \A s \in Sleeves : /\ f[s] \in Int /\ (s \notin {} => f[s] = 0)
                           /\ g[s] \in Int /\ (s \notin {} => g[s] = 0)
                           /\ h[s] \in Int /\ (s \notin {} => h[s] = 0)
    BY <1>1
  <1>3. /\ TotalSpent(q, q) = SumFunctionOnSet(f, Sleeves)
        /\ TotalBought(q, q) = SumFunctionOnSet(g, Sleeves)
        /\ TotalOnSale(q, q) = SumFunctionOnSet(h, Sleeves)
    BY DEF TotalSpent, TotalBought, TotalOnSale, SumFunction
  <1> HIDE DEF f, g, h
  <1>4. SumFunctionOnSet(f, Sleeves) = SumFunctionOnSet(f, {})
    BY <1>2, SleevesAssumption, {} \in SUBSET Sleeves, SumSupport
  <1>5. SumFunctionOnSet(g, Sleeves) = SumFunctionOnSet(g, {})
    BY <1>2, SleevesAssumption, {} \in SUBSET Sleeves, SumSupport
  <1>6. SumFunctionOnSet(h, Sleeves) = SumFunctionOnSet(h, {})
    BY <1>2, SleevesAssumption, {} \in SUBSET Sleeves, SumSupport
  <1> QED
    BY <1>3, <1>4, <1>5, <1>6, SumNone

\* The invariant holds at the start.
LEMMA InitInv == Init => IInv
  <1> SUFFICES ASSUME Init PROVE IInv
    OBVIOUS
  <1> DEFINE none == [s \in Sleeves |-> <<>>]
             zero == [key \in Keys |-> 0]
  <1>1. /\ status = [s \in Sleeves |-> "SHADOW"] /\ orders = none /\ broker = none
        /\ account = [cash |-> Cardinality(Sleeves) * Capital + Float, qty |-> 0]
        /\ legs = zero /\ exits = [qty |-> 0, cash |-> 0]
        /\ tick = Idle /\ byHand = 0 /\ slipped = {}
    BY DEF Init, Keys
  <1>2. /\ TotalSpent(none, none) = 0 /\ TotalBought(none, none) = 0
        /\ TotalOnSale(none, none) = 0
    BY NothingOn
  <1>3. BookTypes(none, none, {})
    <2>1. none \in [Sleeves -> Seq(Order)] /\ none \in [Sleeves -> Seq(View)]
      OBVIOUS
    <2>2. \A s \in Sleeves : Rows(none[s], none[s], s \in {})
      BY DEF Rows
    <2> QED
      BY <2>1, <2>2 DEF BookTypes
  <1>4. \A s \in Sleeves : Covered(none[s])
    BY DEF Covered
  <1>5. /\ account.cash = Funds /\ account.qty = 0 /\ account \in [cash : Int, qty : Nat]
        /\ exits \in Exits /\ exits.qty = 0 /\ exits.cash = 0
    BY <1>1, FundsType DEF Funds, Exits
  <1>6. zero \in Legs /\ SumFunction(zero) = 0
    <2>1. zero \in Legs
      BY DEF Legs
    <2>2. \A key \in Keys : zero[key] \in Int /\ (key \notin {} => zero[key] = 0)
      OBVIOUS
    <2> HIDE DEF zero
    <2>3. SumFunctionOnSet(zero, Keys) = SumFunctionOnSet(zero, {})
      BY <2>2, {} \in SUBSET Keys, KeysFinite, SumSupport
    <2> QED
      BY <2>1, <2>3, SumNone, LegSum
  <1> HIDE DEF none, zero
  <1>7. Net = [cash |-> Funds, qty |-> 0, free |-> 0]
    BY <1>1, <1>5, <1>6, FundsType DEF Net
  <1>8. InBooks
    <2>1. /\ Net \in [cash : Int, qty : Int, free : Nat]
          /\ Net.cash = Funds - 0 /\ Net.qty = 0 /\ Net.free = 0
      BY <1>7, FundsType
    <2> QED
      BY <1>1, <1>2, <1>3, <1>4, <1>5, <1>6, <2>1 DEF InBooks, Books
  <1>9. InTick
    <2>1. /\ status \in [Sleeves -> Status] /\ byHand \in 0..MaxOutside
      BY <1>1, BoundAssumption DEF Status
    <2>2. CheckInv /\ PhaseInv
      BY <1>1 DEF CheckInv, PhaseInv, Idle
    <2> QED
      BY <1>1, <2>1, <2>2, IdleType DEF InTick
  <1> QED
    BY <1>8, <1>9, InvIs

\* Steps of a tick that leave the orders and the account alone.
LEMMA SameBooks ==
  ASSUME IInv, UNCHANGED <<orders, broker, legs, account, byHand, slipped, exits>>
  PROVE  InBooks'
  BY InvIs DEF InBooks, Net

\* Steps of the tick other than the one before the account is fetched.
LEMMA SameTick ==
  ASSUME IInv, tick' \in TickState, tick'.pc # "account",
         tick'.cleaning # {} => tick'.pc = "poll",
         tick'.ctx # NoContext => tick'.pc = "rules",
         status' \in [Sleeves -> Status], byHand' \in 0..MaxOutside
  PROVE  InTick'
  BY DEF InTick, CheckInv, PhaseInv

\* What the invariant says of the tick in progress.
LEMMA Tick ==
  ASSUME IInv
  PROVE  /\ tick \in TickState /\ status \in [Sleeves -> Status] /\ byHand \in 0..MaxOutside
         /\ tick.pc \in {"idle", "poll", "account", "rules"}
         /\ tick.todo \in SUBSET Sleeves /\ tick.shadow \in SUBSET Sleeves
         /\ tick.skip \in SUBSET Sleeves /\ tick.cleaning \in SUBSET Sleeves
         /\ tick.armed \in SUBSET Sleeves /\ tick.positions \in Nat \cup {NoAnswer}
         /\ tick.ctx \in Context /\ tick.ctx.left \in 0..Actions /\ tick.ctx.qty \in Nat
         /\ tick.ctx.equity \in Int /\ tick.ctx.turnover \in Int /\ tick.ctx.entries \in BOOLEAN
         /\ tick.cleaning # {} => tick.pc = "poll"
         /\ tick.ctx # NoContext => tick.pc = "rules"
         /\ Books(orders, broker, Net, byHand, slipped)
         /\ BookTypes(orders, broker, slipped) /\ account.qty \in Nat /\ account.cash \in Int
         /\ legs \in Legs /\ exits \in Exits /\ account \in [cash : Int, qty : Nat]
         /\ SumFunction(legs) \in Nat /\ exits.qty \in Nat /\ exits.cash \in Nat
  <1>1. InBooks /\ InTick
    BY InvIs
  <1>2. /\ tick \in TickState /\ status \in [Sleeves -> Status] /\ byHand \in 0..MaxOutside
        /\ PhaseInv
    BY <1>1 DEF InTick
  <1>3. /\ tick.pc \in {"idle", "poll", "account", "rules"}
        /\ tick.todo \in SUBSET Sleeves /\ tick.shadow \in SUBSET Sleeves
        /\ tick.skip \in SUBSET Sleeves /\ tick.cleaning \in SUBSET Sleeves
        /\ tick.armed \in SUBSET Sleeves /\ tick.positions \in Nat \cup {NoAnswer}
        /\ tick.ctx \in Context
    BY <1>2 DEF TickState
  <1>4. /\ tick.ctx.left \in 0..Actions /\ tick.ctx.qty \in Nat
        /\ tick.ctx.equity \in Int /\ tick.ctx.turnover \in Int /\ tick.ctx.entries \in BOOLEAN
    BY <1>3 DEF Context
  <1>5. /\ Books(orders, broker, Net, byHand, slipped)
        /\ BookTypes(orders, broker, slipped) /\ account.qty \in Nat /\ account.cash \in Int
        /\ legs \in Legs /\ exits \in Exits /\ account \in [cash : Int, qty : Nat]
        /\ SumFunction(legs) \in Nat /\ exits.qty \in Nat /\ exits.cash \in Nat
    BY <1>1, LegSum DEF InBooks, Books, Exits
  <1> QED
    BY <1>2, <1>3, <1>4, <1>5 DEF PhaseInv

\* A tick begins.
LEMMA BeginTickInv == ASSUME IInv, BeginTick PROVE InBooks' /\ InTick'
  <1>1. UNCHANGED <<status, orders, broker, legs, account, byHand, slipped, exits>>
    BY DEF BeginTick
  <1>2. tick' = [Idle EXCEPT !.pc = "poll", !.skip = {s \in Sleeves : status[s] = Paused},
                            !.todo = {s \in Sleeves : status[s] # Paused},
                            !.shadow = {s \in Sleeves : status[s] = "SHADOW"}]
    BY DEF BeginTick
  <1>3. /\ tick' \in TickState /\ tick'.pc = "poll" /\ tick'.ctx = NoContext
    BY <1>2, IdleType DEF TickState, Idle
  <1> QED
    BY <1>1, <1>3, SameBooks, SameTick, Tick

\* With the account as it is, exit legs may only come to hold fewer shares.
LEMMA FreedBooks ==
  ASSUME IInv, NEW os, NEW bs, NEW hand, NEW sl, Books(os, bs, Net, hand, sl),
         UNCHANGED <<account, exits>>, legs' \in Legs, SumFunction(legs') <= SumFunction(legs)
  PROVE  Books(os, bs, Net', hand, sl)
  <1>1. /\ BookTypes(os, bs, sl) /\ Net \in [cash : Int, qty : Int, free : Nat]
        /\ TotalOnSale(os, bs) <= Net.free
    BY DEF Books
  <1> DEFINE h == SumFunction(legs)  h2 == SumFunction(legs')  w == TotalOnSale(os, bs)
             ac == account.cash  aq == account.qty  ex == exits.cash  eq == exits.qty
  <1>2. w \in Nat
    BY <1>1, TotalTypes
  <1>3. h \in Nat /\ h2 \in Nat /\ h2 <= h /\ ac \in Int /\ aq \in Nat /\ ex \in Nat /\ eq \in Nat
    BY LegSum, Tick
  <1>4. /\ Net = [cash |-> ac - ex, qty |-> aq + eq, free |-> aq - h]
        /\ Net' = [cash |-> ac - ex, qty |-> aq + eq, free |-> aq - h2]
    BY DEF Net
  <1>5. w <= aq - h
    BY <1>1, <1>4
  <1> HIDE DEF h, h2, w, ac, aq, ex, eq
  <1>6. /\ Net' \in [cash : Int, qty : Int, free : Int]
        /\ Net'.cash = Net.cash /\ Net'.qty = Net.qty
    BY <1>3, <1>4
  <1>7. w <= Net'.free
    BY <1>2, <1>3, <1>4, <1>5
  <1> QED
    BY <1>2, <1>6, <1>7, BooksFree DEF w

\* The fills of a sleeve are recorded.
LEMMA PollInv ==
  ASSUME IInv, NEW s \in Sleeves, poll_and_apply_fills(s)
  PROVE  InBooks' /\ InTick'
  <1> DEFINE polled == RecordedAll(s, broker[s])
             raises == /\ \E i \in DOMAIN polled : polled[i].filled # orders[s][i].filled
                       /\ ~reconstruct_from_history(Capital, polled).ok
  <1>1. /\ tick.pc = "poll" /\ orders' = [orders EXCEPT ![s] = polled]
        /\ tick' = [tick EXCEPT !.todo = @ \ {s}, !.shadow = @ \ {s},
                        !.skip = IF raises THEN @ \cup {s} ELSE @,
                        !.cleaning = IF raises THEN {} ELSE tick.shadow \cap {s}]
        /\ UNCHANGED <<status, broker, legs, account, byHand, slipped, exits>>
    BY DEF poll_and_apply_fills
  <1>2. /\ broker[s] \in Seq(View) /\ broker \in [Sleeves -> Seq(View)]
        /\ Len(broker[s]) = Len(orders[s])
    BY Tick DEF BookTypes, Rows
  <1>3. Settled(orders[s], broker[s], broker[s], polled)
    BY <1>2 DEF Settled, Settles, RecordedAll
  <1> HIDE DEF raises, polled
  <1>4. Replaced(orders, broker, s, polled, broker[s], orders', broker')
    BY <1>1, <1>2 DEF Replaced
  <1>5. Books(orders', broker', Net, byHand, slipped)
    BY <1>2, <1>3, <1>4, BooksSettle, Tick
  <1>6. /\ tick' \in TickState /\ tick'.pc = "poll" /\ tick'.ctx = tick.ctx
    BY <1>1, Tick DEF TickState
  <1>7. tick'.ctx = NoContext
    BY <1>1, <1>6, Tick
  <1>8. InTick'
    BY <1>1, <1>6, <1>7, SameTick, Tick
  <1>9. Net' = Net
    BY <1>1 DEF Net
  <1> QED
    BY <1>1, <1>5, <1>8, <1>9, Tick DEF InBooks

\* The open orders of a SHADOW sleeve are cancelled.
LEMMA CancelInv ==
  ASSUME IInv, NEW s \in Sleeves, cancel_open_orders(s)
  PROVE  InBooks' /\ InTick'
  <1> DEFINE view == [i \in DOMAIN broker[s] |->
                IF IsOpen(orders[s][i]) /\ IsOpen(broker[s][i])
                THEN [broker[s][i] EXCEPT !.status = "canceled"] ELSE broker[s][i]]
             rs == RecordedAll(s, view)
  <1>1. /\ s \in tick.cleaning /\ tick' = [tick EXCEPT !.cleaning = {}]
        /\ broker' = [broker EXCEPT ![s] = view] /\ orders' = [orders EXCEPT ![s] = rs]
        /\ legs' = [key \in DOMAIN legs |->
               IF key[1] = s /\ key[2] \in DOMAIN orders[s] /\ IsOpen(orders[s][key[2]])
               THEN 0 ELSE legs[key]]
        /\ UNCHANGED <<status, account, byHand, slipped, exits>>
    BY DEF cancel_open_orders
  <1>2. /\ orders[s] \in Seq(Order) /\ broker[s] \in Seq(View)
        /\ Len(broker[s]) = Len(orders[s])
    BY Tick DEF BookTypes, Rows
  <1>3. /\ DOMAIN broker[s] = 1..Len(broker[s]) /\ Len(broker[s]) \in Nat
        /\ DOMAIN orders[s] = DOMAIN broker[s]
        /\ \A i \in DOMAIN broker[s] : broker[s][i] \in View
    <2> DEFINE w == broker[s]  q == orders[s]
    <2>1. w \in Seq(View) /\ q \in Seq(Order) /\ Len(w) = Len(q)
      BY <1>2
    <2> HIDE DEF w, q
    <2>2. /\ DOMAIN w = 1..Len(w) /\ Len(w) \in Nat /\ DOMAIN q = DOMAIN w
          /\ \A i \in DOMAIN w : w[i] \in View
      BY <2>1, ElementOfSeq
    <2> QED
      BY <2>2 DEF w, q
  <1>4. \A i \in DOMAIN broker[s] : view[i] \in View
    <2> SUFFICES ASSUME NEW i \in DOMAIN broker[s] PROVE view[i] \in View
      OBVIOUS
    <2>1. broker[s][i] \in View
      BY <1>3
    <2>2. [broker[s][i] EXCEPT !.status = "canceled"] \in View
      BY <2>1 DEF View, OrderStatus, Terminal
    <2> QED
      BY <2>1, <2>2
  <1>5. view \in Seq(View) /\ Len(view) = Len(orders[s])
    <2> DEFINE n == Len(broker[s])
    <2>1. n \in Nat /\ n = Len(orders[s]) /\ view \in [DOMAIN broker[s] -> View]
      BY <1>2, <1>3, <1>4
    <2>2. view \in [1..n -> View]
      BY <1>3, <2>1
    <2> HIDE DEF view, n
    <2> QED
      BY <2>1, <2>2
  <1>6. \A i \in DOMAIN orders[s] : Settles(orders[s][i], broker[s][i], view[i])
    BY <1>3 DEF Settles
  <1> HIDE DEF view
  <1>7. Settled(orders[s], broker[s], view, rs)
    BY <1>5, <1>6 DEF Settled, RecordedAll
  <1> HIDE DEF rs
  <1>8. Replaced(orders, broker, s, rs, view, orders', broker')
    BY <1>1 DEF Replaced
  <1>9. Books(orders', broker', Net, byHand, slipped)
    BY <1>5, <1>7, <1>8, BooksSettle, Tick
  <1>10. tick' \in TickState /\ tick'.pc = "poll" /\ tick'.ctx = NoContext
    BY <1>1, Tick DEF TickState
  <1>11. InTick'
    BY <1>1, <1>10, SameTick, Tick
  <1>12. legs' \in Legs /\ SumFunction(legs') <= SumFunction(legs)
    <2>1. legs \in [Keys -> Nat]
      BY Tick DEF Legs
    <2>2. /\ legs' \in [Keys -> Nat]
          /\ \A key \in Keys : legs'[key] = 0 \/ legs'[key] = legs[key]
      BY <1>1, <2>1
    <2>3. \A key \in Keys : legs'[key] <= legs[key]
      BY <2>1, <2>2
    <2> QED
      BY <2>1, <2>2, <2>3, LegsCancelled DEF Legs
  <1>13. Books(orders', broker', Net', byHand, slipped)
    BY <1>1, <1>9, <1>12, FreedBooks, Tick
  <1> QED
    BY <1>1, <1>11, <1>12, <1>13, Tick DEF InBooks

\* A history of the group does not fold.
LEMMA FoldRaisesInv == ASSUME IInv, FoldRaises PROVE InBooks' /\ InTick'
  <1>1. tick' = [Idle EXCEPT !.pc = "rules"]
        /\ UNCHANGED <<status, orders, broker, legs, account, byHand, slipped, exits>>
    BY DEF FoldRaises
  <1>2. tick' \in TickState /\ tick'.pc = "rules" /\ tick'.cleaning = {}
    BY <1>1, IdleType DEF TickState, Idle
  <1> QED
    BY <1>1, <1>2, SameBooks, SameTick, Tick

\* The histories are folded and the positions fetched.
LEMMA PositionsInv == ASSUME IInv, get_positions PROVE InBooks' /\ InTick'
  <1>1. /\ ReadyToReconcile /\ \A s \in Checkable : Ledger(s).ok
        /\ UNCHANGED <<status, orders, broker, legs, account, byHand, slipped, exits>>
    BY DEF get_positions
  <1>2. PICK answer \in {account.qty, NoAnswer} :
            tick' = IF Checkable = {} THEN [Idle EXCEPT !.pc = "rules"]
                    ELSE [tick EXCEPT !.pc = "account", !.positions = answer]
    BY DEF get_positions
  <1>3. InBooks'
    BY <1>1, SameBooks
  <1>4. CASE Checkable = {}
    <2>1. tick' \in TickState /\ tick'.pc = "rules" /\ tick'.cleaning = {}
      BY <1>2, <1>4, IdleType DEF TickState, Idle
    <2> QED
      BY <1>1, <1>3, <2>1, SameTick, Tick
  <1>5. CASE Checkable # {}
    <2>1. tick' = [tick EXCEPT !.pc = "account", !.positions = answer]
      BY <1>2, <1>5
    <2>2. answer \in Nat \cup {NoAnswer}
      BY Tick
    <2>3. /\ tick' \in TickState /\ tick'.cleaning = tick.cleaning /\ tick'.ctx = tick.ctx
          /\ tick'.skip = tick.skip /\ tick'.positions = answer
      BY <2>1, <2>2, Tick DEF TickState
    <2>4. tick.cleaning = {} /\ tick.pc = "poll"
      BY <1>1 DEF ReadyToReconcile
    <2>5. PhaseInv'
      BY <2>3, <2>4, Tick DEF PhaseInv
    <2>6. CheckInv'
      BY <1>1, <2>3 DEF CheckInv, Checkable, Ledger
    <2>7. status' \in [Sleeves -> Status] /\ byHand' \in 0..MaxOutside
      BY <1>1, Tick
    <2> QED
      BY <1>3, <2>3, <2>5, <2>6, <2>7 DEF InTick
  <1> QED
    BY <1>4, <1>5

\* The account is fetched and breaches are paused.
LEMMA ReconcileInv == ASSUME IInv, Reconcile PROVE InBooks' /\ InTick'
  <1> DEFINE evaluable == Checkable \ ToPause
  <1>1. /\ status' = [s \in Sleeves |-> IF s \in ToPause THEN Paused ELSE status[s]]
        /\ tick' = [Idle EXCEPT !.pc = "rules", !.todo = evaluable,
                                !.armed = {s \in evaluable : status[s] = "PAPER"}]
        /\ UNCHANGED <<orders, broker, legs, account, byHand, slipped, exits>>
    BY DEF Reconcile
  <1>2. evaluable \in SUBSET Sleeves
    BY DEF Checkable
  <1> HIDE DEF evaluable
  <1>3. tick' \in TickState /\ tick'.pc = "rules" /\ tick'.cleaning = {}
    BY <1>1, <1>2, IdleType DEF TickState, Idle
  <1>4. status' \in [Sleeves -> Status]
    BY <1>1, Tick DEF Status, Paused
  <1> QED
    BY <1>1, <1>3, <1>4, SameBooks, SameTick, Tick

\* What a sleeve has traded and may still spend is a number.
LEMMA TurnoverType == ASSUME IInv, NEW s \in Sleeves PROVE Turnover(s) \in Int
  <1> DEFINE q == orders[s]  w == broker[s]  slip == s \in slipped
             f == [i \in DOMAIN q |-> q[i].notional + OpenPart(q[i])]
  <1>1. q \in Seq(Order) /\ w \in Seq(View) /\ slip \in BOOLEAN /\ Rows(q, w, slip)
    BY Tick DEF BookTypes
  <1> HIDE DEF q, w, slip
  <1>2. IsFiniteSet(DOMAIN q) /\ \A i \in DOMAIN q : q[i] \in Order /\ OpenPart(q[i]) \in Nat
    BY <1>1, RowsTypes
  <1>3. \A i \in DOMAIN q : f[i] \in Int
    BY <1>2 DEF Order
  <1>4. Turnover(s) = SumFunctionOnSet(f, DOMAIN q)
    BY DEF Turnover, SumFunction, q
  <1> HIDE DEF f
  <1> QED
    BY <1>2, <1>3, <1>4, SumInt

\* The rules of a sleeve read their context.
LEMMA BeginRulesInv ==
  ASSUME IInv, NEW s \in Sleeves, BeginRules(s)
  PROVE  InBooks' /\ InTick'
  <1>1. /\ tick.pc = "rules" /\ tick.ctx = NoContext
        /\ UNCHANGED <<status, orders, broker, legs, account, byHand, slipped, exits>>
    BY DEF BeginRules
  <1>2. CASE s \in tick.armed /\ Ledger(s).ok
    <2> DEFINE l == Ledger(s)
               c == [left |-> Actions, entries |-> FALSE, qty |-> l.qty,
                     equity |-> Equity(l), turnover |-> Turnover(s)]
    <2>1. tick' = [tick EXCEPT !.ctx = c]
      BY <1>2 DEF BeginRules
    <2>2. l \in LedgerState /\ l.qty \in Nat
      BY <1>2, SleeveFolds, Tick DEF Ledger
    <2>3. l.cash \in Int /\ l.reserved \in Int /\ Close \in Nat /\ Actions \in Nat
      BY <2>2, MoneyAssumption DEF LedgerState
    <2> HIDE DEF l
    <2>4. Equity(l) \in Int
      BY <2>2, <2>3 DEF Equity
    <2>5. c \in Context
      BY <2>2, <2>3, <2>4, TurnoverType DEF Context
    <2> HIDE DEF c
    <2>6. tick' \in TickState /\ tick'.pc = "rules" /\ tick'.cleaning = tick.cleaning
      BY <1>1, <2>1, <2>5, Tick DEF TickState
    <2> QED
      BY <1>1, <2>6, SameBooks, SameTick, Tick
  <1>3. CASE ~(s \in tick.armed /\ Ledger(s).ok)
    <2>1. tick' = [tick EXCEPT !.todo = @ \ {s}, !.armed = @ \ {s}]
      BY <1>3 DEF BeginRules
    <2>2. tick' \in TickState /\ tick'.pc = "rules" /\ tick'.cleaning = tick.cleaning
      BY <1>1, <2>1, Tick DEF TickState
    <2> QED
      BY <1>1, <2>2, SameBooks, SameTick, Tick
  <1> QED
    BY <1>2, <1>3

\* The turn of a sleeve's rules passes on.
LEMMA PassesInv ==
  ASSUME IInv, NEW s \in Sleeves, Dispatching(s), NEW n \in Nat \ {0}, NEW e \in BOOLEAN,
         Passes(s, n, e), status' = status, byHand' = byHand
  PROVE  InTick'
  <1>1. tick.pc = "rules" /\ tick.cleaning = {}
    BY Tick DEF Dispatching
  <1>2. CASE tick.ctx.left > n
    <2> DEFINE c == [tick.ctx EXCEPT !.left = @ - n, !.entries = e]
    <2>1. tick' = [tick EXCEPT !.ctx = c]
      BY <1>2 DEF Passes
    <2>2. tick.ctx.left - n \in 0..Actions
      <3>1. tick.ctx.left \in 0..Actions /\ Actions \in Nat
        BY Tick, MoneyAssumption
      <3> QED
        BY <1>2, <3>1
    <2>3. c \in Context
      BY <2>2, Tick DEF Context
    <2> HIDE DEF c
    <2>4. tick' \in TickState /\ tick'.pc = "rules" /\ tick'.cleaning = {}
      BY <1>1, <2>1, <2>3, Tick DEF TickState
    <2> QED
      BY <2>4, SameTick, Tick
  <1>3. CASE ~(tick.ctx.left > n)
    <2>1. tick' = [tick EXCEPT !.ctx = NoContext, !.todo = @ \ {s}, !.armed = @ \ {s}]
      BY <1>3 DEF Passes
    <2>2. tick' \in TickState /\ tick'.pc = "rules" /\ tick'.cleaning = {}
      BY <1>1, <2>1, Tick, IdleType DEF TickState
    <2> QED
      BY <2>2, SameTick, Tick
  <1> QED
    BY <1>2, <1>3

\* An action places nothing.
LEMMA NoOrderInv ==
  ASSUME IInv, NEW s \in Sleeves, NoOrder(s)
  PROVE  InBooks' /\ InTick'
  <1>1. /\ Dispatching(s) /\ UNCHANGED <<status, orders, broker, legs, account, byHand, slipped, exits>>
    BY DEF NoOrder
  <1>2. PICK n \in 1..tick.ctx.left : Passes(s, n, tick.ctx.entries)
    BY DEF NoOrder
  <1>3. n \in Nat \ {0} /\ tick.ctx.entries \in BOOLEAN
    BY Tick
  <1> QED
    BY <1>1, <1>2, <1>3, PassesInv, SameBooks

\* A tick ends.
LEMMA EndTickInv == ASSUME IInv, EndTick PROVE InBooks' /\ InTick'
  <1>1. tick' = Idle /\ UNCHANGED <<status, orders, broker, legs, account, byHand, slipped, exits>>
    BY DEF EndTick
  <1>2. tick' \in TickState /\ tick'.pc = "idle" /\ tick'.cleaning = {} /\ tick'.ctx = NoContext
    BY <1>1, IdleType DEF Idle
  <1> QED
    BY <1>1, <1>2, SameBooks, SameTick, Tick

-----------------------------------------------------------------------------
(* Orders are sized, clamped and sent. *)

\* An order is sent: a buy that the cash of its sleeve covers, or a sell of
\* shares that nobody else waits for, or one that the broker rejects.
LEMMA PlacesInv ==
  ASSUME IInv, NEW s \in Sleeves, NEW side \in Side, NEW qty \in Nat, NEW price \in {0, Close},
         NEW st \in {"accepted", "rejected"}, Places(s, side, qty, price, st),
         side = "buy" => price = Close /\ Ledger(s).ok /\ qty * Close <= Ledger(s).cash,
         st = "accepted" => qty > 0,
         side = "sell" /\ st = "accepted" => qty <= Available
  PROVE  InBooks' /\ status' = status /\ byHand' = byHand
  <1> DEFINE o == [side |-> side, qty |-> qty, price |-> price, status |-> st,
                   filled |-> 0, notional |-> 0]
             v == [status |-> st, filled |-> 0, notional |-> 0]
  <1>1. /\ Replaced(orders, broker, s, Append(orders[s], o), Append(broker[s], v),
                    orders', broker')
        /\ UNCHANGED <<status, legs, account, byHand, slipped, exits>>
    BY DEF Places, Replaced
  <1>2. /\ Books(orders, broker, Net, byHand, slipped) /\ BookTypes(orders, broker, slipped)
        /\ account.qty \in Nat /\ SumFunction(legs) \in Nat
    BY Tick
  <1>3. /\ o.side = side /\ o.qty = qty /\ o.price = price /\ o.status = st /\ o.filled = 0
        /\ o.notional = 0 /\ v.status = st /\ v.filled = 0 /\ v.notional = 0
    OBVIOUS
  <1>4. o \in Order /\ v \in View
    BY DEF Order, View, OrderStatus, Terminal
  <1> HIDE DEF o, v
  <1>5. RowInv(o, v, s \in slipped)
    <2>1. IsOpen(v) <=> st = "accepted"
      BY <1>3 DEF IsOpen, Terminal
    <2>2. IsOpen(o) <=> st = "accepted"
      BY <1>3 DEF IsOpen, Terminal
    <2>3. (0 - 0) * Close = 0
      BY MoneyAssumption
    <2> QED
      BY <1>3, <2>1, <2>2, <2>3 DEF RowInv
  <1>6. Waiting(o, v) <= Net.free - TotalOnSale(orders, broker)
    <2>1. Available = Net.free - TotalOnSale(orders, broker)
      BY DEF Available, TotalOnSale, Net
    <2>2. /\ TotalOnSale(orders, broker) \in Nat /\ TotalOnSale(orders, broker) <= Net.free
          /\ Net.free \in Nat
      BY <1>2, TotalTypes DEF Books
    <2>3. CASE side = "sell" /\ st = "accepted"
      <3>1. Waiting(o, v) = qty - 0
        BY <1>3, <2>3 DEF Waiting, IsOpen, Terminal
      <3> QED
        BY <2>1, <2>3, <3>1
    <2>4. CASE ~(side = "sell" /\ st = "accepted")
      <3>1. Waiting(o, v) = 0
        BY <1>3, <2>4 DEF Waiting, IsOpen, Terminal
      <3> QED
        BY <1>2, <2>2, <3>1
    <2> QED
      BY <2>3, <2>4
  <1>7. o.side = "buy" => o.qty * Close <= CashBefore(orders[s], Len(orders[s]) + 1)
    <2> SUFFICES ASSUME side = "buy"
                 PROVE  qty * Close <= CashBefore(orders[s], Len(orders[s]) + 1)
      BY <1>3
    <2>1. Ledger(s).cash = CashBefore(orders[s], Len(orders[s]) + 1)
      BY <1>2, SleeveFolds DEF Ledger
    <2> QED
      BY <2>1
  <1>8. Books(orders', broker', Net, byHand, slipped)
    BY <1>1, <1>2, <1>3, <1>4, <1>5, <1>6, <1>7, BooksAppend
  <1>9. Net' = Net
    BY <1>1 DEF Net
  <1> QED
    BY <1>1, <1>8, <1>9, Tick DEF InBooks

\* Sizing and the box give a whole number of shares.
LEMMA SizeType ==
  ASSUME NEW mode \in Mode, NEW amount \in Int, NEW equity \in Int, NEW price \in Nat \ {0},
         NEW stop \in Nat
  PROVE  size_order(mode, amount, equity, price, stop) \in Nat
  <1>1. \A x \in Int : Floored(x) \in Nat
    BY DEF Floored
  <1>2. /\ amount \div price \in Int /\ (amount * equity) \div (100 * price) \in Int
        /\ stop > 0 => (amount * equity) \div (100 * stop) \in Int
    <2>1. 100 * price \in Int /\ 100 * price > 0 /\ amount * equity \in Int
          /\ (stop > 0 => 100 * stop \in Int /\ 100 * stop > 0)
      OBVIOUS
    <2> QED
      BY <2>1
  <1>3. mode \in {"risk_pct", "pct_of_sleeve", "dollars", "shares"} /\ ~(price <= 0)
    BY DEF Mode
  <1>4. CASE mode = "shares"
    BY <1>1, <1>3, <1>4 DEF size_order
  <1>5. CASE mode = "dollars"
    BY <1>1, <1>2, <1>3, <1>5 DEF size_order
  <1>6. CASE mode = "pct_of_sleeve"
    BY <1>1, <1>2, <1>3, <1>6 DEF size_order
  <1>7. CASE mode = "risk_pct"
    BY <1>1, <1>2, <1>3, <1>7 DEF size_order
  <1> QED
    BY <1>3, <1>4, <1>5, <1>6, <1>7

\* The box gives no more shares than were proposed.
LEMMA ClampedType ==
  ASSUME IInv, NEW side \in Side, NEW qty \in Nat
  PROVE  Clamped(side, qty) \in 0..qty
  <1>1. Close \in Nat \ {0} /\ Box \in Envelope
    BY MoneyAssumption
  <1>2. tick.ctx.equity \in Int /\ tick.ctx.qty \in Int /\ tick.ctx.turnover \in Int
    BY Tick
  <1> QED
    BY <1>1, <1>2, BoxReduces DEF Clamped

\* An action orders a whole number of shares.
LEMMA SizedType ==
  ASSUME IInv, NEW side \in Side, NEW z \in Sizings
  PROVE  _size_and_clamp(side, z) \in Nat
  <1> DEFINE stop == IF side = "buy" THEN StopDistance ELSE 0
             proposed == size_order(z.mode, z.amount, tick.ctx.equity, Close, stop)
  <1>1. Close \in Nat \ {0} /\ z.mode \in Mode /\ z.amount \in Int /\ stop \in Nat
    BY MoneyAssumption
  <1>2. proposed \in Nat
    <2> HIDE DEF stop
    <2> QED
      BY <1>1, SizeType, Tick
  <1>3. _size_and_clamp(side, z) = IF proposed = 0 THEN 0 ELSE Clamped(side, proposed)
    BY DEF _size_and_clamp
  <1> HIDE DEF proposed
  <1>4. Clamped(side, proposed) \in Nat
    BY <1>2, ClampedType
  <1> QED
    BY <1>3, <1>4

\* A buy is reserved and sent.
LEMMA BuyInv ==
  ASSUME IInv, NEW s \in Sleeves, NEW qty \in Nat, _dispatch_buy(s, qty)
  PROVE  InBooks' /\ InTick'
  <1>1. /\ Dispatching(s) /\ qty > 0 /\ Passes(s, 1, TRUE)
        /\ Ledger(s).ok /\ qty * Close <= Ledger(s).cash
    BY DEF _dispatch_buy
  <1>2. PICK st \in {"accepted", "rejected"} : Places(s, "buy", qty, Close, st)
    BY DEF _dispatch_buy
  <1>3. InBooks' /\ status' = status /\ byHand' = byHand
    BY <1>1, <1>2, PlacesInv DEF Side
  <1>4. InTick'
    <2>1. 1 \in Nat \ {0} /\ TRUE \in BOOLEAN
      OBVIOUS
    <2>2. Dispatching(s) /\ Passes(s, 1, TRUE) /\ status' = status /\ byHand' = byHand
      BY <1>1, <1>3
    <2> QED
      BY <2>1, <2>2, PassesInv
  <1> QED
    BY <1>3, <1>4

\* A sell is sent.
LEMMA SellsInv ==
  ASSUME IInv, NEW s \in Sleeves, NEW qty \in Nat, Sells(s, qty)
  PROVE  InBooks' /\ InTick'
  <1> DEFINE st == IF qty \in 1..Available THEN "accepted" ELSE "rejected"
  <1>1. Dispatching(s) /\ Passes(s, 1, FALSE) /\ Places(s, "sell", qty, 0, st)
    BY DEF Sells
  <1>2. st = "accepted" => qty > 0 /\ qty <= Available
    <2>1. Available \in Int
      <3>1. /\ TotalOnSale(orders, broker) \in Nat /\ account.qty \in Nat
            /\ SumFunction(legs) \in Nat
        BY Tick, TotalTypes
      <3> QED
        BY <3>1 DEF Available, TotalOnSale
    <2> QED
      BY <2>1
  <1>3. st \in {"accepted", "rejected"}
    OBVIOUS
  <1> HIDE DEF st
  <1>4. InBooks' /\ status' = status /\ byHand' = byHand
    BY <1>1, <1>2, <1>3, PlacesInv DEF Side
  <1>5. InTick'
    <2>1. 1 \in Nat \ {0} /\ FALSE \in BOOLEAN
      OBVIOUS
    <2>2. Dispatching(s) /\ Passes(s, 1, FALSE) /\ status' = status /\ byHand' = byHand
      BY <1>1, <1>4
    <2> QED
      BY <2>1, <2>2, PassesInv
  <1> QED
    BY <1>4, <1>5

\* An action of a rule places an order.
LEMMA DispatchInv ==
  ASSUME IInv, NEW s \in Sleeves,
         \/ _dispatch_go_to_cash(s) \/ _dispatch_set_stop(s)
         \/ \E z \in Sizings : \/ _dispatch_buy(s, _size_and_clamp("buy", z))
                              \/ _dispatch_sell(s, _size_and_clamp("sell", z))
  PROVE  InBooks' /\ InTick'
  <1>1. CASE _dispatch_go_to_cash(s)
    <2>1. tick.ctx.qty \in Nat
      BY Tick
    <2>2. Clamped("sell", tick.ctx.qty) \in Nat
      BY <2>1, ClampedType DEF Side
    <2> QED
      BY <1>1, <2>2, SellsInv DEF _dispatch_go_to_cash
  <1>2. CASE _dispatch_set_stop(s)
    <2>1. tick.ctx.qty \in Nat
      BY Tick
    <2> QED
      BY <1>2, <2>1, SellsInv DEF _dispatch_set_stop
  <1>3. ASSUME NEW z \in Sizings, _dispatch_buy(s, _size_and_clamp("buy", z))
        PROVE  InBooks' /\ InTick'
    <2>1. _size_and_clamp("buy", z) \in Nat
      BY SizedType DEF Side
    <2> QED
      BY <1>3, <2>1, BuyInv
  <1>4. ASSUME NEW z \in Sizings, _dispatch_sell(s, _size_and_clamp("sell", z))
        PROVE  InBooks' /\ InTick'
    <2>1. _size_and_clamp("sell", z) \in Nat
      BY SizedType DEF Side
    <2> QED
      BY <1>4, <2>1, SellsInv DEF _dispatch_sell
  <1> QED
    BY <1>1, <1>2, <1>3, <1>4

-----------------------------------------------------------------------------
(* The broker, the operator, and the invariants of every behaviour. *)

\* A share has been bought or sold: the account pays or is paid, and its shares
\* follow.  Its exit legs come to hold what it has bought, if nobody else does.
LEMMA FilledBooks ==
  ASSUME IInv, NEW bs, NEW sl, NEW sg \in {1, -1}, NEW price \in Nat, NEW key, NEW n \in Nat,
         Books(orders, bs, [cash |-> Net.cash - sg * price, qty |-> Net.qty + sg,
                            free |-> Net.free + sg], byHand, sl),
         account' = [cash |-> account.cash - sg * price, qty |-> account.qty + sg],
         exits' = exits,
         \/ legs' = legs
         \/ /\ key \in Keys /\ HoldNow(legs, key, n, legs') /\ sg = 1 /\ n <= Available + 1
            /\ TotalOnSale(orders, bs) = TotalOnSale(orders, broker)
  PROVE  /\ Books(orders, bs, Net', byHand, sl) /\ legs' \in Legs
         /\ account' \in [cash : Int, qty : Nat]
  <1> DEFINE h == SumFunction(legs)  h2 == SumFunction(legs')  w == TotalOnSale(orders, bs)
             ac == account.cash  aq == account.qty  ex == exits.cash  eq == exits.qty
             cost == sg * price
             now == [cash |-> Net.cash - cost, qty |-> Net.qty + sg, free |-> Net.free + sg]
  <1>1. Books(orders, bs, now, byHand, sl)
    OBVIOUS
  <1>2. /\ h \in Nat /\ ac \in Int /\ aq \in Nat /\ ex \in Nat /\ eq \in Nat /\ cost \in Int
        /\ legs \in Legs
    BY Tick
  <1>3. /\ Net = [cash |-> ac - ex, qty |-> aq + eq, free |-> aq - h]
        /\ Net' = [cash |-> (ac - cost) - ex, qty |-> (aq + sg) + eq, free |-> (aq + sg) - h2]
        /\ account' = [cash |-> ac - cost, qty |-> aq + sg]
    BY DEF Net
  <1>4. /\ now.cash = (ac - ex) - cost /\ now.qty = (aq + eq) + sg /\ now.free = (aq - h) + sg
        /\ now.free \in Nat /\ w <= now.free /\ w \in Nat
    <2>1. /\ BookTypes(orders, bs, sl) /\ now \in [cash : Int, qty : Int, free : Nat]
          /\ w <= now.free
      BY <1>1 DEF Books
    <2> QED
      BY <1>3, <2>1, TotalTypes
  <1>5. legs' \in Legs /\ h2 \in Nat /\ w <= (aq + sg) - h2
    <2>1. CASE legs' = legs
      <3>1. h2 = h
        BY <2>1
      <3> HIDE DEF h, h2, w, aq, now
      <3> QED
        BY <1>2, <1>4, <2>1, <3>1
    <2>2. CASE /\ key \in Keys /\ HoldNow(legs, key, n, legs') /\ sg = 1 /\ n <= Available + 1
               /\ w = TotalOnSale(orders, broker)
      <3>1. /\ legs' \in Legs /\ legs[key] \in Nat /\ h2 = h + (n - legs[key])
        BY <1>2, <2>2, LegChange
      <3>2. Available = (aq - h) - w
        BY <2>2 DEF Available, TotalOnSale
      <3>3. h2 \in Nat
        BY <3>1, LegSum
      <3> DEFINE k == legs[key]
      <3>4. k \in Nat /\ h2 = h + (n - k) /\ n <= ((aq - h) - w) + 1 /\ sg = 1
        BY <2>2, <3>1, <3>2
      <3> HIDE DEF h, h2, w, aq, k, now
      <3>5. w <= (aq + sg) - h2
        BY <1>2, <1>4, <3>3, <3>4
      <3> QED
        BY <3>1, <3>3, <3>5
    <2> QED
      BY <2>1, <2>2
  <1>6. /\ Net' \in [cash : Int, qty : Int, free : Int]
        /\ Net'.cash = now.cash /\ Net'.qty = now.qty /\ w <= Net'.free
    <2> HIDE DEF h, h2, w, ac, aq, ex, eq, cost, now
    <2> QED
      BY <1>2, <1>3, <1>4, <1>5
  <1>7. account' \in [cash : Int, qty : Nat]
    <2>1. aq + sg \in Nat /\ ac - cost \in Int
      <3> HIDE DEF h, h2, w, ac, aq, ex, eq, cost, now
      <3> QED
        BY <1>2, <1>4
    <2> QED
      BY <1>3, <2>1
  <1>8. Books(orders, bs, Net', byHand, sl)
    <2> HIDE DEF now
    <2> QED
      BY <1>1, <1>4, <1>6, BooksFree
  <1> QED
    BY <1>5, <1>7, <1>8

\* A share fills: from then on it is one that no row records.
LEMMA FillInv ==
  ASSUME IInv, NEW s \in Sleeves, NEW i \in DOMAIN orders[s], Fill(s, i)
  PROVE  InBooks' /\ InTick'
  <1> DEFINE b == broker[s][i]
             o == orders[s][i]
             holds == o.side = "buy" /\ b.filled + 1 = o.qty /\ o.qty <= Available + 1
  <1>1. PICK price \in FillPrices :
            /\ IsOpen(b)
            /\ broker' = [broker EXCEPT ![s][i] = FilledView(o, b, price)]
            /\ legs' = [legs EXCEPT ![<<s, i>>] = IF holds THEN o.qty ELSE @]
            /\ account' = [cash |-> account.cash - Sign(o) * price, qty |-> account.qty + Sign(o)]
            /\ slipped' = slipped \cup (IF o.side = "buy" /\ price > o.price THEN {s} ELSE {})
            /\ UNCHANGED <<status, orders, tick, byHand, exits>>
    BY DEF Fill, FilledView
  <1>2. price \in Nat
    BY MoneyAssumption
  <1>3. o \in Order
    <2>1. orders[s] \in Seq(Order)
      BY Tick DEF BookTypes
    <2> QED
      BY <2>1, ElementOfSeq
  <1>4. o.qty \in Nat /\ Sign(o) \in {1, -1} /\ (o.side = "buy" => Sign(o) = 1)
    BY <1>3 DEF Order, Sign
  <1>5. /\ Books(orders, broker', [cash |-> Net.cash - Sign(o) * price, qty |-> Net.qty + Sign(o),
                                   free |-> Net.free + Sign(o)], byHand, slipped')
        /\ o.side = "buy" => TotalOnSale(orders, broker') = TotalOnSale(orders, broker)
        /\ orders[s][i].filled # broker'[s][i].filled
    <2>1. Books(orders, broker, Net, byHand, slipped) /\ IsOpen(broker[s][i])
      BY <1>1, Tick
    <2>2. Filling(orders, broker, Net, slipped, s, i, price, broker',
                  [cash |-> Net.cash - Sign(o) * price, qty |-> Net.qty + Sign(o),
                   free |-> Net.free + Sign(o)], slipped')
      BY <1>1 DEF Filling
    <2> QED
      BY <1>2, <2>1, <2>2, BooksFill
  <1>6. /\ Books(orders, broker', Net', byHand, slipped') /\ legs' \in Legs
        /\ account' \in [cash : Int, qty : Nat]
    <2>1. CASE legs' = legs
      BY <1>1, <1>2, <1>4, <1>5, <2>1, FilledBooks
    <2>2. CASE holds /\ <<s, i>> \in Keys
      <3>1. HoldNow(legs, <<s, i>>, o.qty, legs')
        BY <1>1, <2>2 DEF HoldNow
      <3> QED
        BY <1>1, <1>2, <1>4, <1>5, <2>2, <3>1, FilledBooks
    <2>3. CASE ~(holds /\ <<s, i>> \in Keys)
      <3>1. legs \in [Keys -> Nat]
        BY Tick DEF Legs
      <3>2. legs' = legs
        BY <1>1, <2>3, <3>1
      <3> QED
        BY <2>1, <3>2
    <2> QED
      BY <2>2, <2>3
  <1>7. InBooks'
    BY <1>1, <1>6, Tick DEF InBooks
  <1>8. CheckInv'
    <2> SUFFICES ASSUME tick.pc = "account"
                 PROVE  /\ \A t \in Checkable' : Ledger(t).ok'
                        /\ \E t \in Sleeves : \E j \in DOMAIN orders'[t] : Unrecorded(t, j)'
      BY <1>1 DEF CheckInv
    <2>1. \A t \in Checkable : Ledger(t).ok
      BY DEF IInv, CheckInv
    <2>2. Unrecorded(s, i)'
      BY <1>1, <1>5 DEF Unrecorded
    <2> QED
      BY <1>1, <2>1, <2>2 DEF Checkable, Ledger
  <1>9. InTick'
    BY <1>1, <1>8, Tick DEF InTick, PhaseInv
  <1> QED
    BY <1>7, <1>9

\* A share of an exit leg fills.
LEMMA LegFillInv ==
  ASSUME IInv, NEW key \in Keys, LegFill(key)
  PROVE  InBooks' /\ InTick'
  <1>1. PICK price \in FillPrices :
            /\ legs[key] > 0 /\ legs' = [legs EXCEPT ![key] = @ - 1]
            /\ account' = [cash |-> account.cash + price, qty |-> account.qty - 1]
            /\ exits' = [qty |-> exits.qty + 1, cash |-> exits.cash + price]
            /\ UNCHANGED <<status, orders, broker, tick, byHand, slipped>>
    BY DEF LegFill
  <1> DEFINE h == SumFunction(legs)  h2 == SumFunction(legs')  k == legs[key]
             ac == account.cash  aq == account.qty  ex == exits.cash  eq == exits.qty
             w == TotalOnSale(orders, broker)
  <1>2. /\ price \in Nat /\ h \in Nat /\ ac \in Int /\ aq \in Nat /\ ex \in Nat /\ eq \in Nat
        /\ legs \in Legs
    BY MoneyAssumption, Tick
  <1>3. k \in Nat /\ k > 0 /\ k <= h /\ legs' \in Legs /\ h2 = h + ((k - 1) - k)
    <2>1. k \in Nat /\ k > 0
      BY <1>1, <1>2 DEF Legs
    <2>2. k - 1 \in Nat /\ HoldNow(legs, key, k - 1, legs')
      BY <1>1, <2>1 DEF HoldNow
    <2> QED
      BY <1>2, <2>1, <2>2, LegChange
  <1>4. Books(orders, broker, Net, byHand, slipped) /\ w \in Nat /\ w <= Net.free
    BY Tick, TotalTypes DEF Books
  <1>5. /\ Net = [cash |-> ac - ex, qty |-> aq + eq, free |-> aq - h]
        /\ Net' = [cash |-> (ac + price) - (ex + price), qty |-> (aq - 1) + (eq + 1),
                   free |-> (aq - 1) - h2]
    BY <1>1 DEF Net
  <1>6. Net' = Net
    <2>1. /\ (ac + price) - (ex + price) = ac - ex /\ (aq - 1) + (eq + 1) = aq + eq
          /\ (aq - 1) - h2 = aq - h
      <3> HIDE DEF h, h2, k, ac, aq, ex, eq
      <3> QED
        BY <1>2, <1>3
    <2> QED
      BY <1>5, <2>1
  <1>7. aq >= 1
    <2>1. w <= aq - h
      BY <1>4, <1>5
    <2> HIDE DEF h, h2, k, aq, w
    <2> QED
      BY <1>2, <1>3, <1>4, <2>1
  <1>8. account' \in [cash : Int, qty : Nat] /\ exits' \in Exits /\ exits'.qty > 0
    <2>1. ac + price \in Int /\ aq - 1 \in Nat /\ eq + 1 \in Nat /\ ex + price \in Nat /\ eq + 1 > 0
      <3> HIDE DEF ac, aq, ex, eq
      <3> QED
        BY <1>2, <1>7
    <2> QED
      BY <1>1, <2>1 DEF Exits
  <1>9. InBooks'
    BY <1>1, <1>3, <1>4, <1>6, <1>8 DEF InBooks
  <1>10. CheckInv /\ PhaseInv
    BY DEF IInv
  <1>11. CheckInv' /\ PhaseInv'
    BY <1>1, <1>8, <1>10 DEF CheckInv, PhaseInv, Checkable, Ledger
  <1> QED
    BY <1>1, <1>9, <1>11, Tick DEF InTick

\* Exit legs end.
LEMMA LegsEndInv ==
  ASSUME IInv, NEW key \in Keys, LegsEnd(key)
  PROVE  InBooks' /\ InTick'
  <1>1. /\ legs' = [legs EXCEPT ![key] = 0]
        /\ UNCHANGED <<status, orders, broker, account, tick, byHand, slipped, exits>>
    BY DEF LegsEnd
  <1>2. legs' \in Legs /\ SumFunction(legs') <= SumFunction(legs)
    <2>1. legs \in [Keys -> Nat]
      BY Tick DEF Legs
    <2>2. legs' \in [Keys -> Nat] /\ \A k \in Keys : legs'[k] <= legs[k]
      BY <1>1, <2>1
    <2> QED
      BY <2>1, <2>2, LegsCancelled DEF Legs
  <1>3. Books(orders, broker, Net', byHand, slipped)
    BY <1>1, <1>2, FreedBooks, Tick
  <1>4. InBooks'
    BY <1>1, <1>2, <1>3, Tick DEF InBooks
  <1>5. CheckInv /\ PhaseInv
    BY DEF IInv
  <1>6. CheckInv' /\ PhaseInv'
    BY <1>1, <1>5 DEF CheckInv, PhaseInv, Checkable, Ledger, Unrecorded
  <1> QED
    BY <1>1, <1>4, <1>6, Tick DEF InTick

\* A sleeve is armed or disarmed.
LEMMA ControlInv ==
  ASSUME IInv, NEW s \in Sleeves, Arm(s) \/ Disarm(s)
  PROVE  InBooks' /\ InTick'
  <1>1. /\ status' \in [Sleeves -> Status]
        /\ UNCHANGED <<orders, broker, legs, account, tick, byHand, slipped, exits>>
    BY Tick DEF Arm, Disarm, Status
  <1>2. CheckInv /\ PhaseInv
    BY DEF IInv
  <1>3. CheckInv' /\ PhaseInv'
    BY <1>1, <1>2 DEF CheckInv, PhaseInv, Checkable, Ledger, Unrecorded
  <1> QED
    BY <1>1, <1>3, SameBooks, Tick DEF InTick

\* The operator trades by hand.
LEMMA ByHandInv ==
  ASSUME IInv, ByHand
  PROVE  InBooks' /\ InTick'
  <1>1. /\ byHand + exits.qty < MaxOutside /\ byHand' = byHand + 1
        /\ \/ Available > 0 /\ account' = [cash |-> account.cash + Close, qty |-> account.qty - 1]
           \/ account' = [cash |-> account.cash - Close, qty |-> account.qty + 1]
        /\ UNCHANGED <<status, orders, broker, legs, tick, slipped, exits>>
    BY DEF ByHand
  <1>2. byHand' \in 0..MaxOutside /\ byHand' > 0
    <2>1. byHand \in 0..MaxOutside /\ exits.qty \in Nat /\ MaxOutside \in Nat
      BY BoundAssumption, Tick
    <2> QED
      BY <1>1, <2>1
  <1> DEFINE h == SumFunction(legs)  w == TotalOnSale(orders, broker)
             ac == account.cash  aq == account.qty  ex == exits.cash  eq == exits.qty
             ac2 == account'.cash  aq2 == account'.qty
  <1>3. /\ Books(orders, broker, Net, byHand, slipped) /\ BookTypes(orders, broker, slipped)
        /\ w \in Nat /\ w <= aq - h /\ aq \in Nat /\ ac \in Int /\ h \in Nat
        /\ ex \in Nat /\ eq \in Nat /\ Close \in Nat /\ Available = (aq - h) - w
    <2>1. Net.free = aq - h
      BY DEF Net
    <2> QED
      BY <2>1, Tick, TotalTypes, MoneyAssumption DEF Books, Available, TotalOnSale
  <1>4. /\ account' \in [cash : Int, qty : Nat] /\ w <= aq2 - h
    <2>1. CASE account' = [cash |-> ac - Close, qty |-> aq + 1]
      <3>1. ac - Close \in Int /\ aq + 1 \in Nat /\ w <= (aq + 1) - h
        <4> HIDE DEF h, w, ac, aq
        <4> QED
          BY <1>3
      <3> QED
        BY <2>1, <3>1
    <2>2. CASE Available > 0 /\ account' = [cash |-> ac + Close, qty |-> aq - 1]
      <3>1. (aq - h) - w > 0
        BY <1>3, <2>2
      <3>2. ac + Close \in Int /\ aq - 1 \in Nat /\ w <= (aq - 1) - h
        <4> HIDE DEF h, w, ac, aq
        <4> QED
          BY <1>3, <3>1
      <3> QED
        BY <2>2, <3>2
    <2> QED
      BY <1>1, <2>1, <2>2
  <1>5. /\ Net' \in [cash : Int, qty : Int, free : Nat] /\ w <= Net'.free
    <2>1. Net' = [cash |-> ac2 - ex, qty |-> aq2 + eq, free |-> aq2 - h]
      BY <1>1 DEF Net
    <2>2. ac2 \in Int /\ aq2 \in Nat
      BY <1>4
    <2>3. ac2 - ex \in Int /\ aq2 + eq \in Int /\ aq2 - h \in Nat
      <3> HIDE DEF h, w, ac2, aq2, ex, eq
      <3> QED
        BY <1>3, <1>4, <2>2
    <2> QED
      BY <1>4, <2>1, <2>3
  <1>6. InBooks'
    <2>1. \A s \in Sleeves \ slipped : Covered(orders[s])
      BY <1>3 DEF Books
    <2>2. Books(orders, broker, Net', byHand', slipped)
      BY <1>2, <1>3, <1>5, <2>1 DEF Books
    <2> QED
      BY <1>1, <1>4, <2>2, Tick DEF InBooks
  <1>7. CheckInv /\ PhaseInv
    BY DEF IInv
  <1>8. CheckInv' /\ PhaseInv'
    BY <1>1, <1>2, <1>7 DEF CheckInv, PhaseInv, Checkable, Ledger
  <1> QED
    BY <1>1, <1>2, <1>6, <1>8, Tick DEF InTick

\* Every step keeps the invariant.
LEMMA StepInv == IInv /\ [Next]_vars => IInv'
  <1> SUFFICES ASSUME IInv, [Next]_vars PROVE InBooks' /\ InTick'
    <2>1. (IInv <=> InBooks /\ InTick)'
      BY InvIs, PTL
    <2> QED
      BY <2>1
  <1>1. CASE BeginTick
    BY <1>1, BeginTickInv
  <1>2. CASE FoldRaises
    BY <1>2, FoldRaisesInv
  <1>3. CASE get_positions
    BY <1>3, PositionsInv
  <1>4. CASE Reconcile
    BY <1>4, ReconcileInv
  <1>5. CASE EndTick
    BY <1>5, EndTickInv
  <1>6. ASSUME NEW s \in Sleeves, poll_and_apply_fills(s) PROVE InBooks' /\ InTick'
    BY <1>6, PollInv
  <1>7. ASSUME NEW s \in Sleeves, cancel_open_orders(s) PROVE InBooks' /\ InTick'
    BY <1>7, CancelInv
  <1>8. ASSUME NEW s \in Sleeves, BeginRules(s) PROVE InBooks' /\ InTick'
    BY <1>8, BeginRulesInv
  <1>9. ASSUME NEW s \in Sleeves, NoOrder(s) PROVE InBooks' /\ InTick'
    BY <1>9, NoOrderInv
  <1>10. ASSUME NEW s \in Sleeves,
                \/ _dispatch_go_to_cash(s) \/ _dispatch_set_stop(s)
                \/ \E z \in Sizings : \/ _dispatch_buy(s, _size_and_clamp("buy", z))
                                     \/ _dispatch_sell(s, _size_and_clamp("sell", z))
         PROVE  InBooks' /\ InTick'
    BY <1>10, DispatchInv
  <1>11. CASE ByHand
    BY <1>11, ByHandInv
  <1>12. ASSUME NEW s \in Sleeves, Arm(s) \/ Disarm(s) PROVE InBooks' /\ InTick'
    BY <1>12, ControlInv
  <1>13. ASSUME NEW s \in Sleeves, NEW i \in DOMAIN orders[s], Fill(s, i)
         PROVE  InBooks' /\ InTick'
    BY <1>13, FillInv
  <1>14. ASSUME NEW key \in DOMAIN legs, LegFill(key) \/ LegsEnd(key) PROVE InBooks' /\ InTick'
    <2>1. key \in Keys
      BY Tick DEF Legs
    <2> QED
      BY <1>14, <2>1, LegFillInv, LegsEndInv
  <1>15. CASE UNCHANGED vars
    <2>1. InBooks /\ InTick
      BY InvIs
    <2> QED
      BY <1>15, <2>1 DEF vars, InBooks, Net, InTick, CheckInv, PhaseInv, Checkable, Ledger, Unrecorded
  <1> QED
    BY <1>1, <1>2, <1>3, <1>4, <1>5, <1>6, <1>7, <1>8, <1>9, <1>10, <1>11, <1>12, <1>13, <1>14,
       <1>15 DEF Next, TickStep

\* The rows and the broker's views agree as far as they must, the account is
\* what the fills have made of it, no open sell and no exit leg waits for shares
\* that are not there, and every buy of a sleeve that has not slipped is covered by the cash
\* that the orders before it leave: in every state, whatever the broker, the
\* operator and the interleaving of the tick with them.
THEOREM GroupInvariant == Spec => []IInv
  <1>1. Init => IInv
    BY InitInv
  <1>2. IInv /\ [Next]_vars => IInv'
    BY StepInv
  <1> QED
    BY <1>1, <1>2, PTL DEF Spec

\* As long as the operator leaves the account alone, the folded ledgers and the
\* fills that a poll will still record account for every dollar and share but
\* those that the exit legs of filled buys have sold and been paid.
THEOREM BooksMatchTheBroker == Spec => []BookMatchesBroker
  BY GroupInvariant, BookMatches, PTL

\* The ledger that a history of any length folds into creates and loses no money
\* and reserves what its open buys may still spend.
THEOREM LedgersAlwaysAddUp == Spec => []LedgersAddUp
  BY GroupInvariant, LedgersBalance, PTL

\* A history fails to fold only after a buy of the sleeve has filled above its
\* reservation, or after a sale of shares that the sleeve has not.
THEOREM EachDollarOnce == Spec => []CashIsReservedOnce
  BY GroupInvariant, ReservedOnce, PTL

-----------------------------------------------------------------------------
(* A pause has a cause. *)

\* Only the reconciliation pauses a sleeve.
LEMMA OnlyReconcilePauses ==
  ASSUME IInv, [Next]_vars, NEW s \in Sleeves, status[s] # Paused, status'[s] = Paused
  PROVE  Reconcile /\ s \in ToPause
  <1>1. CASE Reconcile
    <2>1. status' = [t \in Sleeves |-> IF t \in ToPause THEN Paused ELSE status[t]]
      BY <1>1 DEF Reconcile
    <2> QED
      BY <1>1, <2>1
  <1>2. CASE UNCHANGED status
    BY <1>2
  <1>3. ASSUME NEW t \in Sleeves, Arm(t) \/ Disarm(t) PROVE FALSE
    <2>1. status \in [Sleeves -> Status]
      BY Tick
    <2>2. status' = [status EXCEPT ![t] = "PAPER"] \/ status' = [status EXCEPT ![t] = "SHADOW"]
      BY <1>3 DEF Arm, Disarm
    <2> QED
      BY <2>1, <2>2 DEF Paused
  <1>4. Reconcile \/ UNCHANGED status \/ \E t \in Sleeves : Arm(t) \/ Disarm(t)
    <2>1. CASE Next
      <3>1. CASE ByHand \/ \E t \in Sleeves : \E i \in DOMAIN orders[t] : Fill(t, i)
        BY <3>1 DEF ByHand, Fill
      <3>2. CASE TickStep
        BY <3>2 DEF TickStep, BeginTick, FoldRaises, get_positions, EndTick, poll_and_apply_fills,
              cancel_open_orders, BeginRules, NoOrder, _dispatch_buy, _dispatch_sell,
              _dispatch_go_to_cash, _dispatch_set_stop, Sells, Places
      <3>3. CASE \E key \in DOMAIN legs : LegFill(key) \/ LegsEnd(key)
        BY <3>3 DEF LegFill, LegsEnd
      <3> QED
        BY <2>1, <3>1, <3>2, <3>3 DEF Next
    <2> QED
      BY <2>1 DEF vars
  <1> QED
    BY <1>1, <1>2, <1>3, <1>4

\* What those sleeves hold that hold anything.
LEMMA HoldersHoldAll ==
  ASSUME IInv, AllFold, Checkable = Sleeves
  PROVE  Held(Holders) = Held(Sleeves)
  <1> DEFINE f == [s \in Sleeves |-> Ledger(s).qty]
             g == [s \in Holders |-> Ledger(s).qty]
  <1>1. BookTypes(orders, broker, slipped)
    BY Tick
  <1>2. \A s \in Sleeves : f[s] \in Int
    <2> SUFFICES ASSUME NEW s \in Sleeves PROVE Ledger(s).qty \in Int
      OBVIOUS
    <2>1. Ledger(s).ok
      BY DEF AllFold
    <2>2. Ledger(s).qty \in Nat
      BY <1>1, <2>1, SleeveFolds DEF Ledger
    <2> QED
      BY <2>2
  <1>3. Holders \in SUBSET Sleeves /\ \A s \in Sleeves : s \notin Holders => f[s] = 0
    BY DEF Holders
  <1>4. \A s \in Holders : f[s] \in Int /\ g[s] = f[s]
    BY <1>2, <1>3
  <1>5. /\ Held(Sleeves) = SumFunctionOnSet(f, Sleeves) /\ Held(Holders) = SumFunctionOnSet(g, Holders)
    BY DEF Held, SumFunction
  <1> HIDE DEF f, g
  <1>6. IsFiniteSet(Sleeves) /\ IsFiniteSet(Holders)
    BY <1>3, SleevesAssumption, FS_Subset
  <1>7. SumFunctionOnSet(g, Holders) = SumFunctionOnSet(f, Holders)
    BY <1>4, <1>6, SumSame
  <1>8. SumFunctionOnSet(f, Sleeves) = SumFunctionOnSet(f, Holders)
    BY <1>2, <1>3, <1>6, SumSupport
  <1> QED
    BY <1>5, <1>7, <1>8

LEMMA NothingHeld == Held({}) = 0
  <1>1. Held({}) = SumFunctionOnSet([s \in {} |-> Ledger(s).qty], {})
    BY DEF Held, SumFunction
  <1> QED
    BY <1>1, SumNone

\* With nothing to blame, none is paused but the sleeves whose books hold shares
\* that their exit legs may have sold.
LEMMA NothingToBlame ==
  ASSUME IInv, tick.pc = "account", byHand = 0, tick.positions # NoAnswer, tick.skip = {},
         \A s \in Sleeves : \A i \in DOMAIN orders[s] : ~Unrecorded(s, i)
  PROVE  \A s \in ToPause : exits.qty > 0 /\ Ledger(s).qty > 0
  <1>1. Checkable = Sleeves
    BY DEF Checkable
  <1>2. AllFold /\ (tick.positions = account.qty \/ exits.qty > 0)
    BY <1>1 DEF IInv, CheckInv, AllFold
  <1> DEFINE ac == account.cash  aq == account.qty  ex == exits.cash  eq == exits.qty
             claim == CashClaim(Sleeves)  held == Held(Sleeves)
  <1>3. /\ ac - ex = claim + Float /\ aq + eq = held
        /\ claim \in Int /\ held \in Int
        /\ ac \in Int /\ aq \in Nat /\ ex \in Nat /\ eq \in Nat /\ Float \in Nat
    <2> DEFINE pend == SumFunction([s \in Sleeves |-> PendingCash(s)])
               come == SumFunction([s \in Sleeves |-> PendingQty(s)])
    <2>1. /\ claim \in Int /\ held \in Int
          /\ Net.cash = claim + Float - pend /\ Net.qty = held + come
          /\ pend = 0 /\ come = 0
      BY <1>2, LedgersTotal
    <2>2. /\ Float \in Nat /\ ac \in Int /\ aq \in Nat /\ ex \in Nat /\ eq \in Nat
          /\ Net.cash = ac - ex /\ Net.qty = aq + eq
      BY MoneyAssumption, Tick DEF Net
    <2> HIDE DEF pend, come, ac, aq, ex, eq, claim, held
    <2> QED
      BY <2>1, <2>2
  <1>4. ~CashBreach
    <2>1. ~(claim > ac)
      <3> HIDE DEF ac, aq, ex, eq, claim, held
      <3> QED
        BY <1>3
    <2> QED
      BY <1>1, <2>1 DEF CashBreach
  <1>5. Held(Holders) = held
    BY <1>1, <1>2, HoldersHoldAll
  <1>6. CASE Holders = {}
    <2>1. held = 0
      BY <1>5, <1>6, NothingHeld
    <2>2. eq = 0 /\ aq = 0
      <3> HIDE DEF ac, aq, ex, eq, claim, held
      <3> QED
        BY <1>3, <2>1
    <2>3. tick.positions = 0
      BY <1>2, <2>2
    <2> QED
      BY <1>4, <1>6, <2>3 DEF ToPause
  <1>7. CASE Holders # {}
    <2>1. ToPause = IF Held(Holders) > tick.positions THEN Holders ELSE {}
      BY <1>4, <1>7 DEF ToPause
    <2>2. ASSUME eq = 0 PROVE ToPause = {}
      <3>1. tick.positions = aq
        BY <1>2, <2>2
      <3>2. ~(held > aq)
        <4> HIDE DEF ac, aq, ex, eq, claim, held
        <4> QED
          BY <1>3, <2>2
      <3> QED
        BY <1>5, <2>1, <3>1, <3>2
    <2>3. ASSUME NEW s \in ToPause PROVE eq > 0 /\ Ledger(s).qty > 0
      <3>1. s \in Holders
        BY <2>1, <2>3
      <3>2. s \in Sleeves /\ Ledger(s).qty # 0
        BY <3>1 DEF Holders, Checkable
      <3>3. Ledger(s).qty \in Nat
        BY <1>2, <3>2, SleeveFolds, Tick DEF AllFold, Ledger
      <3> QED
        BY <1>3, <2>2, <2>3, <3>2, <3>3
    <2> QED
      BY <2>3
  <1> QED
    BY <1>6, <1>7

\* The reconciliation pauses no sleeve of a group whose books are in order: the
\* operator has traded by hand, the broker has not answered, a sleeve was left
\* out of the check, an order has filled since the poll, or exit legs have sold
\* shares, and then it pauses only sleeves whose books hold some.
THEOREM PausesHaveACause == Spec => PauseHasCause
  <1> DEFINE Caused == \A s \in Sleeves : status[s] # Paused /\ status'[s] = Paused =>
                \/ byHand > 0 \/ tick.positions = NoAnswer \/ tick.skip # {}
                \/ \E t \in Sleeves : \E i \in DOMAIN orders[t] : Unrecorded(t, i)
                \/ exits.qty > 0 /\ Ledger(s).qty > 0
  <1>1. IInv /\ [Next]_vars => Caused
    <2> SUFFICES ASSUME IInv, [Next]_vars, NEW s \in Sleeves, status[s] # Paused,
                        status'[s] = Paused, ~(byHand > 0), tick.positions # NoAnswer,
                        tick.skip = {},
                        \A t \in Sleeves : \A i \in DOMAIN orders[t] : ~Unrecorded(t, i)
                 PROVE  exits.qty > 0 /\ Ledger(s).qty > 0
      OBVIOUS
    <2>1. Reconcile /\ s \in ToPause
      BY OnlyReconcilePauses
    <2>2. tick.pc = "account" /\ byHand = 0
      BY <2>1, Tick DEF Reconcile
    <2> QED
      BY <2>1, <2>2, NothingToBlame
  <1>2. IInv /\ [Next]_vars => [Caused]_vars
    BY <1>1
  <1> QED
    BY <1>2, GroupInvariant, PTL DEF Spec, PauseHasCause
=============================================================================
