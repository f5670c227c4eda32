------------------------------ MODULE SumTheorems ------------------------------
(***************************************************************************)
(* Facts about SumFunctionOnSet of the community modules, by which the     *)
(* program's sums over the rows of a table are modelled.  The library      *)
(* defines it by a fold that takes a set's members in an order of its own; *)
(* these facts show that the order does not matter.  Induction over a      *)
(* finite set is a least counterexample in the order of strict inclusion.  *)
(***************************************************************************)
EXTENDS Integers, Functions, FiniteSets, FiniteSetTheorems,
        NaturalsInduction, TLAPS

(* A nonempty set of naturals has a least member.                          *)
LEMMA LeastNumber ==
  ASSUME NEW T \in SUBSET Nat, T # {}
  PROVE  \E m \in T : \A n \in T : m <= n
<1> DEFINE R == OpToRel(<, Nat)
<1>1. IsWellFoundedOn(R, Nat)
  BY NatLessThanWellFounded
<1>2. R = {p \in Nat \X Nat : p[1] < p[2]}
  BY DEF OpToRel
<1> HIDE DEF R
<1>3. PICK m \in T : \A n \in T : ~ (<<n, m>> \in R)
  BY <1>1, WFMin
<1>4. ASSUME NEW n \in T PROVE m <= n
  <2>1. <<n, m>> \in Nat \X Nat /\ <<n, m>>[1] = n /\ <<n, m>>[2] = m
    OBVIOUS
  <2>2. ~ (n < m)
    BY <1>2, <1>3, <2>1
  <2> QED
    BY <2>2
<1> QED
  BY <1>4

(* A nonempty family of subsets of a finite set has a least member.        *)
LEMMA LeastSet ==
  ASSUME NEW S, IsFiniteSet(S), NEW Bad \in SUBSET SUBSET S, Bad # {}
  PROVE  \E s \in Bad : \A t \in Bad : t \subseteq s => t = s
<1> DEFINE R == StrictSubsetOrdering(S)
<1>1. IsWellFoundedOn(R, SUBSET S)
  BY FS_StrictSubsetOrderingWellFounded, FS_FiniteSubsetsOfFinite
<1>2. PICK s \in Bad : \A t \in Bad : ~ (<<t, s>> \in R)
  BY <1>1, WFMin
<1>3. \A t \in Bad : t \subseteq s => t = s
  BY <1>2 DEF StrictSubsetOrdering
<1> QED
  BY <1>3

-----------------------------------------------------------------------------
(* One turn of the recursion, and the function it defines on the subsets   *)
(* of a set.                                                               *)

Turn(f, g, s) ==
  IF s = {} THEN 0
  ELSE LET x == CHOOSE y \in s : TRUE IN f[x] + g[s \ {x}]

Turns(f, S) == CHOOSE g : g = [s \in SUBSET S |-> Turn(f, g, s)]

LEMMA Unfold ==
  ASSUME NEW f, NEW S
  PROVE  SumFunctionOnSet(f, S) = Turns(f, S)[S]
BY DEF SumFunctionOnSet, FoldFunctionOnSet, MapThenFoldSet, Turn, Turns

(* It exists: level by level, from the empty set upwards.                  *)
LEMMA EachTurn ==
  ASSUME NEW f, NEW S, IsFiniteSet(S)
  PROVE  \A s \in SUBSET S : Turns(f, S)[s] = Turn(f, Turns(f, S), s)
<1> DEFINE Level(n) == {s \in SUBSET S : Cardinality(s) <= n}
           Bad == {n \in Nat : ~ \E g : g = [s \in Level(n) |-> Turn(f, g, s)]}
<1>1. \A s \in SUBSET S : IsFiniteSet(s) /\ Cardinality(s) \in Nat
  BY FS_Subset, FS_CardinalityType
<1>2. ASSUME Bad # {} PROVE FALSE
  <2>1. PICK n \in Bad : \A m \in Bad : n <= m
    <3> HIDE DEF Bad
    <3>1. Bad \in SUBSET Nat
      BY DEF Bad
    <3> QED
      BY <1>2, <3>1, LeastNumber
  <2>2. CASE n = 0
    <3> DEFINE g == [s \in Level(0) |-> 0]
    <3>1. \A s \in Level(0) : s = {}
      BY <1>1, FS_EmptySet
    <3>2. g = [s \in Level(0) |-> Turn(f, g, s)]
      BY <3>1 DEF Turn
    <3> QED
      BY <2>2, <3>2
  <2>3. CASE n # 0
    <3>1. n - 1 \in Nat /\ n - 1 \notin Bad
      <4>1. n \in Nat
        OBVIOUS
      <4> HIDE DEF Bad
      <4> QED
        BY <2>1, <2>3, <4>1
    <3>2. PICK g : g = [s \in Level(n - 1) |-> Turn(f, g, s)]
      BY <3>1
    <3> DEFINE h == [s \in Level(n) |-> Turn(f, g, s)]
    <3>3. ASSUME NEW s \in Level(n), s # {}
          PROVE  LET x == CHOOSE y \in s : TRUE IN
                 s \ {x} \in Level(n - 1) /\ s \ {x} \in Level(n)
      <4> DEFINE x == CHOOSE y \in s : TRUE
      <4>1. x \in s
        BY <3>3
      <4>2. Cardinality(s \ {x}) = Cardinality(s) - 1
        BY <1>1, <4>1, FS_RemoveElement
      <4> HIDE DEF x
      <4>3. Cardinality(s) \in Nat /\ Cardinality(s) <= n
        BY <1>1
      <4>4. s \ {x} \in Level(n - 1) /\ s \ {x} \in Level(n)
        BY <3>1, <4>2, <4>3
      <4> QED
        BY <4>4 DEF x
    <3>4. \A s \in Level(n - 1) : s \in Level(n) /\ h[s] = g[s]
      <4>1. \A s \in Level(n - 1) : s \in Level(n)
        BY <1>1
      <4>2. \A s \in Level(n - 1) : g[s] = Turn(f, g, s)
        BY <3>2
      <4> QED
        BY <4>1, <4>2
    <3>5. \A s \in Level(n) : Turn(f, g, s) = Turn(f, h, s)
      <4>1. SUFFICES ASSUME NEW s \in Level(n), s # {}
                     PROVE  Turn(f, g, s) = Turn(f, h, s)
        BY DEF Turn
      <4> DEFINE x == CHOOSE y \in s : TRUE
      <4>2. s \ {x} \in Level(n - 1)
        BY <3>3, <4>1
      <4>3. h[s \ {x}] = g[s \ {x}]
        BY <3>4, <4>2
      <4>4. /\ Turn(f, g, s) = f[x] + g[s \ {x}]
            /\ Turn(f, h, s) = f[x] + h[s \ {x}]
        BY <4>1 DEF Turn
      <4> QED
        BY <4>3, <4>4
    <3>6. h = [s \in Level(n) |-> Turn(f, h, s)]
      <4>1. \A s \in Level(n) : h[s] = Turn(f, h, s)
        BY <3>5
      <4> QED
        BY <4>1
    <3> QED
      BY <3>6
  <2> QED
    BY <2>2, <2>3
<1>3. Cardinality(S) \in Nat /\ Level(Cardinality(S)) = SUBSET S
  BY <1>1, FS_Subset
<1>4. Cardinality(S) \notin Bad
  BY <1>2
<1>5. \E g : g = [s \in SUBSET S |-> Turn(f, g, s)]
  BY <1>3, <1>4
<1>6. PICK g : g = Turns(f, S) /\ g = [s \in SUBSET S |-> Turn(f, g, s)]
  BY <1>5 DEF Turns
<1>7. \A s \in SUBSET S : g[s] = Turn(f, g, s)
  BY <1>6
<1> QED
  BY <1>6, <1>7

(* What it gives for a set does not depend on the sets around it, nor on   *)
(* what the function is elsewhere.                                         *)
LEMMA TurnsAgree ==
  ASSUME NEW S, IsFiniteSet(S), NEW T, IsFiniteSet(T), NEW f, NEW g,
         NEW s, s \subseteq S, s \subseteq T, \A x \in s : f[x] = g[x]
  PROVE  Turns(f, S)[s] = Turns(g, T)[s]
<1> DEFINE a == Turns(f, S)
           b == Turns(g, T)
           Bad == {t \in SUBSET s : a[t] # b[t]}
<1>1. SUFFICES ASSUME Bad # {} PROVE FALSE
  OBVIOUS
<1>2. /\ \A t \in SUBSET s : a[t] = Turn(f, a, t)
      /\ \A t \in SUBSET s : b[t] = Turn(g, b, t)
  <2>1. \A t \in SUBSET S : a[t] = Turn(f, a, t)
    BY EachTurn, Zenon
  <2>2. \A t \in SUBSET T : b[t] = Turn(g, b, t)
    BY EachTurn, Zenon
  <2> HIDE DEF a, b
  <2> QED
    BY <2>1, <2>2
<1> HIDE DEF a, b
<1>3. PICK t \in Bad : \A u \in Bad : u \subseteq t => u = t
  <2>1. IsFiniteSet(s)
    BY FS_Subset
  <2>2. Bad \in SUBSET SUBSET s
    OBVIOUS
  <2> HIDE DEF Bad
  <2> QED
    BY <1>1, <2>1, <2>2, LeastSet
<1>4. t \in SUBSET s /\ a[t] # b[t]
  OBVIOUS
<1>5. t # {}
  BY <1>2, <1>4 DEF Turn
<1> DEFINE x == CHOOSE y \in t : TRUE
<1>6. x \in t
  BY <1>5
<1>7. a[t \ {x}] = b[t \ {x}]
  <2> HIDE DEF x
  <2> QED
    BY <1>3, <1>4, <1>6
<1>8. a[t] = f[x] + a[t \ {x}] /\ b[t] = g[x] + b[t \ {x}]
  BY <1>2, <1>4, <1>5 DEF Turn
<1>9. f[x] = g[x]
  BY <1>4, <1>6
<1> QED
  BY <1>4, <1>7, <1>8, <1>9

-----------------------------------------------------------------------------
(* What the other modules use.                                             *)

LEMMA SumEmpty ==
  ASSUME NEW f
  PROVE  SumFunctionOnSet(f, {}) = 0
<1>1. IsFiniteSet({})
  BY FS_EmptySet
<1>2. \A s \in SUBSET {} : Turns(f, {})[s] = Turn(f, Turns(f, {}), s)
  BY <1>1, EachTurn, Zenon
<1>3. Turns(f, {})[{}] = Turn(f, Turns(f, {}), {})
  BY <1>2
<1> QED
  BY <1>3, Unfold DEF Turn

(* Two functions that agree on a set have the same sum on it.              *)
LEMMA SumSame ==
  ASSUME NEW S, IsFiniteSet(S), NEW f, NEW g, \A x \in S : f[x] = g[x]
  PROVE  SumFunctionOnSet(f, S) = SumFunctionOnSet(g, S)
BY TurnsAgree, Unfold

(* The member that CHOOSE takes first.                                     *)
LEMMA SumFirst ==
  ASSUME NEW S, IsFiniteSet(S), S # {}, NEW f
  PROVE  LET x == CHOOSE y \in S : TRUE IN
         SumFunctionOnSet(f, S) = f[x] + SumFunctionOnSet(f, S \ {x})
<1> DEFINE a == Turns(f, S)
           x == CHOOSE y \in S : TRUE
<1>1. a[S] = Turn(f, a, S)
  <2>1. \A s \in SUBSET S : a[s] = Turn(f, a, s)
    BY EachTurn, Zenon
  <2> HIDE DEF a
  <2> QED
    BY <2>1
<1>2. a[S] = f[x] + a[S \ {x}]
  BY <1>1 DEF Turn
<1>3. IsFiniteSet(S \ {x})
  BY FS_Subset
<1>4. a[S \ {x}] = Turns(f, S \ {x})[S \ {x}]
  <2> HIDE DEF x
  <2> QED
    BY <1>3, TurnsAgree
<1> QED
  BY <1>2, <1>4, Unfold

LEMMA SumInt ==
  ASSUME NEW S, IsFiniteSet(S), NEW f, \A x \in S : f[x] \in Int
  PROVE  SumFunctionOnSet(f, S) \in Int
<1> DEFINE Bad == {s \in SUBSET S : SumFunctionOnSet(f, s) \notin Int}
<1>1. SUFFICES ASSUME Bad # {} PROVE FALSE
  OBVIOUS
<1>2. PICK s \in Bad : \A t \in Bad : t \subseteq s => t = s
  <2>1. Bad \in SUBSET SUBSET S
    OBVIOUS
  <2> HIDE DEF Bad
  <2> QED
    BY <1>1, <2>1, LeastSet
<1>3. s \in SUBSET S /\ SumFunctionOnSet(f, s) \notin Int /\ s # {}
  BY SumEmpty
<1> DEFINE x == CHOOSE y \in s : TRUE
<1>4. x \in s
  BY <1>3
<1>5. SumFunctionOnSet(f, s) = f[x] + SumFunctionOnSet(f, s \ {x})
  BY <1>3, SumFirst, FS_Subset
<1> HIDE DEF x
<1>6. SumFunctionOnSet(f, s \ {x}) \in Int
  BY <1>2, <1>3, <1>4
<1> QED
  BY <1>3, <1>4, <1>5, <1>6

(* Any member can come first.                                              *)
LEMMA SumRemove ==
  ASSUME NEW S, IsFiniteSet(S), NEW f, \A x \in S : f[x] \in Int,
         NEW e \in S
  PROVE  SumFunctionOnSet(f, S) = f[e] + SumFunctionOnSet(f, S \ {e})
<1> DEFINE Sum(s) == SumFunctionOnSet(f, s)
           Bad == {s \in SUBSET S : \E d \in s : Sum(s) # f[d] + Sum(s \ {d})}
<1>1. SUFFICES ASSUME Bad # {} PROVE FALSE
  OBVIOUS
<1>2. /\ \A s \in SUBSET S : Sum(s) \in Int
      /\ \A s \in SUBSET S : s # {} =>
           \E x \in s : Sum(s) = f[x] + Sum(s \ {x})
  <2>1. \A s \in SUBSET S : IsFiniteSet(s)
    BY FS_Subset
  <2>2. \A s \in SUBSET S : Sum(s) \in Int
    BY <2>1, SumInt
  <2>3. ASSUME NEW s \in SUBSET S, s # {}
        PROVE  \E x \in s : Sum(s) = f[x] + Sum(s \ {x})
    <3>1. (CHOOSE y \in s : TRUE) \in s
      BY <2>3
    <3> QED
      BY <2>1, <2>3, <3>1, SumFirst
  <2> QED
    BY <2>2, <2>3
<1>3. PICK s \in Bad : \A t \in Bad : t \subseteq s => t = s
  <2>1. Bad \in SUBSET SUBSET S
    OBVIOUS
  <2> HIDE DEF Bad
  <2> QED
    BY <1>1, <2>1, LeastSet
<1> HIDE DEF Sum
<1>4. PICK d \in s : Sum(s) # f[d] + Sum(s \ {d})
  OBVIOUS
<1>5. PICK x \in s : Sum(s) = f[x] + Sum(s \ {x})
  BY <1>2, <1>4
<1>6. x # d
  BY <1>4, <1>5
<1>7. Sum(s \ {x}) = f[d] + Sum((s \ {x}) \ {d})
  <2>1. s \ {x} \notin Bad /\ s \ {x} \in SUBSET S
    BY <1>3
  <2> QED
    BY <1>6, <2>1
<1>8. Sum(s \ {d}) = f[x] + Sum((s \ {d}) \ {x})
  <2>1. s \ {d} \notin Bad /\ s \ {d} \in SUBSET S
    BY <1>3
  <2> QED
    BY <1>6, <2>1
<1>9. (s \ {x}) \ {d} = (s \ {d}) \ {x}
  OBVIOUS
<1>10. /\ f[x] \in Int /\ f[d] \in Int
       /\ Sum((s \ {d}) \ {x}) \in Int
  BY <1>2
<1>11. ASSUME NEW a \in Int, NEW b \in Int, NEW c \in Int
       PROVE  a + (b + c) = b + (a + c)
  OBVIOUS
<1>12. f[x] + (f[d] + Sum((s \ {d}) \ {x})) = f[d] + (f[x] + Sum((s \ {d}) \ {x}))
  BY <1>10, <1>11
<1> QED
  BY <1>4, <1>5, <1>7, <1>8, <1>9, <1>12

(* One member only.                                                        *)
LEMMA SumOne ==
  ASSUME NEW f, NEW e, f[e] \in Int
  PROVE  SumFunctionOnSet(f, {e}) = f[e]
<1>1. IsFiniteSet({e}) /\ \A x \in {e} : f[x] \in Int
  BY FS_Singleton
<1>2. SumFunctionOnSet(f, {e}) = f[e] + SumFunctionOnSet(f, {e} \ {e})
  BY <1>1, SumRemove
<1>3. {e} \ {e} = {}
  OBVIOUS
<1> QED
  BY <1>2, <1>3, SumEmpty

(* One member more.                                                        *)
LEMMA SumAdd ==
  ASSUME NEW S, IsFiniteSet(S), NEW f, \A x \in S : f[x] \in Int,
         NEW e, e \notin S, f[e] \in Int
  PROVE  SumFunctionOnSet(f, S \cup {e}) = SumFunctionOnSet(f, S) + f[e]
<1>1. IsFiniteSet(S \cup {e})
  BY FS_AddElement
<1>2. SumFunctionOnSet(f, S \cup {e})
        = f[e] + SumFunctionOnSet(f, (S \cup {e}) \ {e})
  BY <1>1, SumRemove
<1>3. (S \cup {e}) \ {e} = S
  OBVIOUS
<1>4. SumFunctionOnSet(f, S \cup {e}) = f[e] + SumFunctionOnSet(f, S)
  BY <1>2, <1>3
<1>5. SumFunctionOnSet(f, S) \in Int
  BY SumInt
<1> QED
  BY <1>4, <1>5

(* A function that changes at one member only.                             *)
LEMMA SumChange ==
  ASSUME NEW S, IsFiniteSet(S), NEW f, NEW g, NEW e \in S,
         \A x \in S : f[x] \in Int, g[e] \in Int,
         \A x \in S : x # e => g[x] = f[x]
  PROVE  SumFunctionOnSet(g, S) = SumFunctionOnSet(f, S) - f[e] + g[e]
<1>1. IsFiniteSet(S \ {e})
  BY FS_Subset
<1>2. \A x \in S : g[x] \in Int
  OBVIOUS
<1>3. SumFunctionOnSet(f, S \ {e}) = SumFunctionOnSet(g, S \ {e})
  BY <1>1, SumSame
<1>4. SumFunctionOnSet(f, S) = f[e] + SumFunctionOnSet(f, S \ {e})
  BY SumRemove
<1>5. SumFunctionOnSet(g, S) = g[e] + SumFunctionOnSet(g, S \ {e})
  BY <1>2, SumRemove
<1>6. SumFunctionOnSet(f, S \ {e}) \in Int
  BY <1>1, SumInt
<1> QED
  BY <1>3, <1>4, <1>5, <1>6

(* A function that is nowhere above another.                               *)
LEMMA SumMonotone ==
  ASSUME NEW S, IsFiniteSet(S), NEW f, NEW g,
         \A x \in S : f[x] \in Int /\ g[x] \in Int /\ f[x] <= g[x]
  PROVE  SumFunctionOnSet(f, S) <= SumFunctionOnSet(g, S)
<1> DEFINE Bad == {s \in SUBSET S :
                     ~ (SumFunctionOnSet(f, s) <= SumFunctionOnSet(g, s))}
<1>1. SUFFICES ASSUME Bad # {} PROVE FALSE
  OBVIOUS
<1>2. PICK s \in Bad : \A t \in Bad : t \subseteq s => t = s
  <2>1. Bad \in SUBSET SUBSET S
    OBVIOUS
  <2> HIDE DEF Bad
  <2> QED
    BY <1>1, <2>1, LeastSet
<1>3. s # {} /\ s \in SUBSET S /\ IsFiniteSet(s)
  <2>1. SumFunctionOnSet(f, {}) = 0 /\ SumFunctionOnSet(g, {}) = 0
    BY SumEmpty
  <2>2. SumFunctionOnSet(f, {}) <= SumFunctionOnSet(g, {})
    BY <2>1
  <2>3. s \in SUBSET S /\ s # {}
    BY <2>2
  <2> QED
    BY <2>3, FS_Subset
<1>4. PICK x \in s : TRUE
  BY <1>3
<1>5. /\ SumFunctionOnSet(f, s) = f[x] + SumFunctionOnSet(f, s \ {x})
      /\ SumFunctionOnSet(g, s) = g[x] + SumFunctionOnSet(g, s \ {x})
  BY <1>3, SumRemove
<1>6. SumFunctionOnSet(f, s \ {x}) <= SumFunctionOnSet(g, s \ {x})
  BY <1>2, <1>3
<1>7. /\ SumFunctionOnSet(f, s \ {x}) \in Int
      /\ SumFunctionOnSet(g, s \ {x}) \in Int
  <2>1. IsFiniteSet(s \ {x})
    BY <1>3, FS_Subset
  <2> QED
    BY <1>3, <2>1, SumInt
<1> QED
  BY <1>3, <1>5, <1>6, <1>7

(* Members that count nothing can be left out.                             *)
LEMMA SumZeroes ==
  ASSUME NEW S, IsFiniteSet(S), NEW T, T \subseteq S, NEW f,
         \A x \in S : f[x] \in Int, \A x \in S \ T : f[x] = 0
  PROVE  SumFunctionOnSet(f, S) = SumFunctionOnSet(f, T)
<1> DEFINE Bad == {s \in SUBSET S : T \subseteq s
                     /\ SumFunctionOnSet(f, s) # SumFunctionOnSet(f, T)}
<1>1. SUFFICES ASSUME Bad # {} PROVE FALSE
  OBVIOUS
<1>2. PICK s \in Bad : \A t \in Bad : t \subseteq s => t = s
  <2>1. Bad \in SUBSET SUBSET S
    OBVIOUS
  <2> HIDE DEF Bad
  <2> QED
    BY <1>1, <2>1, LeastSet
<1>3. s \in SUBSET S /\ IsFiniteSet(s) /\ T \subseteq s /\ s # T
  BY FS_Subset
<1>4. PICK x \in s : x \notin T
  BY <1>3
<1>5. SumFunctionOnSet(f, s) = f[x] + SumFunctionOnSet(f, s \ {x}) /\ f[x] = 0
  BY <1>3, <1>4, SumRemove
<1>6. SumFunctionOnSet(f, s \ {x}) = SumFunctionOnSet(f, T)
  BY <1>2, <1>3, <1>4
<1>7. SumFunctionOnSet(f, s \ {x}) \in Int
  <2>1. IsFiniteSet(s \ {x})
    BY <1>3, FS_Subset
  <2> QED
    BY <1>3, <2>1, SumInt
<1> QED
  BY <1>5, <1>6, <1>7

(* A sum of naturals is one.                                               *)
LEMMA SumNat ==
  ASSUME NEW S, IsFiniteSet(S), NEW f, \A x \in S : f[x] \in Nat
  PROVE  SumFunctionOnSet(f, S) \in Nat
<1> DEFINE zero == [x \in S |-> 0]
<1>1. SumFunctionOnSet(zero, S) = SumFunctionOnSet(zero, {})
  BY SumZeroes
<1>2. SumFunctionOnSet(zero, {}) = 0
  BY SumEmpty
<1>3. SumFunctionOnSet(zero, S) <= SumFunctionOnSet(f, S)
  <2>1. \A x \in S : zero[x] \in Int /\ f[x] \in Int /\ zero[x] <= f[x]
    OBVIOUS
  <2> HIDE DEF zero
  <2> QED
    BY <2>1, SumMonotone
<1>4. SumFunctionOnSet(f, S) \in Int
  BY SumInt
<1> QED
  BY <1>1, <1>2, <1>3, <1>4

(* A part of a set of naturals has no more than the whole.                 *)
LEMMA SumSubset ==
  ASSUME NEW S, IsFiniteSet(S), NEW f, \A x \in S : f[x] \in Nat,
         NEW T, T \subseteq S
  PROVE  SumFunctionOnSet(f, T) <= SumFunctionOnSet(f, S)
<1> DEFINE g == [x \in S |-> IF x \in T THEN f[x] ELSE 0]
<1>1. /\ \A x \in S : g[x] \in Int /\ f[x] \in Int /\ g[x] <= f[x]
      /\ \A x \in S \ T : g[x] = 0
      /\ \A x \in T : g[x] = f[x]
  OBVIOUS
<1> HIDE DEF g
<1>2. SumFunctionOnSet(g, S) = SumFunctionOnSet(g, T)
  BY <1>1, SumZeroes
<1>3. SumFunctionOnSet(g, T) = SumFunctionOnSet(f, T)
  BY <1>1, SumSame, FS_Subset
<1>4. SumFunctionOnSet(g, S) <= SumFunctionOnSet(f, S)
  BY <1>1, SumMonotone
<1> QED
  BY <1>2, <1>3, <1>4

(* The sum of two functions' sums.                                         *)
LEMMA SumPlus ==
  ASSUME NEW S, IsFiniteSet(S), NEW f, NEW g, NEW h,
         \A x \in S : f[x] \in Int /\ g[x] \in Int,
         \A x \in S : h[x] = f[x] + g[x]
  PROVE  /\ SumFunctionOnSet(f, S) \in Int /\ SumFunctionOnSet(g, S) \in Int
         /\ SumFunctionOnSet(h, S)
              = SumFunctionOnSet(f, S) + SumFunctionOnSet(g, S)
<1> DEFINE F(s) == SumFunctionOnSet(f, s)
           G(s) == SumFunctionOnSet(g, s)
           H(s) == SumFunctionOnSet(h, s)
           Bad == {s \in SUBSET S : H(s) # F(s) + G(s)}
<1>1. /\ \A x \in S : f[x] \in Int
      /\ \A x \in S : g[x] \in Int
      /\ \A x \in S : h[x] \in Int
  OBVIOUS
<1>2. \A s \in SUBSET S : IsFiniteSet(s)
  BY FS_Subset
<1>3. \A s \in SUBSET S : F(s) \in Int /\ G(s) \in Int
  BY <1>1, <1>2, SumInt
<1>4. ASSUME NEW s \in SUBSET S, NEW x \in s
      PROVE  /\ F(s) = f[x] + F(s \ {x}) /\ G(s) = g[x] + G(s \ {x})
             /\ H(s) = h[x] + H(s \ {x})
  <2>1. \A y \in s : f[y] \in Int
    BY <1>1
  <2>2. \A y \in s : g[y] \in Int
    BY <1>1
  <2>3. \A y \in s : h[y] \in Int
    BY <1>1
  <2> QED
    BY <1>2, <2>1, <2>2, <2>3, SumRemove
<1>5. F({}) = 0 /\ G({}) = 0 /\ H({}) = 0
  BY SumEmpty
<1> HIDE DEF F, G, H
<1>6. ASSUME Bad # {} PROVE FALSE
  <2>1. PICK s \in Bad : \A t \in Bad : t \subseteq s => t = s
    <3>1. Bad \in SUBSET SUBSET S
      OBVIOUS
    <3> HIDE DEF Bad
    <3> QED
      BY <1>6, <3>1, LeastSet
  <2>2. s \in SUBSET S /\ H(s) # F(s) + G(s)
    OBVIOUS
  <2>3. s # {}
    <3>1. H({}) = F({}) + G({})
      BY <1>5
    <3> QED
      BY <2>2, <3>1
  <2>4. PICK x \in s : TRUE
    BY <2>3
  <2> DEFINE t == s \ {x}
  <2>5. t \in SUBSET S /\ t \subseteq s /\ t # s
    BY <2>2, <2>4
  <2>6. H(t) = F(t) + G(t)
    BY <2>1, <2>5
  <2>7. F(s) = f[x] + F(t) /\ G(s) = g[x] + G(t) /\ H(s) = h[x] + H(t)
    BY <1>4, <2>2, <2>4
  <2>8. /\ F(t) \in Int /\ G(t) \in Int /\ f[x] \in Int /\ g[x] \in Int
        /\ h[x] = f[x] + g[x]
    BY <1>1, <1>3, <2>2, <2>4, <2>5
  <2> HIDE DEF t
  <2> QED
    BY <2>2, <2>6, <2>7, <2>8
<1>7. S \in SUBSET S /\ S \notin Bad
  BY <1>6
<1> QED
  BY <1>3, <1>7 DEF F, G, H

(* A product whose factor is not to be looked into.                        *)
Taken(a, n) == a * n

(* A sum taken so many times.                                              *)
LEMMA SumTimes ==
  ASSUME NEW S, IsFiniteSet(S), NEW f, NEW h, NEW a \in Int,
         \A x \in S : f[x] \in Int,
         \A x \in S : h[x] = Taken(a, f[x])
  PROVE  /\ SumFunctionOnSet(f, S) \in Int
         /\ SumFunctionOnSet(h, S) = Taken(a, SumFunctionOnSet(f, S))
<1> DEFINE F(s) == SumFunctionOnSet(f, s)
           H(s) == SumFunctionOnSet(h, s)
           Bad == {s \in SUBSET S : H(s) # a * F(s)}
<1>1. \A x \in S : f[x] \in Int /\ h[x] \in Int /\ h[x] = a * f[x]
  BY DEF Taken
<1>2. \A s \in SUBSET S : IsFiniteSet(s)
  BY FS_Subset
<1>3. \A s \in SUBSET S : F(s) \in Int
  BY <1>1, <1>2, SumInt
<1>4. ASSUME NEW s \in SUBSET S, NEW x \in s
      PROVE  F(s) = f[x] + F(s \ {x}) /\ H(s) = h[x] + H(s \ {x})
  <2>1. \A y \in s : f[y] \in Int
    BY <1>1
  <2>2. \A y \in s : h[y] \in Int
    BY <1>1
  <2> QED
    BY <1>2, <2>1, <2>2, SumRemove
<1>5. F({}) = 0 /\ H({}) = 0
  BY SumEmpty
<1> HIDE DEF F, H
<1>6. ASSUME Bad # {} PROVE FALSE
  <2>1. PICK s \in Bad : \A t \in Bad : t \subseteq s => t = s
    <3>1. Bad \in SUBSET SUBSET S
      OBVIOUS
    <3> HIDE DEF Bad
    <3> QED
      BY <1>6, <3>1, LeastSet
  <2>2. s \in SUBSET S /\ H(s) # a * F(s)
    OBVIOUS
  <2>3. s # {}
    <3>1. H({}) = a * F({})
      BY <1>5
    <3> QED
      BY <2>2, <3>1
  <2>4. PICK x \in s : TRUE
    BY <2>3
  <2> DEFINE t == s \ {x}
  <2>5. t \in SUBSET S /\ t \subseteq s /\ t # s
    BY <2>2, <2>4
  <2>6. H(t) = a * F(t)
    BY <2>1, <2>5
  <2>7. F(s) = f[x] + F(t) /\ H(s) = h[x] + H(t)
    BY <1>4, <2>2, <2>4
  <2>8. F(t) \in Int /\ f[x] \in Int /\ h[x] = a * f[x]
    BY <1>1, <1>3, <2>2, <2>4, <2>5
  <2> HIDE DEF t
  <2>9. ASSUME NEW p \in Int, NEW u \in Int
        PROVE  a * p + a * u = a * (p + u)
    OBVIOUS
  <2> QED
    BY <2>2, <2>6, <2>7, <2>8, <2>9
<1>7. S \in SUBSET S /\ S \notin Bad
  BY <1>6
<1> QED
  BY <1>3, <1>7 DEF F, H, Taken

(* A set counted one by one.                                               *)
LEMMA SumOnes ==
  ASSUME NEW S, IsFiniteSet(S), NEW f, \A x \in S : f[x] = 1
  PROVE  SumFunctionOnSet(f, S) = Cardinality(S)
<1> DEFINE Bad == {s \in SUBSET S : SumFunctionOnSet(f, s) # Cardinality(s)}
<1>1. ASSUME Bad # {} PROVE FALSE
  <2>1. PICK s \in Bad : \A t \in Bad : t \subseteq s => t = s
    <3>1. Bad \in SUBSET SUBSET S
      OBVIOUS
    <3> HIDE DEF Bad
    <3> QED
      BY <1>1, <3>1, LeastSet
  <2>2. s \subseteq S /\ SumFunctionOnSet(f, s) # Cardinality(s) /\ IsFiniteSet(s)
    BY FS_Subset
  <2>3. s # {}
    BY <2>2, SumEmpty, FS_EmptySet
  <2>4. PICK x \in s : TRUE
    BY <2>3
  <2>5. SumFunctionOnSet(f, s) = f[x] + SumFunctionOnSet(f, s \ {x})
    <3>1. \A y \in s : f[y] \in Int
      BY <2>2
    <3> QED
      BY <2>2, <2>4, <3>1, SumRemove
  <2>6. SumFunctionOnSet(f, s \ {x}) = Cardinality(s \ {x})
    BY <2>1, <2>2, <2>4
  <2>7. Cardinality(s \ {x}) = Cardinality(s) - 1 /\ Cardinality(s) \in Nat
    BY <2>2, <2>4, FS_RemoveElement, FS_CardinalityType
  <2>8. f[x] = 1
    BY <2>2, <2>4
  <2> QED
    BY <2>2, <2>5, <2>6, <2>7, <2>8
<1>2. S \notin Bad
  BY <1>1
<1> QED
  BY <1>2

(* The sum of what is a sum of four for each.                              *)
LEMMA SumParts ==
  ASSUME NEW S, IsFiniteSet(S), NEW c \in Int, NEW l \in Int, NEW h \in Int,
         NEW D, NEW V, NEW W, NEW x,
         \A i \in S : D[i] \in Int /\ V[i] \in Int /\ W[i] \in Int,
         \A i \in S : x[i] = (Taken(c, D[i]) + Taken(l, V[i]))
                              + (Taken(l, W[i]) + Taken(h, 1))
  PROVE  /\ SumFunctionOnSet(D, S) \in Int /\ SumFunctionOnSet(V, S) \in Int
         /\ SumFunctionOnSet(W, S) \in Int /\ Cardinality(S) \in Nat
         /\ SumFunctionOnSet(x, S)
              = (Taken(c, SumFunctionOnSet(D, S)) + Taken(l, SumFunctionOnSet(V, S)))
                  + (Taken(l, SumFunctionOnSet(W, S)) + Taken(h, Cardinality(S)))
<1> DEFINE one == [i \in S |-> 1]
           sold == [i \in S |-> Taken(c, D[i])]
           stands == [i \in S |-> Taken(l, V[i])]
           waits == [i \in S |-> Taken(l, W[i])]
           half == [i \in S |-> Taken(h, one[i])]
           f == [i \in S |-> sold[i] + stands[i]]
           g == [i \in S |-> waits[i] + half[i]]
<1>1. /\ \A i \in S : D[i] \in Int
      /\ \A i \in S : V[i] \in Int
      /\ \A i \in S : W[i] \in Int
      /\ \A i \in S : one[i] \in Int
      /\ \A i \in S : one[i] = 1
  OBVIOUS
<1>2. /\ \A i \in S : sold[i] = Taken(c, D[i])
      /\ \A i \in S : stands[i] = Taken(l, V[i])
      /\ \A i \in S : waits[i] = Taken(l, W[i])
      /\ \A i \in S : half[i] = Taken(h, one[i])
      /\ \A i \in S : f[i] = sold[i] + stands[i]
      /\ \A i \in S : g[i] = waits[i] + half[i]
  OBVIOUS
<1> HIDE DEF one, sold, stands, waits, half, f, g
<1>3. /\ \A i \in S : sold[i] \in Int /\ stands[i] \in Int
      /\ \A i \in S : waits[i] \in Int /\ half[i] \in Int
      /\ \A i \in S : f[i] \in Int /\ g[i] \in Int
      /\ \A i \in S : x[i] = f[i] + g[i]
  <2>1. \A i \in S : sold[i] \in Int /\ stands[i] \in Int
    BY <1>1, <1>2 DEF Taken
  <2>2. \A i \in S : waits[i] \in Int /\ half[i] \in Int
    BY <1>1, <1>2 DEF Taken
  <2>3. \A i \in S : f[i] \in Int /\ g[i] \in Int
    BY <1>2, <2>1, <2>2
  <2>4. \A i \in S : x[i] = f[i] + g[i]
    <3>1. ASSUME NEW i \in S PROVE x[i] = f[i] + g[i]
      <4>1. /\ f[i] = Taken(c, D[i]) + Taken(l, V[i])
            /\ g[i] = Taken(l, W[i]) + Taken(h, 1)
        BY <1>1, <1>2
      <4> QED
        BY <4>1
    <3> QED
      BY <3>1
  <2> QED
    BY <2>1, <2>2, <2>3, <2>4
<1>4. /\ SumFunctionOnSet(D, S) \in Int
      /\ SumFunctionOnSet(sold, S) = Taken(c, SumFunctionOnSet(D, S))
  BY <1>1, <1>2, SumTimes
<1>5. /\ SumFunctionOnSet(V, S) \in Int
      /\ SumFunctionOnSet(stands, S) = Taken(l, SumFunctionOnSet(V, S))
  BY <1>1, <1>2, SumTimes
<1>6. /\ SumFunctionOnSet(W, S) \in Int
      /\ SumFunctionOnSet(waits, S) = Taken(l, SumFunctionOnSet(W, S))
  BY <1>1, <1>2, SumTimes
<1>7. /\ SumFunctionOnSet(one, S) \in Int
      /\ SumFunctionOnSet(half, S) = Taken(h, SumFunctionOnSet(one, S))
  BY <1>1, <1>2, SumTimes
<1>8. SumFunctionOnSet(f, S) = SumFunctionOnSet(sold, S) + SumFunctionOnSet(stands, S)
  BY <1>2, <1>3, SumPlus
<1>9. SumFunctionOnSet(g, S) = SumFunctionOnSet(waits, S) + SumFunctionOnSet(half, S)
  BY <1>2, <1>3, SumPlus
<1>10. SumFunctionOnSet(x, S) = SumFunctionOnSet(f, S) + SumFunctionOnSet(g, S)
  BY <1>3, SumPlus
<1>11. SumFunctionOnSet(one, S) = Cardinality(S) /\ Cardinality(S) \in Nat
  BY <1>1, SumOnes, FS_CardinalityType
<1> QED
  BY <1>4, <1>5, <1>6, <1>7, <1>8, <1>9, <1>10, <1>11

(* Sums taken so many times compare as their terms do.                     *)
LEMMA SumCompare ==
  ASSUME NEW S, IsFiniteSet(S), NEW a \in Int, NEW b \in Int, NEW x, NEW u,
         \A i \in S : x[i] \in Int, \A i \in S : u[i] \in Int,
         \A i \in S : Taken(a, x[i]) <= Taken(b, u[i])
  PROVE  /\ SumFunctionOnSet(x, S) \in Int /\ SumFunctionOnSet(u, S) \in Int
         /\ Taken(a, SumFunctionOnSet(x, S)) <= Taken(b, SumFunctionOnSet(u, S))
<1> DEFINE y == [i \in S |-> Taken(a, x[i])]
           z == [i \in S |-> Taken(b, u[i])]
<1>1. /\ \A i \in S : y[i] = Taken(a, x[i])
      /\ \A i \in S : z[i] = Taken(b, u[i])
  OBVIOUS
<1> HIDE DEF y, z
<1>2. \A i \in S : y[i] \in Int /\ z[i] \in Int /\ y[i] <= z[i]
  BY <1>1 DEF Taken
<1>3. SumFunctionOnSet(y, S) <= SumFunctionOnSet(z, S)
  BY <1>2, SumMonotone
<1>4. /\ SumFunctionOnSet(x, S) \in Int
      /\ SumFunctionOnSet(y, S) = Taken(a, SumFunctionOnSet(x, S))
  BY <1>1, SumTimes
<1>5. /\ SumFunctionOnSet(u, S) \in Int
      /\ SumFunctionOnSet(z, S) = Taken(b, SumFunctionOnSet(u, S))
  BY <1>1, SumTimes
<1> QED
  BY <1>3, <1>4, <1>5
(* A positive factor of both sides.                                        *)
LEMMA CancelFactor ==
  ASSUME NEW t \in Nat \ {0}, NEW a \in Int, NEW b \in Int, t * a <= t * b
  PROVE  a <= b
<1>1. SUFFICES ASSUME a >= b + 1 PROVE FALSE
  OBVIOUS
<1>2. t * a >= t * (b + 1)
  BY <1>1
<1>3. t * (b + 1) = t * b + t
  OBVIOUS
<1> DEFINE x == t * a  y == t * b
<1>4. x \in Int /\ y \in Int
  OBVIOUS
<1> HIDE DEF x, y
<1>5. x >= y + t /\ x <= y
  BY <1>2, <1>3 DEF x, y
<1> QED
  BY <1>4, <1>5

===============================================================================
