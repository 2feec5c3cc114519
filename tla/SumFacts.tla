------------------------------- MODULE SumFacts -------------------------------
(***************************************************************************)
(* What the sum of a function over a finite set is.                        *)
(*                                                                         *)
(* The models add up money with the folds of the community modules, which  *)
(* are defined by recursion over the set.  Facts about such a sum are      *)
(* proved here from a smallest counterexample: in a finite set, every      *)
(* nonempty collection of subsets has one with no other inside it.         *)
(***************************************************************************)
EXTENDS Integers, FiniteSets, Functions, FiniteSetTheorems, WellFoundedInduction, TLAPS

Sum(f, S) == FoldFunctionOnSet(LAMBDA x, y : x + y, 0, f, S)

Pick(s) == CHOOSE x \in s : TRUE
Less(s) == s \ {Pick(s)}

\* g is the sum of f over each subset of S.
Adds(g, f, S) == g = [s \in SUBSET S |-> IF s = {} THEN 0 ELSE f[Pick(s)] + g[Less(s)]]

\* A nonempty collection of subsets of a finite set has a smallest one.
LEMMA Smallest ==
  ASSUME NEW S, IsFiniteSet(S), NEW B, B \subseteq SUBSET S, B # {}
  PROVE  \E T \in B : \A U \in B : ~(U \subseteq T /\ U # T)
<1>1. IsWellFoundedOn(StrictSubsetOrdering(S), FiniteSubsetsOf(S))
  BY FS_StrictSubsetOrderingWellFounded
<1>2. B \subseteq FiniteSubsetsOf(S)
  BY FS_Subset DEF FiniteSubsetsOf
<1>3. PICK T \in B : \A U \in B : <<U, T>> \notin StrictSubsetOrdering(S)
  BY <1>1, <1>2, WFMin
<1>4. QED
  BY <1>3 DEF StrictSubsetOrdering

\* The fold's recursion is the one Adds states.
LEMMA Unfold ==
  ASSUME NEW f, NEW S
  PROVE  Sum(f, S) = (CHOOSE g : Adds(g, f, S))[S]
  BY DEF Sum, FoldFunctionOnSet, MapThenFoldSet, Adds, Pick, Less

\* A nonempty set without its pick is a smaller set.
LEMMA LessIsLess ==
  ASSUME NEW s, s # {}
  PROVE  Pick(s) \in s /\ Pick(s) \notin Less(s) /\ Less(s) \subseteq s /\ Less(s) # s
  BY DEF Pick, Less

\* What a solution is at each subset.
LEMMA AddsAt ==
  ASSUME NEW g, NEW f, NEW S, Adds(g, f, S), NEW s \in SUBSET S
  PROVE  g[s] = IF s = {} THEN 0 ELSE f[Pick(s)] + g[Less(s)]
<1> DEFINE body(u) == IF u = {} THEN 0 ELSE f[Pick(u)] + g[Less(u)]
<1>1. g = [u \in SUBSET S |-> body(u)]
  BY DEF Adds
<1>2. g[s] = [u \in SUBSET S |-> body(u)][s]
  BY <1>1
<1>3. [u \in SUBSET S |-> body(u)][s] = body(s)
  <2> HIDE DEF body
  <2>1. QED
    OBVIOUS
<1>4. QED
  BY <1>2, <1>3

\* Two solutions agree wherever both are defined.
LEMMA AddsAgree ==
  ASSUME NEW S, IsFiniteSet(S), NEW T, T \subseteq S, NEW f,
         NEW g, Adds(g, f, S), NEW h, Adds(h, f, T)
  PROVE  \A s \in SUBSET T : g[s] = h[s]
<1> DEFINE B == {s \in SUBSET T : g[s] # h[s]}
<1> SUFFICES ASSUME B # {} PROVE FALSE
  OBVIOUS
<1>1. PICK s \in B : \A u \in B : ~(u \subseteq s /\ u # s)
  <2>1. IsFiniteSet(T) /\ B \subseteq SUBSET T
    BY FS_Subset
  <2> HIDE DEF B
  <2>2. QED
    BY <2>1, Smallest
<1>2. s \in SUBSET S /\ s \in SUBSET T /\ g[s] # h[s]
  OBVIOUS
<1>3. s # {}
  BY <1>2, AddsAt
<1>4. Less(s) \in SUBSET T /\ g[Less(s)] = h[Less(s)]
  BY <1>1, <1>2, <1>3, LessIsLess
<1>5. QED
  BY <1>2, <1>3, <1>4, AddsAt

\* Every finite set has a solution.
LEMMA AddsExists ==
  ASSUME NEW S, IsFiniteSet(S), NEW f
  PROVE  \E g : Adds(g, f, S)
<1> DEFINE B == {s \in SUBSET S : ~\E g : Adds(g, f, s)}
<1> SUFFICES ASSUME B # {} PROVE FALSE
  OBVIOUS
<1>1. PICK s \in B : \A u \in B : ~(u \subseteq s /\ u # s)
  <2>1. B \subseteq SUBSET S
    OBVIOUS
  <2> HIDE DEF B
  <2>2. QED
    BY <2>1, Smallest
<1> DEFINE sol(u) == CHOOSE g : Adds(g, f, u)
           G == [u \in SUBSET s |-> IF u = {} THEN 0
                                    ELSE f[Pick(u)] + sol(Less(u))[Less(u)]]
<1>2. \A v \in SUBSET s : v # s => Adds(sol(v), f, v)
  <2> SUFFICES ASSUME NEW v \in SUBSET s, v # s PROVE \E g : Adds(g, f, v)
    OBVIOUS
  <2>1. v \in SUBSET S /\ v \notin B
    BY <1>1
  <2>2. QED
    BY <2>1
<1> HIDE DEF sol
<1>3. \A u \in SUBSET s : G[u] = IF u = {} THEN 0 ELSE f[Pick(u)] + sol(Less(u))[Less(u)]
  OBVIOUS
<1>4. \A v \in SUBSET s : v # s => G[v] = sol(v)[v]
  <2> SUFFICES ASSUME NEW v \in SUBSET s, v # s PROVE G[v] = sol(v)[v]
    OBVIOUS
  <2> HIDE DEF G
  <2>1. v \in SUBSET v /\ IsFiniteSet(v)
    BY FS_Subset
  <2>2. CASE v = {}
    BY <1>2, <1>3, <2>1, <2>2, AddsAt
  <2>3. CASE v # {}
    <3>1. Less(v) \in SUBSET s /\ Less(v) # s /\ Less(v) \subseteq v
      BY <2>3, LessIsLess
    <3>2. sol(v)[v] = f[Pick(v)] + sol(v)[Less(v)]
      BY <1>2, <2>1, <2>3, AddsAt
    <3>3. Less(v) \in SUBSET Less(v)
      OBVIOUS
    <3>4. sol(v)[Less(v)] = sol(Less(v))[Less(v)]
      BY <1>2, <2>1, <3>1, <3>3, AddsAgree
    <3>5. QED
      BY <1>3, <2>3, <3>2, <3>4
  <2>4. QED
    BY <2>2, <2>3
<1>5. \A u \in SUBSET s : u # {} => G[Less(u)] = sol(Less(u))[Less(u)]
  <2> SUFFICES ASSUME NEW u \in SUBSET s, u # {}
               PROVE  G[Less(u)] = sol(Less(u))[Less(u)]
    OBVIOUS
  <2> HIDE DEF G
  <2>1. Less(u) \in SUBSET s /\ Less(u) # s
    BY LessIsLess
  <2>2. QED
    BY <1>4, <2>1
<1>6. Adds(G, f, s)
  <2>1. G = [u \in SUBSET s |-> IF u = {} THEN 0 ELSE f[Pick(u)] + G[Less(u)]]
    BY <1>5
  <2>2. QED
    BY <2>1 DEF Adds
<1>7. QED
  BY <1>6

-----------------------------------------------------------------------------
(* The sum *)

\* Nothing adds up to 0; a set adds up to one member and the rest.
LEMMA SumAt ==
  ASSUME NEW S, IsFiniteSet(S), NEW f
  PROVE  Sum(f, S) = IF S = {} THEN 0 ELSE f[Pick(S)] + Sum(f, Less(S))
<1> DEFINE sol(u) == CHOOSE g : Adds(g, f, u)
<1>1. \A u \in SUBSET S : Adds(sol(u), f, u) /\ Sum(f, u) = sol(u)[u]
  BY FS_Subset, AddsExists, Unfold
<1> HIDE DEF sol
<1>2. S \in SUBSET S
  OBVIOUS
<1>3. CASE S = {}
  BY <1>1, <1>2, <1>3, AddsAt
<1>4. CASE S # {}
  <2>1. Less(S) \in SUBSET S /\ Less(S) \in SUBSET Less(S)
    BY <1>4, LessIsLess
  <2>2. sol(S)[S] = f[Pick(S)] + sol(S)[Less(S)]
    BY <1>1, <1>2, <1>4, AddsAt
  <2>3. sol(S)[Less(S)] = sol(Less(S))[Less(S)]
    <3>1. Adds(sol(S), f, S) /\ Adds(sol(Less(S)), f, Less(S)) /\ Less(S) \subseteq S
      BY <1>1, <1>2, <2>1
    <3>2. \A u \in SUBSET Less(S) : sol(S)[u] = sol(Less(S))[u]
      BY <3>1, AddsAgree
    <3>3. QED
      BY <2>1, <3>2
  <2>4. QED
    BY <1>1, <1>2, <1>4, <2>1, <2>2, <2>3
<1>5. QED
  BY <1>3, <1>4

\* Whole numbers add up to a whole number.
LEMMA SumType ==
  ASSUME NEW S, IsFiniteSet(S), NEW f, \A x \in S : f[x] \in Int
  PROVE  Sum(f, S) \in Int
<1> DEFINE B == {s \in SUBSET S : Sum(f, s) \notin Int}
<1> SUFFICES ASSUME B # {} PROVE FALSE
  OBVIOUS
<1>1. PICK s \in B : \A u \in B : ~(u \subseteq s /\ u # s)
  <2>1. B \subseteq SUBSET S
    OBVIOUS
  <2> HIDE DEF B
  <2>2. QED
    BY <2>1, Smallest
<1>2. s \in SUBSET S /\ Sum(f, s) \notin Int /\ IsFiniteSet(s)
  BY FS_Subset
<1>3. s # {}
  BY <1>2, SumAt
<1>4. Pick(s) \in S /\ Less(s) \in SUBSET S /\ Less(s) \notin B
  BY <1>1, <1>2, <1>3, LessIsLess
<1>5. QED
  BY <1>2, <1>3, <1>4, SumAt

\* The order of adding does not matter: any member may come first.
LEMMA SumWithout ==
  ASSUME NEW S, IsFiniteSet(S), NEW f, \A y \in S : f[y] \in Int, NEW x \in S
  PROVE  Sum(f, S) = f[x] + Sum(f, S \ {x})
<1> DEFINE B == {s \in SUBSET S : \E z \in s : Sum(f, s) # f[z] + Sum(f, s \ {z})}
<1> SUFFICES ASSUME B # {} PROVE FALSE
  OBVIOUS
<1>1. PICK s \in B : \A u \in B : ~(u \subseteq s /\ u # s)
  <2>1. B \subseteq SUBSET S
    OBVIOUS
  <2> HIDE DEF B
  <2>2. QED
    BY <2>1, Smallest
<1>2. s \in SUBSET S
  OBVIOUS
<1>3. PICK z \in s : Sum(f, s) # f[z] + Sum(f, s \ {z})
  OBVIOUS
<1>4. \A u \in SUBSET S : u \subseteq s /\ u # s =>
        \A y \in u : Sum(f, u) = f[y] + Sum(f, u \ {y})
  BY <1>1
<1> DEFINE p == Pick(s)
<1> HIDE DEF B
<1>5. p \in s /\ Less(s) = s \ {p}
  BY <1>3, LessIsLess DEF Less
<1>6. Sum(f, s) = f[p] + Sum(f, s \ {p})
  BY <1>2, <1>3, <1>5, FS_Subset, SumAt
<1> HIDE DEF p
<1>7. z # p
  BY <1>3, <1>6
<1>8. Sum(f, s \ {p}) = f[z] + Sum(f, (s \ {p}) \ {z})
  BY <1>2, <1>3, <1>4, <1>5, <1>7
<1>9. Sum(f, s \ {z}) = f[p] + Sum(f, (s \ {z}) \ {p})
  BY <1>2, <1>3, <1>4, <1>5, <1>7
<1>10. (s \ {p}) \ {z} = (s \ {z}) \ {p}
  OBVIOUS
<1>11. Sum(f, (s \ {p}) \ {z}) \in Int /\ f[z] \in Int /\ f[p] \in Int
  <2>1. /\ IsFiniteSet((s \ {p}) \ {z}) /\ (s \ {p}) \ {z} \subseteq S
        /\ z \in S /\ p \in S
    BY <1>2, <1>3, <1>5, FS_Subset
  <2>2. QED
    BY <2>1, SumType
<1>12. Sum(f, s) = f[p] + (f[z] + Sum(f, (s \ {p}) \ {z}))
  BY <1>6, <1>8
<1>13. Sum(f, s \ {z}) = f[p] + Sum(f, (s \ {p}) \ {z})
  BY <1>9, <1>10
<1>14. Sum(f, s) = f[z] + Sum(f, s \ {z})
  <2>1. QED
    BY <1>11, <1>12, <1>13
<1>15. QED
  BY <1>3, <1>14

\* Terms that are 0 add nothing.
LEMMA SumZero ==
  ASSUME NEW S, IsFiniteSet(S), NEW f, \A y \in S : f[y] = 0
  PROVE  Sum(f, S) = 0
<1> DEFINE B == {s \in SUBSET S : Sum(f, s) # 0}
<1> SUFFICES ASSUME B # {} PROVE FALSE
  OBVIOUS
<1>1. PICK s \in B : \A u \in B : ~(u \subseteq s /\ u # s)
  <2>1. B \subseteq SUBSET S
    OBVIOUS
  <2> HIDE DEF B
  <2>2. QED
    BY <2>1, Smallest
<1>2. s \in SUBSET S /\ Sum(f, s) # 0 /\ IsFiniteSet(s)
  BY FS_Subset
<1>3. s # {}
  BY <1>2, SumAt
<1>4. Pick(s) \in S /\ Less(s) \in SUBSET S /\ Less(s) \notin B
  BY <1>1, <1>2, <1>3, LessIsLess
<1>5. QED
  BY <1>2, <1>3, <1>4, SumAt

\* The sum depends on nothing but the terms.
LEMMA SumSame ==
  ASSUME NEW S, IsFiniteSet(S), NEW f, NEW h, \A x \in S : f[x] = h[x]
  PROVE  Sum(f, S) = Sum(h, S)
<1> DEFINE B == {s \in SUBSET S : Sum(f, s) # Sum(h, s)}
<1> SUFFICES ASSUME B # {} PROVE FALSE
  OBVIOUS
<1>1. PICK s \in B : \A u \in B : ~(u \subseteq s /\ u # s)
  <2>1. B \subseteq SUBSET S
    OBVIOUS
  <2> HIDE DEF B
  <2>2. QED
    BY <2>1, Smallest
<1>2. s \in SUBSET S /\ Sum(f, s) # Sum(h, s) /\ IsFiniteSet(s)
  BY FS_Subset
<1>3. s # {}
  BY <1>2, SumAt
<1>4. Pick(s) \in S /\ Less(s) \in SUBSET S /\ Less(s) \notin B
  BY <1>1, <1>2, <1>3, LessIsLess
<1>5. QED
  BY <1>2, <1>3, <1>4, SumAt

\* One changed term changes the sum by as much.
LEMMA SumChanged ==
  ASSUME NEW S, IsFiniteSet(S), NEW x \in S, NEW f, NEW h,
         \A y \in S : f[y] \in Int /\ h[y] \in Int,
         \A y \in S \ {x} : f[y] = h[y]
  PROVE  Sum(h, S) = Sum(f, S) - f[x] + h[x]
<1>1. Sum(f, S) = f[x] + Sum(f, S \ {x}) /\ Sum(h, S) = h[x] + Sum(h, S \ {x})
  BY SumWithout
<1>2. IsFiniteSet(S \ {x})
  BY FS_Subset
<1>3. Sum(f, S \ {x}) = Sum(h, S \ {x}) /\ Sum(f, S \ {x}) \in Int
  BY <1>2, SumSame, SumType
<1>4. QED
  BY <1>1, <1>3

\* A sum with one term is that term.
LEMMA SumOne ==
  ASSUME NEW S, IsFiniteSet(S), NEW f, NEW x \in S, f[x] \in Int,
         \A y \in S \ {x} : f[y] = 0
  PROVE  Sum(f, S) = f[x]
<1>1. Sum(f, S) = f[x] + Sum(f, S \ {x})
  BY SumWithout
<1>2. IsFiniteSet(S \ {x})
  BY FS_Subset
<1>3. Sum(f, S \ {x}) = 0
  BY <1>2, SumZero
<1>4. QED
  BY <1>1, <1>3

\* The sum of two functions is the sum of their sums.
LEMMA SumPlus ==
  ASSUME NEW S, IsFiniteSet(S), NEW f, NEW h, NEW k,
         \A x \in S : f[x] \in Int /\ h[x] \in Int /\ k[x] = f[x] + h[x]
  PROVE  Sum(k, S) = Sum(f, S) + Sum(h, S)
<1> DEFINE B == {s \in SUBSET S : Sum(k, s) # Sum(f, s) + Sum(h, s)}
<1> SUFFICES ASSUME B # {} PROVE FALSE
  OBVIOUS
<1>1. PICK s \in B : \A u \in B : ~(u \subseteq s /\ u # s)
  <2>1. B \subseteq SUBSET S
    OBVIOUS
  <2> HIDE DEF B
  <2>2. QED
    BY <2>1, Smallest
<1>2. s \in SUBSET S /\ IsFiniteSet(s) /\ Sum(k, s) # Sum(f, s) + Sum(h, s)
  BY FS_Subset
<1>3. s # {}
  <2>1. CASE s = {}
    <3>1. Sum(k, s) = 0 /\ Sum(f, s) = 0 /\ Sum(h, s) = 0
      BY <1>2, <2>1, SumZero
    <3>2. QED
      BY <1>2, <3>1
  <2>2. QED
    BY <2>1
<1>4. PICK x \in s : TRUE
  BY <1>3
<1> DEFINE rest == s \ {x}
<1>5. Sum(k, rest) = Sum(f, rest) + Sum(h, rest)
  BY <1>1, <1>2, <1>4
<1>6. /\ Sum(k, s) = k[x] + Sum(k, rest)
      /\ Sum(f, s) = f[x] + Sum(f, rest)
      /\ Sum(h, s) = h[x] + Sum(h, rest)
  BY <1>2, <1>4, SumWithout
<1>7. Sum(f, rest) \in Int /\ Sum(h, rest) \in Int
  <2>1. IsFiniteSet(rest)
    BY <1>2, FS_Subset
  <2>2. QED
    BY <1>2, <2>1, SumType
<1>8. f[x] \in Int /\ h[x] \in Int /\ k[x] = f[x] + h[x]
  BY <1>2, <1>4
<1> HIDE DEF rest
<1>9. QED
  BY <1>2, <1>5, <1>6, <1>7, <1>8

\* A finite set of integers has a greatest.
LEMMA HasGreatest ==
  ASSUME NEW S, IsFiniteSet(S), S \in SUBSET Int, S # {}
  PROVE  \E x \in S : \A y \in S : y <= x
<1> DEFINE B == {{y \in S : y >= x} : x \in S}
<1>1. IsFiniteSet(S) /\ B \subseteq SUBSET S /\ B # {}
  OBVIOUS
<1>2. PICK T \in B : \A U \in B : ~(U \subseteq T /\ U # T)
  <2> HIDE DEF B
  <2>1. QED
    BY ONLY <1>1, Smallest
<1>3. PICK x \in S : T = {y \in S : y >= x}
  OBVIOUS
<1>4. ASSUME NEW y \in S, ~(y <= x) PROVE FALSE
  <2> DEFINE U == {z \in S : z >= y}
  <2>1. x \in Int /\ y \in Int
    OBVIOUS
  <2>2. U \in B
    OBVIOUS
  <2>3. \A z \in U : z \in S /\ z \in Int /\ z >= y
    OBVIOUS
  <2>4. \A z \in U : z >= x
    BY <1>4, <2>1, <2>3
  <2>5. U \subseteq T
    BY <1>3, <2>3, <2>4
  <2>6. x \in T /\ x \notin U
    BY <1>3, <1>4, <2>1
  <2>7. QED
    BY <1>2, <2>2, <2>5, <2>6
<1>5. QED
  BY <1>4

\* Adding up under other names: as many terms, and the same sum.
LEMMA SumRenamed ==
  ASSUME NEW S, IsFiniteSet(S), NEW f, NEW h, NEW name,
         \A x \in S : f[x] \in Int /\ h[name[x]] = f[x],
         \A x, y \in S : name[x] = name[y] => x = y
  PROVE  /\ IsFiniteSet({name[x] : x \in S})
         /\ Cardinality({name[x] : x \in S}) = Cardinality(S)
         /\ Sum(h, {name[x] : x \in S}) = Sum(f, S)
<1> DEFINE image(s) == {name[x] : x \in s}
           Renamed(s) == /\ IsFiniteSet(image(s)) /\ Cardinality(image(s)) = Cardinality(s)
                         /\ Sum(h, image(s)) = Sum(f, s)
           B == {s \in SUBSET S : ~Renamed(s)}
<1> SUFFICES ASSUME B # {} PROVE FALSE
  OBVIOUS
<1>1. PICK s \in B : \A u \in B : ~(u \subseteq s /\ u # s)
  <2>1. B \subseteq SUBSET S
    OBVIOUS
  <2> HIDE DEF B
  <2>2. QED
    BY <2>1, Smallest
<1>2. s \in SUBSET S /\ ~Renamed(s) /\ IsFiniteSet(s)
  BY FS_Subset
<1>3. s # {}
  <2>1. ASSUME s = {} PROVE Renamed(s)
    <3>1. image(s) = {}
      BY <2>1
    <3>2. Sum(h, {}) = 0 /\ Sum(f, {}) = 0 /\ IsFiniteSet({})
      BY FS_EmptySet, SumZero
    <3> HIDE DEF image
    <3>3. QED
      BY <2>1, <3>1, <3>2
  <2>2. QED
    BY <1>2, <2>1
<1>4. PICK x \in s : TRUE
  BY <1>3
<1> DEFINE rest == s \ {x}
<1>5. rest \in SUBSET S /\ Renamed(rest) /\ IsFiniteSet(rest)
  <2>1. rest \in SUBSET S /\ rest \subseteq s /\ rest # s
    BY <1>2, <1>4
  <2>2. rest \notin B
    BY <1>1, <2>1
  <2> HIDE DEF Renamed, rest
  <2>3. QED
    BY <1>2, <2>1, <2>2, FS_Subset
<1>6. image(s) = image(rest) \cup {name[x]} /\ name[x] \notin image(rest)
  BY <1>2, <1>4
<1>7. image(s) \ {name[x]} = image(rest)
  BY <1>6
<1>8. \A k \in image(s) : h[k] \in Int
  BY <1>2
<1>9. f[x] \in Int /\ h[name[x]] = f[x] /\ \A y \in s : f[y] \in Int
  BY <1>2, <1>4
<1>10. Cardinality(s) = Cardinality(rest) + 1
  <2>1. s = rest \cup {x} /\ x \notin rest
    BY <1>4
  <2> HIDE DEF rest
  <2>2. QED
    BY <1>5, <2>1, FS_AddElement
<1>11. Sum(f, s) = f[x] + Sum(f, rest)
  BY <1>2, <1>4, <1>9, SumWithout
<1>12. /\ IsFiniteSet(image(s)) /\ Cardinality(image(s)) = Cardinality(image(rest)) + 1
       /\ Sum(h, image(s)) = h[name[x]] + Sum(h, image(rest))
  <2> DEFINE all == image(s)
             others == image(rest)
             new == name[x]
  <2>1. all = others \cup {new} /\ new \notin others /\ all \ {new} = others /\ new \in all
    BY <1>4, <1>6, <1>7
  <2>2. IsFiniteSet(others) /\ \A k \in all : h[k] \in Int
    BY <1>5, <1>8
  <2> HIDE DEF all, others, new
  <2>3. IsFiniteSet(all) /\ Cardinality(all) = Cardinality(others) + 1
    BY <2>1, <2>2, FS_AddElement
  <2>4. Sum(h, all) = h[new] + Sum(h, others)
    BY <2>1, <2>2, <2>3, SumWithout
  <2>5. QED
    BY <2>3, <2>4 DEF all, others, new
<1> HIDE DEF image, B, rest
<1>13. QED
  BY <1>2, <1>5, <1>9, <1>10, <1>11, <1>12

\* The same, of the set that the new names make up.
Renames(name, S, T) ==
  T = {name[x] : x \in S} /\ \A x, y \in S : name[x] = name[y] => x = y

LEMMA SizeOfRenamed ==
  ASSUME NEW S, IsFiniteSet(S), NEW T, NEW name, Renames(name, S, T)
  PROVE  Cardinality(T) = Cardinality(S)
<1> DEFINE f == [x \in S |-> 0]
           h == [k \in T |-> 0]
<1>1. \A x \in S : f[x] \in Int /\ h[name[x]] = f[x]
  BY DEF Renames
<1> HIDE DEF f, h
<1>2. /\ IsFiniteSet({name[x] : x \in S})
      /\ Cardinality({name[x] : x \in S}) = Cardinality(S)
      /\ Sum(h, {name[x] : x \in S}) = Sum(f, S)
  BY <1>1, SumRenamed DEF Renames
<1>3. QED
  BY <1>2 DEF Renames

LEMMA SumOfRenamed ==
  ASSUME NEW S, IsFiniteSet(S), NEW T, NEW name, Renames(name, S, T), NEW f, NEW h,
         \A x \in S : f[x] \in Int /\ h[name[x]] = f[x]
  PROVE  Sum(h, T) = Sum(f, S)
  BY SumRenamed DEF Renames
=============================================================================
