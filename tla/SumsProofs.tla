----------------------------- MODULE SumsProofs -----------------------------
(***************************************************************************)
(* What a sum over a finite set comes to.  The induction over the set is a   *)
(* search for a smallest subset that fails: strict inclusion is well-founded *)
(* on finite sets, and a smallest member is a fact about sets, which needs   *)
(* no operator as a parameter.                                               *)
(***************************************************************************)
EXTENDS Sums, FiniteSetTheorems, WellFoundedInduction, TLAPS

Chosen(T) == CHOOSE x \in T : TRUE

(* The recursive function MapThenSumSet chooses.                             *)
IsSum(g, f, S) ==
  g = [s \in SUBSET S |-> IF s = {} THEN 0 ELSE f[Chosen(s)] + g[s \ {Chosen(s)}]]

LEMMA TotalDef ==
  ASSUME NEW f, NEW S
  PROVE  Total(f, S) = (CHOOSE g : IsSum(g, f, S))[S]
BY DEF Total, MapThenSumSet, MapThenFoldSet, IsSum, Chosen

LEMMA ChosenIn == ASSUME NEW T, T # {} PROVE Chosen(T) \in T
BY DEF Chosen

(* If some subset of S is in Bad, so is one no strict subset of which is.    *)
LEMMA Smallest ==
  ASSUME NEW S, IsFiniteSet(S), NEW Bad, Bad \subseteq SUBSET S, Bad # {}
  PROVE  \E T \in Bad : IsFiniteSet(T) /\ \A U \in SUBSET T : U # T => U \notin Bad
<1>1. FiniteSubsetsOf(S) = SUBSET S
  BY FS_FiniteSubsetsOfFinite
<1>2. IsWellFoundedOn(StrictSubsetOrdering(S), SUBSET S)
  BY <1>1, FS_StrictSubsetOrderingWellFounded
<1>3. PICK T \in Bad : \A U \in Bad : ~ (<<U, T>> \in StrictSubsetOrdering(S))
  BY <1>2, WFMin
<1>4. \A U \in SUBSET T : U # T => U \notin Bad
  BY <1>3 DEF StrictSubsetOrdering
<1>5. IsFiniteSet(T)
  BY <1>3, FS_Subset
<1> QED
  BY <1>3, <1>4, <1>5

------------------------------------------------------------------------------
(* The recursion defines one function.                                       *)
LEMMA SumUnique ==
  ASSUME NEW f, NEW S, IsFiniteSet(S), NEW g, NEW h, IsSum(g, f, S), IsSum(h, f, S)
  PROVE  g = h
<1> DEFINE Bad == {T \in SUBSET S : g[T] # h[T]}
<1>1. SUFFICES Bad = {}
  BY <1>1 DEF IsSum
<1>2. SUFFICES ASSUME Bad # {} PROVE FALSE
  OBVIOUS
<1>3. PICK T \in Bad : \A U \in SUBSET T : U # T => U \notin Bad
  <2>1. Bad \subseteq SUBSET S
    OBVIOUS
  <2> HIDE DEF Bad
  <2> QED
    BY <1>2, <2>1, Smallest
<1>4. T # {} => Chosen(T) \in T
  BY ChosenIn
<1>5. T # {} => g[T \ {Chosen(T)}] = h[T \ {Chosen(T)}]
  BY <1>3, <1>4
<1>6. g[T] = h[T]
  BY <1>3, <1>5 DEF IsSum
<1> QED
  BY <1>3, <1>6

LEMMA SumRestrict ==
  ASSUME NEW f, NEW S, NEW g, IsSum(g, f, S), NEW T \in SUBSET S
  PROVE  IsSum([s \in SUBSET T |-> g[s]], f, T)
<1> DEFINE h == [s \in SUBSET T |-> g[s]]
           e(s) == IF s = {} THEN 0 ELSE f[Chosen(s)] + h[s \ {Chosen(s)}]
<1>1. \A s \in SUBSET T : s \ {Chosen(s)} \in SUBSET T
  OBVIOUS
<1>2. \A s \in SUBSET T : g[s] = e(s)
  BY <1>1 DEF IsSum
<1>3. h = [s \in SUBSET T |-> e(s)]
  <2> HIDE DEF e
  <2> QED
    BY <1>2
<1> HIDE DEF h
<1>4. h = [s \in SUBSET T |-> IF s = {} THEN 0 ELSE f[Chosen(s)] + h[s \ {Chosen(s)}]]
  BY <1>3
<1>5. IsSum(h, f, T)
  BY <1>4 DEF IsSum
<1> QED
  BY <1>5 DEF h

(* ... and there is one.                                                     *)
LEMMA SumExists ==
  ASSUME NEW f, NEW S, IsFiniteSet(S)
  PROVE  \E g : IsSum(g, f, S)
<1> DEFINE Bad == {T \in SUBSET S : ~ \E g : IsSum(g, f, T)}
<1>1. SUFFICES ASSUME Bad # {} PROVE FALSE
  BY <1>1
<1> HIDE DEF Bad
<1>2. PICK T \in Bad : IsFiniteSet(T) /\ \A U \in SUBSET T : U # T => U \notin Bad
  <2>1. Bad \subseteq SUBSET S
    BY DEF Bad
  <2> QED
    BY <1>1, <2>1, Smallest
<1> USE DEF Bad
<1> DEFINE H(s) == (CHOOSE h : IsSum(h, f, s))[s]
           g == [s \in SUBSET T |-> IF s = {} THEN 0 ELSE f[Chosen(s)] + H(s \ {Chosen(s)})]
<1>3. \A s \in SUBSET T : s # T => IsSum(CHOOSE h : IsSum(h, f, s), f, s)
  BY <1>2
<1>4. ASSUME NEW s \in SUBSET T, s # T, NEW u \in SUBSET s
      PROVE  (CHOOSE h : IsSum(h, f, s))[u] = H(u)
  <2> DEFINE h == CHOOSE k : IsSum(k, f, s)
             k == [v \in SUBSET u |-> h[v]]
  <2>1. IsSum(k, f, u)
    BY <1>3, <1>4, SumRestrict
  <2>2. IsSum(CHOOSE l : IsSum(l, f, u), f, u)
    BY <2>1
  <2>3. IsFiniteSet(u)
    BY <1>2, <1>4, FS_Subset
  <2>4. k = CHOOSE l : IsSum(l, f, u)
    BY <2>1, <2>2, <2>3, SumUnique
  <2>5. k[u] = h[u]
    OBVIOUS
  <2> QED
    BY <2>4, <2>5
<1>5. ASSUME NEW s \in SUBSET T, s # {} PROVE g[s \ {Chosen(s)}] = H(s \ {Chosen(s)})
  <2> DEFINE u == s \ {Chosen(s)}
             h == CHOOSE k : IsSum(k, f, u)
  <2>1. u \in SUBSET T /\ u # T
    BY <1>5, ChosenIn
  <2>2. IsSum(h, f, u)
    BY <1>3, <2>1
  <2>3. h[u] = IF u = {} THEN 0 ELSE f[Chosen(u)] + h[u \ {Chosen(u)}]
    BY <2>2 DEF IsSum
  <2>4. h[u \ {Chosen(u)}] = H(u \ {Chosen(u)})
    BY <1>4, <2>1
  <2>5. g[u] = IF u = {} THEN 0 ELSE f[Chosen(u)] + H(u \ {Chosen(u)})
    BY <2>1
  <2> QED
    BY <2>3, <2>4, <2>5
<1> DEFINE e(s) == IF s = {} THEN 0 ELSE f[Chosen(s)] + g[s \ {Chosen(s)}]
<1>6. \A s \in SUBSET T : (IF s = {} THEN 0 ELSE f[Chosen(s)] + H(s \ {Chosen(s)})) = e(s)
  <2> HIDE DEF g, H
  <2> QED
    BY <1>5
<1>7. g = [s \in SUBSET T |-> e(s)]
  <2> DEFINE c(s) == IF s = {} THEN 0 ELSE f[Chosen(s)] + H(s \ {Chosen(s)})
  <2>1. \A s \in SUBSET T : c(s) = e(s)
    BY <1>6
  <2> HIDE DEF c, e
  <2>2. [s \in SUBSET T |-> c(s)] = [s \in SUBSET T |-> e(s)]
    BY <2>1
  <2> QED
    BY <2>2 DEF c
<1> HIDE DEF g
<1>8. g = [s \in SUBSET T |-> IF s = {} THEN 0 ELSE f[Chosen(s)] + g[s \ {Chosen(s)}]]
  BY <1>7
<1>9. IsSum(g, f, T)
  BY <1>8 DEF IsSum
<1> QED
  BY <1>2, <1>9

(* Hence the sum of a set is what it picks first and the sum of the rest.    *)
LEMMA TotalStep ==
  ASSUME NEW f, NEW S, IsFiniteSet(S)
  PROVE  Total(f, S) = IF S = {} THEN 0 ELSE f[Chosen(S)] + Total(f, S \ {Chosen(S)})
<1> DEFINE G(s) == CHOOSE g : IsSum(g, f, s)
           rest == S \ {Chosen(S)}
           k == [s \in SUBSET rest |-> G(S)[s]]
<1>1. IsSum(G(S), f, S)
  BY SumExists
<1>2. IsFiniteSet(rest) /\ rest \in SUBSET S
  BY FS_Subset
<1>3. IsSum(G(rest), f, rest)
  BY <1>2, SumExists
<1>4. IsSum(k, f, rest)
  BY <1>1, <1>2, SumRestrict
<1>5. k = G(rest)
  BY <1>2, <1>3, <1>4, SumUnique
<1>6. G(S)[rest] = Total(f, rest)
  BY <1>5, TotalDef
<1>7. G(S)[S] = IF S = {} THEN 0 ELSE f[Chosen(S)] + G(S)[rest]
  BY <1>1 DEF IsSum
<1> QED
  BY <1>6, <1>7, TotalDef

------------------------------------------------------------------------------
(* A finite set all of whose subsets are good as soon as their own strict    *)
(* subsets are is good.                                                      *)
LEMMA AllSubsets ==
  ASSUME NEW S, IsFiniteSet(S), NEW Good,
         \A T \in SUBSET S : (\A U \in SUBSET T : U # T => U \in Good) => T \in Good
  PROVE  S \in Good
<1> DEFINE Bad == {T \in SUBSET S : T \notin Good}
<1>1. SUFFICES ASSUME Bad # {} PROVE FALSE
  OBVIOUS
<1>2. PICK T \in Bad : \A U \in SUBSET T : U # T => U \notin Bad
  <2>1. Bad \subseteq SUBSET S
    OBVIOUS
  <2> HIDE DEF Bad
  <2> QED
    BY <1>1, <2>1, Smallest
<1> QED
  BY <1>2

LEMMA TotalType ==
  ASSUME NEW f, NEW S, IsFiniteSet(S), \A x \in S : f[x] \in Int
  PROVE  Total(f, S) \in Int
<1> DEFINE Good == {T \in SUBSET S : Total(f, T) \in Int}
<1>1. ASSUME NEW T \in SUBSET S, \A U \in SUBSET T : U # T => U \in Good PROVE T \in Good
  <2>1. IsFiniteSet(T)
    BY FS_Subset
  <2>2. CASE T = {}
    <3>1. Total(f, T) = 0
      BY <2>1, <2>2, TotalStep
    <3> QED
      BY <3>1
  <2>3. CASE T # {}
    <3>1. Chosen(T) \in T
      BY <2>3, ChosenIn
    <3>2. Total(f, T \ {Chosen(T)}) \in Int
      BY <1>1, <3>1
    <3> QED
      BY <2>1, <2>3, <3>1, <3>2, TotalStep
  <2> QED
    BY <2>2, <2>3
<1>2. S \in Good
  <2> HIDE DEF Good
  <2> QED
    BY <1>1, AllSubsets
<1> QED
  BY <1>2

LEMMA TotalNat ==
  ASSUME NEW f, NEW S, IsFiniteSet(S), \A x \in S : f[x] \in Nat
  PROVE  Total(f, S) \in Nat
<1> DEFINE Good == {T \in SUBSET S : Total(f, T) \in Nat}
<1>1. ASSUME NEW T \in SUBSET S, \A U \in SUBSET T : U # T => U \in Good PROVE T \in Good
  <2>1. IsFiniteSet(T)
    BY FS_Subset
  <2>2. CASE T = {}
    <3>1. Total(f, T) = 0
      BY <2>1, <2>2, TotalStep
    <3> QED
      BY <3>1
  <2>3. CASE T # {}
    <3>1. Chosen(T) \in T
      BY <2>3, ChosenIn
    <3>2. Total(f, T \ {Chosen(T)}) \in Nat
      BY <1>1, <3>1
    <3> QED
      BY <2>1, <2>3, <3>1, <3>2, TotalStep
  <2> QED
    BY <2>2, <2>3
<1>2. S \in Good
  <2> HIDE DEF Good
  <2> QED
    BY <1>1, AllSubsets
<1> QED
  BY <1>2

(* Any member may be taken out of the sum first.                             *)
LEMMA TotalRemove ==
  ASSUME NEW f, NEW S, IsFiniteSet(S), \A x \in S : f[x] \in Int, NEW a \in S
  PROVE  Total(f, S) = f[a] + Total(f, S \ {a})
<1> DEFINE Good == {T \in SUBSET S : \A x \in T : Total(f, T) = f[x] + Total(f, T \ {x})}
<1>1. ASSUME NEW T \in SUBSET S, \A U \in SUBSET T : U # T => U \in Good PROVE T \in Good
  <2>1. SUFFICES ASSUME NEW x \in T PROVE Total(f, T) = f[x] + Total(f, T \ {x})
    OBVIOUS
  <2> DEFINE p == Chosen(T)
  <2>2. IsFiniteSet(T) /\ p \in T
    BY FS_Subset, ChosenIn
  <2>3. Total(f, T) = f[p] + Total(f, T \ {p})
    BY <2>2, TotalStep
  <2>4. CASE x = p
    BY <2>3, <2>4
  <2>5. CASE x # p
    <3>1. Total(f, T \ {p}) = f[x] + Total(f, (T \ {p}) \ {x})
      BY <1>1, <2>2, <2>5
    <3>2. Total(f, T \ {x}) = f[p] + Total(f, (T \ {x}) \ {p})
      BY <1>1, <2>2, <2>5
    <3>3. (T \ {p}) \ {x} = (T \ {x}) \ {p}
      OBVIOUS
    <3>4. Total(f, (T \ {x}) \ {p}) \in Int
      <4>1. IsFiniteSet((T \ {x}) \ {p}) /\ \A y \in (T \ {x}) \ {p} : f[y] \in Int
        BY <2>2, FS_Subset
      <4> QED
        BY <4>1, TotalType
    <3>5. f[x] \in Int /\ f[p] \in Int
      BY <2>2
    <3> DEFINE both == Total(f, (T \ {x}) \ {p})
    <3>6. Total(f, T) = f[p] + (f[x] + both)
      BY <2>3, <3>1, <3>3
    <3>7. f[p] + (f[x] + both) = f[x] + (f[p] + both)
      <4>1. both \in Int
        BY <3>4
      <4> HIDE DEF both, p
      <4> QED
        BY <4>1, <3>5
    <3> QED
      BY <3>2, <3>6, <3>7
  <2> QED
    BY <2>4, <2>5
<1>2. S \in Good
  <2> HIDE DEF Good
  <2> QED
    BY <1>1, AllSubsets
<1> QED
  BY <1>2

(* A sum reads nothing but the values on its set.                            *)
LEMMA TotalSame ==
  ASSUME NEW f, NEW g, NEW S, IsFiniteSet(S), \A x \in S : f[x] = g[x]
  PROVE  Total(f, S) = Total(g, S)
<1> DEFINE Good == {T \in SUBSET S : Total(f, T) = Total(g, T)}
<1>1. ASSUME NEW T \in SUBSET S, \A U \in SUBSET T : U # T => U \in Good PROVE T \in Good
  <2>1. IsFiniteSet(T)
    BY FS_Subset
  <2>2. T # {} => Chosen(T) \in T
    BY ChosenIn
  <2>3. T # {} => Total(f, T \ {Chosen(T)}) = Total(g, T \ {Chosen(T)})
    BY <1>1, <2>2
  <2>4. T # {} => f[Chosen(T)] = g[Chosen(T)]
    BY <2>2
  <2> QED
    BY <2>1, <2>3, <2>4, TotalStep
<1>2. S \in Good
  <2> HIDE DEF Good
  <2> QED
    BY <1>1, AllSubsets
<1> QED
  BY <1>2

(* A change at one member changes the sum by as much.                        *)
LEMMA TotalChange ==
  ASSUME NEW f, NEW g, NEW S, IsFiniteSet(S), NEW a \in S,
         \A x \in S : f[x] \in Int /\ g[x] \in Int,
         \A x \in S \ {a} : f[x] = g[x]
  PROVE  /\ Total(f, S) \in Int /\ Total(g, S) \in Int
         /\ Total(g, S) = Total(f, S) + (g[a] - f[a])
<1>1. IsFiniteSet(S \ {a})
  BY FS_Subset
<1>2. Total(f, S \ {a}) = Total(g, S \ {a})
  BY <1>1, TotalSame
<1>3. Total(f, S \ {a}) \in Int
  BY <1>1, TotalType
<1>4. Total(f, S) = f[a] + Total(f, S \ {a}) /\ Total(g, S) = g[a] + Total(g, S \ {a})
  BY TotalRemove
<1> QED
  BY <1>2, <1>3, <1>4

(* Sums keep the order of their terms.                                       *)
LEMMA TotalLeq ==
  ASSUME NEW f, NEW g, NEW S, IsFiniteSet(S),
         \A x \in S : f[x] \in Int /\ g[x] \in Int /\ f[x] <= g[x]
  PROVE  Total(f, S) <= Total(g, S)
<1> DEFINE Good == {T \in SUBSET S : Total(f, T) <= Total(g, T)}
<1>1. ASSUME NEW T \in SUBSET S, \A U \in SUBSET T : U # T => U \in Good PROVE T \in Good
  <2>1. IsFiniteSet(T)
    BY FS_Subset
  <2>2. CASE T = {}
    <3>1. Total(f, T) = 0 /\ Total(g, T) = 0
      BY <2>1, <2>2, TotalStep
    <3> QED
      BY <3>1
  <2>3. CASE T # {}
    <3> DEFINE p == Chosen(T)
               rest == T \ {p}
    <3>1. p \in T
      BY <2>3, ChosenIn
    <3>2. Total(f, rest) <= Total(g, rest)
      BY <1>1, <3>1
    <3>3. Total(f, rest) \in Int /\ Total(g, rest) \in Int
      <4>1. IsFiniteSet(rest) /\ \A x \in rest : f[x] \in Int /\ g[x] \in Int
        BY <2>1, FS_Subset
      <4> QED
        BY <4>1, TotalType
    <3>4. Total(f, T) = f[p] + Total(f, rest) /\ Total(g, T) = g[p] + Total(g, rest)
      BY <2>1, <2>3, TotalStep
    <3>5. f[p] \in Int /\ g[p] \in Int /\ f[p] <= g[p]
      BY <3>1
    <3> HIDE DEF p, rest
    <3> QED
      BY <3>2, <3>3, <3>4, <3>5
  <2> QED
    BY <2>2, <2>3
<1>2. S \in Good
  <2> HIDE DEF Good
  <2> QED
    BY <1>1, AllSubsets
<1> QED
  BY <1>2

LEMMA TotalZero ==
  ASSUME NEW f, NEW S, IsFiniteSet(S), \A x \in S : f[x] = 0
  PROVE  Total(f, S) = 0
<1> DEFINE Good == {T \in SUBSET S : Total(f, T) = 0}
<1>1. ASSUME NEW T \in SUBSET S, \A U \in SUBSET T : U # T => U \in Good PROVE T \in Good
  <2>1. IsFiniteSet(T)
    BY FS_Subset
  <2>2. T # {} => Chosen(T) \in T
    BY ChosenIn
  <2>3. T # {} => Total(f, T \ {Chosen(T)}) = 0 /\ f[Chosen(T)] = 0
    BY <1>1, <2>2
  <2> QED
    BY <2>1, <2>3, TotalStep
<1>2. S \in Good
  <2> HIDE DEF Good
  <2> QED
    BY <1>1, AllSubsets
<1> QED
  BY <1>2

(* A sum does not depend on the names of what is summed.                     *)
LEMMA TotalRenamed ==
  ASSUME NEW f, NEW g, NEW S, IsFiniteSet(S), NEW h,
         \A x, y \in S : h[x] = h[y] => x = y,
         \A x \in S : g[x] \in Int /\ f[h[x]] = g[x],
         NEW names, \A x \in S : h[x] \in names, \A y \in names : \E x \in S : h[x] = y
  PROVE  Total(f, names) = Total(g, S)
<1> DEFINE Image(T) == {h[x] : x \in T}
           Good == {T \in SUBSET S : Total(f, Image(T)) = Total(g, T)}
<1>1. ASSUME NEW T \in SUBSET S, \A U \in SUBSET T : U # T => U \in Good PROVE T \in Good
  <2>1. IsFiniteSet(T) /\ IsFiniteSet(Image(T))
    <3>1. IsFiniteSet(T)
      BY FS_Subset
    <3>2. Image(T) = {h[x] : x \in T}
      OBVIOUS
    <3> HIDE DEF Image
    <3>3. IsFiniteSet(Image(T))
      <4> DEFINE k == [x \in T |-> h[x]]
      <4>1. k \in [T -> Image(T)]
        BY <3>2
      <4>2. \A y \in Image(T) : \E x \in T : k[x] = y
        BY <3>2
      <4>3. k \in Surjection(T, Image(T))
        BY <4>1, <4>2 DEF Surjection
      <4> QED
        BY <3>1, <4>3, FS_Surjection
    <3> QED
      BY <3>1, <3>3
  <2>2. CASE T = {}
    <3>1. Image(T) = {}
      BY <2>2
    <3>2. Total(f, Image(T)) = 0 /\ Total(g, T) = 0
      BY <2>1, <2>2, <3>1, TotalStep
    <3> QED
      BY <3>2
  <2>3. CASE T # {}
    <3>1. PICK a \in T : TRUE
      BY <2>3
    <3>2. Total(g, T) = g[a] + Total(g, T \ {a})
      BY <2>1, TotalRemove
    <3>3. \A y \in Image(T) : f[y] \in Int
      OBVIOUS
    <3>4. h[a] \in Image(T)
      OBVIOUS
    <3>5. Image(T) \ {h[a]} = Image(T \ {a})
      OBVIOUS
    <3>6. Total(f, Image(T \ {a})) = Total(g, T \ {a})
      <4>1. T \ {a} \in SUBSET T /\ T \ {a} # T
        OBVIOUS
      <4> QED
        BY <1>1, <4>1
    <3>7. f[h[a]] = g[a]
      OBVIOUS
    <3> HIDE DEF Image
    <3>8. Total(f, Image(T)) = f[h[a]] + Total(f, Image(T) \ {h[a]})
      BY <2>1, <3>3, <3>4, TotalRemove
    <3>9. Total(f, Image(T)) = Total(g, T)
      BY <3>2, <3>5, <3>6, <3>7, <3>8
    <3> QED
      BY <3>9
  <2> QED
    BY <2>2, <2>3
<1> HIDE DEF Good
<1>2. S \in Good
  BY <1>1, AllSubsets
<1>3. Image(S) = names
  OBVIOUS
<1> QED
  BY <1>2, <1>3 DEF Good

(* The sum over two sets that share nothing is the sum of their sums.        *)
LEMMA TotalJoin ==
  ASSUME NEW f, NEW S, NEW R, IsFiniteSet(S), IsFiniteSet(R), S \cap R = {},
         \A x \in S \cup R : f[x] \in Int
  PROVE  Total(f, S \cup R) = Total(f, S) + Total(f, R)
<1> DEFINE Good == {T \in SUBSET R : Total(f, S \cup T) = Total(f, S) + Total(f, T)}
<1>1. ASSUME NEW T \in SUBSET R, \A U \in SUBSET T : U # T => U \in Good PROVE T \in Good
  <2>1. IsFiniteSet(T) /\ IsFiniteSet(S \cup T) /\ Total(f, S) \in Int
    BY FS_Subset, FS_Union, TotalType
  <2>2. CASE T = {}
    <3>1. Total(f, T) = 0 /\ S \cup T = S
      BY <2>1, <2>2, TotalStep
    <3>2. Total(f, S \cup T) = Total(f, S) + Total(f, T)
      BY <2>1, <3>1
    <3> QED
      BY <3>2
  <2>3. CASE T # {}
    <3>1. PICK a \in T : TRUE
      BY <2>3
    <3>2. /\ a \in S \cup T /\ (S \cup T) \ {a} = S \cup (T \ {a})
          /\ T \ {a} \in SUBSET T /\ T \ {a} # T
          /\ \A x \in S \cup T : f[x] \in Int
      OBVIOUS
    <3>3. Total(f, S \cup (T \ {a})) = Total(f, S) + Total(f, T \ {a})
      BY <1>1, <3>2
    <3>4. Total(f, S \cup T) = f[a] + Total(f, S \cup (T \ {a}))
      BY <2>1, <3>2, TotalRemove
    <3>5. Total(f, T) = f[a] + Total(f, T \ {a})
      BY <2>1, <3>2, TotalRemove
    <3>6. Total(f, T \ {a}) \in Int /\ f[a] \in Int
      <4>1. IsFiniteSet(T \ {a})
        BY <2>1, FS_Subset
      <4> QED
        BY <3>2, <4>1, TotalType
    <3>7. Total(f, S \cup T) = Total(f, S) + Total(f, T)
      BY <2>1, <3>3, <3>4, <3>5, <3>6
    <3> QED
      BY <3>7
  <2> QED
    BY <2>2, <2>3
<1> HIDE DEF Good
<1>2. R \in Good
  BY <1>1, AllSubsets
<1> QED
  BY <1>2 DEF Good

(* A part of what is not negative sums to no more than the whole.            *)
LEMMA TotalPart ==
  ASSUME NEW f, NEW S, IsFiniteSet(S), NEW T \in SUBSET S, \A x \in S : f[x] \in Nat
  PROVE  Total(f, T) <= Total(f, S) /\ Total(f, T) \in Nat /\ Total(f, S) \in Nat
<1> DEFINE R == S \ T
<1>1. IsFiniteSet(T) /\ IsFiniteSet(R)
  BY FS_Subset
<1>2. T \cup R = S /\ T \cap R = {} /\ \A x \in T \cup R : f[x] \in Int /\ f[x] \in Nat
  OBVIOUS
<1> HIDE DEF R
<1>3. Total(f, T \cup R) = Total(f, T) + Total(f, R)
  BY <1>1, <1>2, TotalJoin
<1>4. Total(f, T) \in Nat /\ Total(f, R) \in Nat
  BY <1>1, <1>2, TotalNat
<1>5. Total(f, S) = Total(f, T) + Total(f, R)
  BY <1>2, <1>3
<1> QED
  BY <1>4, <1>5

(* Addition under a name, for provers that take it as an opaque operator.    *)
Plus(a, b) == a + b

(* Column g is column f with one more at n.                                   *)
OneUp(f, g, S, n) ==
  /\ g[n] = f[n] + 1
  /\ \A x \in S : f[x] \in Nat /\ g[x] \in Nat /\ (x # n => g[x] = f[x])

(* One more at a key counts once if the key is among those summed.           *)
LEMMA TotalOneMore ==
  ASSUME NEW f, NEW g, NEW S, IsFiniteSet(S), NEW n, OneUp(f, g, S, n)
  PROVE  /\ Total(f, S) \in Nat /\ Total(g, S) \in Nat
         /\ n \in S => Total(g, S) = Plus(Total(f, S), 1)
         /\ n \notin S => Total(g, S) = Total(f, S)
<1>1. /\ \A x \in S : f[x] \in Int /\ g[x] \in Int /\ f[x] \in Nat /\ g[x] \in Nat /\ (x # n => g[x] = f[x])
      /\ g[n] = f[n] + 1
  BY DEF OneUp
<1>2. Total(f, S) \in Nat /\ Total(g, S) \in Nat
  BY <1>1, TotalNat
<1>3. ASSUME n \in S PROVE Total(g, S) = Plus(Total(f, S), 1)
  <2>1. \A x \in S \ {n} : f[x] = g[x]
    BY <1>1
  <2>2. /\ Total(f, S) \in Int /\ Total(g, S) \in Int
        /\ Total(g, S) = Total(f, S) + (g[n] - f[n])
    BY <1>1, <1>3, <2>1, TotalChange
  <2>3. f[n] \in Nat
    BY <1>1, <1>3
  <2> QED
    BY <1>1, <1>2, <2>2, <2>3 DEF Plus
<1>4. ASSUME n \notin S PROVE Total(g, S) = Total(f, S)
  <2>1. \A x \in S : g[x] = f[x]
    BY <1>1, <1>4
  <2> QED
    BY <2>1, TotalSame
<1> QED
  BY <1>2, <1>3, <1>4
=============================================================================
