--------------------------- MODULE AlgorithmProofs ----------------------------
(***************************************************************************)
(* Theorems about the two algorithms: what one decision of the rerouter    *)
(* guarantees on every road network, and one forecast of the predictor on  *)
(* every window of readings.                                               *)
(***************************************************************************)
EXTENDS OneDecision, OneForecast, TLAPS, FiniteSetTheorems, WellFoundedInduction

(***************************************************************************)
(* Folds over finite sets.                                                 *)
(***************************************************************************)

\* A property of sets that some subset of a finite set has, has a smallest one.
LEMMA SmallestSet ==
    ASSUME NEW S, IsFiniteSet(S), NEW B \in SUBSET SUBSET S, B # {}
    PROVE  \E T \in B : \A x \in T : T \ {x} \notin B
<1>1. IsWellFoundedOn(StrictSubsetOrdering(S), SUBSET S)
  BY FS_StrictSubsetOrderingWellFounded, FS_FiniteSubsetsOfFinite
<1>2. PICK T \in B : \A U \in B : <<U, T>> \notin StrictSubsetOrdering(S)
  BY <1>1, WFMin
<1>3. ASSUME NEW x \in T, T \ {x} \in B PROVE FALSE
  BY <1>2, <1>3 DEF StrictSubsetOrdering
<1> QED
  BY <1>2, <1>3

\* The largest of a finite set of numbers.
LEMMA GreatestOf ==
    ASSUME NEW S \in SUBSET Int, IsFiniteSet(S), S # {}
    PROVE  Max(S) \in S /\ \A y \in S : y <= Max(S)
<1> DEFINE Top(s) == \E x \in s : \A y \in s : y <= x
           B == {s \in SUBSET S : s # {} /\ ~ Top(s)}
<1>1. ASSUME B # {} PROVE FALSE
  <2>1. PICK s \in B : \A y \in s : s \ {y} \notin B
    <3>1. B \in SUBSET SUBSET S
      OBVIOUS
    <3> HIDE DEF B
    <3> QED
      BY <1>1, <3>1, SmallestSet
  <2>2. PICK x \in s : x \in Int
    BY <2>1
  <2>3. s \ {x} # {}
    BY <2>1, <2>2
  <2>4. PICK z \in s \ {x} : \A y \in s \ {x} : y <= z
    BY <2>1, <2>2, <2>3
  <2>5. z \in Int /\ s \in SUBSET Int
    BY <2>1, <2>4
  <2>6. Top(s)
    <3>1. CASE x <= z
      BY <2>2, <2>4, <2>5, <3>1
    <3>2. CASE ~ (x <= z)
      BY <2>2, <2>4, <2>5, <3>2
    <3> QED
      BY <3>1, <3>2
  <2> QED
    BY <2>1, <2>6
<1>2. PICK x \in S : \A y \in S : y <= x
  BY <1>1
<1>3. \A y \in S : x >= y
  BY <1>2
<1> QED
  BY <1>2, <1>3 DEF Max

\* it is the recursive function of a fold over the subsets of S.
Folds(it, S, pick, step, base) ==
    it = [s \in SUBSET S |-> IF s = {} THEN base ELSE step[pick[s]][it[s \ {pick[s]}]]]

LEMMA FoldsAgree ==
    ASSUME NEW S, IsFiniteSet(S), NEW T, NEW pick, NEW step, NEW base,
           \A s \in SUBSET S : s # {} => pick[s] \in s,
           NEW it, Folds(it, S, pick, step, base),
           NEW jt, Folds(jt, T, pick, step, base)
    PROVE  \A s \in SUBSET (S \cap T) : it[s] = jt[s]
<1> DEFINE B == {s \in SUBSET (S \cap T) : it[s] # jt[s]}
<1> SUFFICES ASSUME B # {} PROVE FALSE
  OBVIOUS
<1>1. PICK s \in B : \A x \in s : s \ {x} \notin B
  <2>1. B \in SUBSET SUBSET S
    OBVIOUS
  <2> HIDE DEF B
  <2> QED
    BY <2>1, SmallestSet
<1>2. /\ it[s] = IF s = {} THEN base ELSE step[pick[s]][it[s \ {pick[s]}]]
      /\ jt[s] = IF s = {} THEN base ELSE step[pick[s]][jt[s \ {pick[s]}]]
  BY <1>1 DEF Folds
<1>3. s # {}
  BY <1>1, <1>2
<1>4. pick[s] \in s
  BY <1>1, <1>3
<1>5. it[s \ {pick[s]}] = jt[s \ {pick[s]}]
  BY <1>1, <1>4
<1> QED
  BY <1>1, <1>2, <1>3, <1>5

LEMMA FoldExists ==
    ASSUME NEW S, IsFiniteSet(S), NEW V, NEW pick, NEW step \in [S -> [V -> V]], NEW base \in V,
           \A s \in SUBSET S : s # {} => pick[s] \in s
    PROVE  \E it \in [SUBSET S -> V] : Folds(it, S, pick, step, base)
<1> DEFINE Solved(T) == \E it \in [SUBSET T -> V] : Folds(it, T, pick, step, base)
           B == {T \in SUBSET S : ~ Solved(T)}
<1> SUFFICES ASSUME B # {} PROVE FALSE
  OBVIOUS
<1>1. PICK T \in B : \A x \in T : T \ {x} \notin B
  <2>1. B \in SUBSET SUBSET S
    OBVIOUS
  <2> HIDE DEF B
  <2> QED
    BY <2>1, SmallestSet
<1>2. T \in SUBSET S /\ ~ Solved(T) /\ IsFiniteSet(T)
  BY <1>1, FS_Subset
<1>3. \A x \in T : Solved(T \ {x})
  BY <1>1, <1>2
<1> HIDE DEF B
<1>4. T # {}
  <2> SUFFICES ASSUME T = {} PROVE Solved(T)
    BY <1>2
  <2> DEFINE it == [s \in SUBSET T |-> base]
  <2>1. it \in [SUBSET T -> V] /\ Folds(it, T, pick, step, base)
    BY DEF Folds
  <2> QED
    BY <2>1
<1> DEFINE part == [x \in T |-> CHOOSE it \in [SUBSET (T \ {x}) -> V] :
                                     Folds(it, T \ {x}, pick, step, base)]
<1>5. \A x \in T : part[x] \in [SUBSET (T \ {x}) -> V]
                   /\ Folds(part[x], T \ {x}, pick, step, base)
  BY <1>3
<1> HIDE DEF part, Solved
<1>6. ASSUME NEW x \in T, NEW y \in T, NEW s \in SUBSET T, x \notin s, y \notin s
      PROVE  part[x][s] = part[y][s]
  <2> DEFINE P == T \ {x}
             Q == T \ {y}
  <2>1. IsFiniteSet(P) /\ \A u \in SUBSET P : u # {} => pick[u] \in u
    BY <1>2, FS_Subset
  <2>2. Folds(part[x], P, pick, step, base) /\ Folds(part[y], Q, pick, step, base)
    BY <1>5
  <2> HIDE DEF P, Q
  <2>3. \A u \in SUBSET (P \cap Q) : part[x][u] = part[y][u]
    BY <2>1, <2>2, FoldsAgree
  <2> USE DEF P, Q
  <2> QED
    BY <1>6, <2>3
<1> DEFINE out(s) == CHOOSE x \in T : x \notin s
           last == pick[T]
           it == [s \in SUBSET T |-> IF s = T THEN step[last][part[last][T \ {last}]]
                                    ELSE part[out(s)][s]]
<1>7. last \in T
  BY <1>2, <1>4
<1>8. ASSUME NEW s \in SUBSET T, NEW x \in T, x \notin s
      PROVE  it[s] = part[x][s] /\ it[s] \in V
  <2>1. s # T /\ out(s) \in T /\ out(s) \notin s
    BY <1>8
  <2>2. part[out(s)][s] = part[x][s]
    BY <1>6, <1>8, <2>1
  <2>3. part[x][s] \in V
    <3>1. s \in SUBSET (T \ {x}) /\ part[x] \in [SUBSET (T \ {x}) -> V]
      BY <1>5, <1>8
    <3> QED
      BY <3>1
  <2> QED
    BY <2>1, <2>2, <2>3
<1>9. it[T] = step[last][part[last][T \ {last}]]
  OBVIOUS
<1>10. it[T] = step[last][it[T \ {last}]] /\ it[T] \in V
  <2>1. it[T \ {last}] = part[last][T \ {last}] /\ it[T \ {last}] \in V
    BY <1>7, <1>8
  <2>2. last \in S
    BY <1>2, <1>7, <2>1
  <2> HIDE DEF it, last
  <2> QED
    BY <1>9, <2>1, <2>2
<1> DEFINE rhs(s) == IF s = {} THEN base ELSE step[pick[s]][it[s \ {pick[s]}]]
<1>11. ASSUME NEW s \in SUBSET T PROVE it[s] = rhs(s) /\ it[s] \in V
  <2>1. CASE s = T
    BY <1>4, <1>10, <2>1
  <2>2. CASE s # T
    <3>1. PICK x \in T : x \notin s
      BY <2>2
    <3>2. it[s] = part[x][s] /\ it[s] \in V
      BY <1>8, <3>1
    <3>3. /\ s = {} => part[x][s] = base
          /\ s # {} => part[x][s] = step[pick[s]][part[x][s \ {pick[s]}]]
      <4> DEFINE P == T \ {x}
      <4>1. Folds(part[x], P, pick, step, base) /\ s \in SUBSET P
        BY <1>5, <3>1
      <4> HIDE DEF P, it, rhs
      <4>2. \A u \in SUBSET P :
               /\ u = {} => part[x][u] = base
               /\ u # {} => part[x][u] = step[pick[u]][part[x][u \ {pick[u]}]]
        BY <4>1 DEF Folds
      <4> QED
        BY <4>1, <4>2
    <3>4. it[s \ {pick[s]}] = part[x][s \ {pick[s]}]
      BY <1>8, <3>1
    <3> HIDE DEF it
    <3> QED
      BY <3>2, <3>3, <3>4
  <2> QED
    BY <2>1, <2>2
<1>12. it = [s \in SUBSET T |-> it[s]]
  OBVIOUS
<1> HIDE DEF it
<1>13. it = [s \in SUBSET T |-> rhs(s)] /\ it \in [SUBSET T -> V]
  BY <1>11, <1>12
<1>14. Folds(it, T, pick, step, base)
  BY <1>13 DEF Folds
<1> QED
  BY <1>2, <1>13, <1>14 DEF Solved

(***************************************************************************)
(* Sums of a function over finite sets.                                    *)
(***************************************************************************)

\* The element a sum takes first, and the recursive function of the sum.
Chosen(s) == CHOOSE x \in s : TRUE
Sums(it, f, T) == \A s \in SUBSET T :
    it[s] = IF s = {} THEN 0 ELSE f[Chosen(s)] + it[s \ {Chosen(s)}]

LEMMA SumsAgree ==
    ASSUME NEW f, NEW T, IsFiniteSet(T), NEW U \in SUBSET T,
           NEW it, Sums(it, f, T), NEW jt, Sums(jt, f, U)
    PROVE  \A s \in SUBSET U : it[s] = jt[s]
<1> DEFINE B == {s \in SUBSET U : it[s] # jt[s]}
<1> SUFFICES ASSUME B # {} PROVE FALSE
  OBVIOUS
<1>1. PICK s \in B : \A x \in s : s \ {x} \notin B
  <2>1. B \in SUBSET SUBSET T
    OBVIOUS
  <2> HIDE DEF B
  <2> QED
    BY <2>1, SmallestSet
<1>2. s # {} /\ s \in SUBSET U
  BY <1>1 DEF Sums
<1>3. Chosen(s) \in s
  BY <1>2 DEF Chosen
<1> QED
  BY <1>1, <1>2, <1>3 DEF Sums

LEMMA SumIsFold ==
    ASSUME NEW D, NEW f \in [D -> Int], NEW T \in SUBSET D, IsFiniteSet(T)
    PROVE  \E it : it[T] \in Int /\ Sums(it, f, T) /\ SumFunctionOnSet(f, T) = it[T]
<1> DEFINE pick == [s \in SUBSET T |-> Chosen(s)]
           step == [x \in T |-> [v \in Int |-> f[x] + v]]
           rec(it) == [s \in SUBSET T |->
                         IF s = {} THEN 0 ELSE f[Chosen(s)] + it[s \ {Chosen(s)}]]
<1>1. \A s \in SUBSET T : s # {} => pick[s] \in s
  BY DEF Chosen
<1>2. step \in [T -> [Int -> Int]] /\ 0 \in Int
  OBVIOUS
<1>3. PICK it \in [SUBSET T -> Int] : Folds(it, T, pick, step, 0)
  <2> HIDE DEF pick, step
  <2> QED
    BY <1>1, <1>2, FoldExists
<1>4. it = rec(it)
  <2>1. ASSUME NEW s \in SUBSET T
        PROVE  it[s] = IF s = {} THEN 0 ELSE f[Chosen(s)] + it[s \ {Chosen(s)}]
    <3>1. it[s] = IF s = {} THEN 0 ELSE step[pick[s]][it[s \ {pick[s]}]]
      <4> HIDE DEF pick, step
      <4> QED
        BY <1>3 DEF Folds
    <3>2. CASE s # {}
      <4>1. pick[s] \in T /\ it[s \ {pick[s]}] \in Int /\ pick[s] = Chosen(s)
        BY <1>1, <3>2
      <4> QED
        BY <3>1, <3>2, <4>1
    <3> QED
      BY <3>1, <3>2
  <2>2. it = [s \in SUBSET T |-> it[s]]
    OBVIOUS
  <2> QED
    BY <2>1, <2>2
<1> DEFINE own == CHOOSE g : g = rec(g)
<1>5. SumFunctionOnSet(f, T) = own[T]
  BY DEF SumFunctionOnSet, FoldFunctionOnSet, MapThenFoldSet, Chosen
<1>6. own = rec(own)
  BY <1>4
<1>7. own[T] = it[T]
  <2> HIDE DEF own
  <2>1. Sums(own, f, T) /\ Sums(it, f, T)
    BY <1>4, <1>6 DEF Sums
  <2> QED
    BY <2>1, SumsAgree
<1> QED
  BY <1>4, <1>5, <1>7 DEF Sums

\* Sums of functions over finite sets: empty,
LEMMA SumNone ==
    ASSUME NEW D, NEW f \in [D -> Int]
    PROVE  SumFunctionOnSet(f, {}) = 0
<1>1. PICK it : Sums(it, f, {}) /\ SumFunctionOnSet(f, {}) = it[{}]
  BY SumIsFold, FS_EmptySet
<1> QED
  BY <1>1 DEF Sums

\* one chosen element apart,
LEMMA SumChosen ==
    ASSUME NEW D, NEW f \in [D -> Int], NEW T \in SUBSET D, IsFiniteSet(T), T # {}
    PROVE  \E c \in T : SumFunctionOnSet(f, T) = f[c] + SumFunctionOnSet(f, T \ {c})
<1> DEFINE c == Chosen(T)
           U == T \ {c}
<1>1. c \in T /\ U \in SUBSET T /\ U \in SUBSET D /\ IsFiniteSet(U)
  BY FS_Subset DEF Chosen
<1>2. PICK it : Sums(it, f, T) /\ SumFunctionOnSet(f, T) = it[T]
  BY SumIsFold
<1>3. PICK jt : Sums(jt, f, U) /\ SumFunctionOnSet(f, U) = jt[U]
  <2> HIDE DEF U
  <2> QED
    BY <1>1, SumIsFold
<1>4. it[U] = jt[U]
  <2> HIDE DEF U, c
  <2> QED
    BY <1>1, <1>2, <1>3, SumsAgree
<1>5. it[T] = f[c] + it[U]
  BY <1>2 DEF Sums
<1> HIDE DEF c
<1> QED
  BY <1>1, <1>2, <1>3, <1>4, <1>5

LEMMA SumType ==
    ASSUME NEW D, NEW f \in [D -> Int], NEW T \in SUBSET D, IsFiniteSet(T)
    PROVE  SumFunctionOnSet(f, T) \in Int
BY SumIsFold

\* any element apart,
LEMMA SumApart ==
    ASSUME NEW D, NEW f \in [D -> Int], NEW T \in SUBSET D, IsFiniteSet(T), NEW x \in T
    PROVE  SumFunctionOnSet(f, T) = f[x] + SumFunctionOnSet(f, T \ {x})
<1> DEFINE sum(s) == SumFunctionOnSet(f, s)
           B == {s \in SUBSET T : \E y \in s : sum(s) # f[y] + sum(s \ {y})}
<1> SUFFICES ASSUME B # {} PROVE FALSE
  OBVIOUS
<1>1. PICK s \in B : \A y \in s : s \ {y} \notin B
  <2>1. B \in SUBSET SUBSET T
    OBVIOUS
  <2> HIDE DEF B
  <2> QED
    BY <2>1, SmallestSet
<1>2. PICK y \in s : sum(s) # f[y] + sum(s \ {y})
  BY <1>1
<1>3. s \in SUBSET D /\ s # {} /\ IsFiniteSet(s) /\ f[y] \in Int
  BY <1>1, FS_Subset
<1>4. PICK c \in s : sum(s) = f[c] + sum(s \ {c})
  BY <1>3, SumChosen
<1>5. c # y /\ f[c] \in Int
  BY <1>2, <1>3, <1>4
<1>6. /\ sum(s \ {c}) = f[y] + sum((s \ {c}) \ {y})
      /\ sum(s \ {y}) = f[c] + sum((s \ {y}) \ {c})
  BY <1>1, <1>5
<1> DEFINE rest == (s \ {c}) \ {y}
<1>7. rest \in SUBSET D /\ IsFiniteSet(rest) /\ rest = (s \ {y}) \ {c}
  BY <1>3, FS_Subset
<1>8. sum(s \ {c}) = f[y] + sum(rest) /\ sum(s \ {y}) = f[c] + sum(rest)
  BY <1>6, <1>7
<1> HIDE DEF B, rest
<1>9. sum(rest) \in Int
  BY <1>7, SumType
<1> QED
  BY <1>2, <1>3, <1>4, <1>5, <1>8, <1>9

\* and of two functions that agree.
LEMMA SumSame ==
    ASSUME NEW D, NEW f \in [D -> Int], NEW E, NEW g \in [E -> Int],
           NEW T \in SUBSET (D \cap E), IsFiniteSet(T), \A x \in T : f[x] = g[x]
    PROVE  SumFunctionOnSet(f, T) = SumFunctionOnSet(g, T)
<1> DEFINE B == {s \in SUBSET T : SumFunctionOnSet(f, s) # SumFunctionOnSet(g, s)}
<1> SUFFICES ASSUME B # {} PROVE FALSE
  OBVIOUS
<1>1. PICK s \in B : \A y \in s : s \ {y} \notin B
  <2>1. B \in SUBSET SUBSET T
    OBVIOUS
  <2> HIDE DEF B
  <2> QED
    BY <2>1, SmallestSet
<1>2. s \in SUBSET D /\ s \in SUBSET E /\ IsFiniteSet(s)
  BY <1>1, FS_Subset
<1>3. s # {}
  BY <1>1, SumNone
<1>4. PICK x \in s : SumFunctionOnSet(f, s) = f[x] + SumFunctionOnSet(f, s \ {x})
  BY <1>2, <1>3, SumChosen
<1>5. SumFunctionOnSet(g, s) = g[x] + SumFunctionOnSet(g, s \ {x})
  BY <1>2, SumApart
<1>6. SumFunctionOnSet(f, s \ {x}) = SumFunctionOnSet(g, s \ {x}) /\ f[x] = g[x]
  BY <1>1
<1> QED
  BY <1>1, <1>4, <1>5, <1>6

(***************************************************************************)
(* The decision.                                                           *)
(***************************************************************************)

\* A non-empty set of natural numbers has a least element.
LEMMA LeastNumber ==
    ASSUME NEW S \in SUBSET Nat, S # {}
    PROVE  \E x \in S : \A y \in S : x <= y
<1> DEFINE R == {ss \in Nat \X Nat : ss[1] < ss[2]}
<1>1. IsWellFoundedOn(R, Nat)
  BY NatLessThanWellFounded DEF OpToRel
<1>2. PICK x \in S : \A y \in S : <<y, x>> \notin R
  BY <1>1, WFMin
<1>3. \A y \in S : ~(y < x)
  BY <1>2
<1> QED
  BY <1>3

LEMMA SnapshotType ==
    ASSUME NEW s \in Snapshots
    PROVE  DOMAIN s \subseteq Roads /\ \A r \in DOMAIN s : s[r] \in 0..One /\ s[r] \in Nat
BY DecisionAssumption DEF Snapshots

\* The best alternative is known, adjacent, below 1.0 and least among the known.
LEMMA BestAltSound ==
    ASSUME NEW s \in Snapshots, NEW r \in DOMAIN Adjacency, NEW b \in BestAlt(r, s)
    PROVE  /\ b \in DOMAIN s
           /\ \E n \in DOMAIN Adjacency[r] : Adjacency[r][n] = b
           /\ \A n \in DOMAIN Adjacency[r] :
                 Adjacency[r][n] \in DOMAIN s => s[b] <= s[Adjacency[r][n]]
<1>1. PICK n \in Usable(r, s) :
          /\ b = Adjacency[r][n]
          /\ \A m \in Usable(r, s) :
                s[Adjacency[r][n]] < s[Adjacency[r][m]]
                \/ (s[Adjacency[r][n]] = s[Adjacency[r][m]] /\ n <= m)
  BY DEF BestAlt
<1>2. b \in DOMAIN s /\ s[b] < One
  BY <1>1 DEF Usable
<1>3. ASSUME NEW m \in DOMAIN Adjacency[r], Adjacency[r][m] \in DOMAIN s
      PROVE  s[b] <= s[Adjacency[r][m]]
  <2>1. s[b] \in Nat /\ s[Adjacency[r][m]] \in 0..One
    BY <1>2, <1>3, SnapshotType
  <2>2. CASE s[Adjacency[r][m]] < One
    BY <1>1, <1>3, <2>1, <2>2 DEF Usable
  <2>3. CASE s[Adjacency[r][m]] >= One
    BY <1>2, <2>1, <2>3, DecisionAssumption
  <2> QED
    BY <2>1, <2>2, <2>3, DecisionAssumption
<1> QED
  BY <1>1, <1>2, <1>3 DEF Usable

\* It is one road at most: ties go to the first in the list.
LEMMA BestAltUnique ==
    ASSUME NEW s \in Snapshots, NEW r \in DOMAIN Adjacency,
           NEW b \in BestAlt(r, s), NEW c \in BestAlt(r, s)
    PROVE  b = c
<1>1. PICK n \in Usable(r, s) :
          /\ b = Adjacency[r][n]
          /\ \A m \in Usable(r, s) :
                s[Adjacency[r][n]] < s[Adjacency[r][m]]
                \/ (s[Adjacency[r][n]] = s[Adjacency[r][m]] /\ n <= m)
  BY DEF BestAlt
<1>2. PICK k \in Usable(r, s) :
          /\ c = Adjacency[r][k]
          /\ \A m \in Usable(r, s) :
                s[Adjacency[r][k]] < s[Adjacency[r][m]]
                \/ (s[Adjacency[r][k]] = s[Adjacency[r][m]] /\ k <= m)
  BY DEF BestAlt
<1>3. n \in Nat /\ k \in Nat /\ s[b] \in Nat /\ s[c] \in Nat
  <2>1. Adjacency[r] \in Seq(Roads)
    BY DecisionAssumption
  <2> QED
    BY <1>1, <1>2, <2>1, SnapshotType DEF Usable
<1> QED
  BY <1>1, <1>2, <1>3

\* A road with a usable alternative has a best one.
LEMMA BestAltExists ==
    ASSUME NEW s \in Snapshots, NEW r \in DOMAIN Adjacency, Usable(r, s) # {}
    PROVE  BestAlt(r, s) # {}
<1> DEFINE score(n) == s[Adjacency[r][n]]
           levels == {score(n) : n \in Usable(r, s)}
<1>1. levels \subseteq Nat /\ levels # {}
  BY SnapshotType DEF Usable
<1>2. PICK low \in levels : \A y \in levels : low <= y
  <2> HIDE DEF levels
  <2> QED
    BY <1>1, LeastNumber
<1> DEFINE first == {n \in Usable(r, s) : score(n) = low}
<1>3. first # {} /\ first \subseteq Nat
  <2>1. Adjacency[r] \in Seq(Roads)
    BY DecisionAssumption
  <2> QED
    BY <1>2, <2>1 DEF Usable
<1>4. PICK n \in first : \A m \in first : n <= m
  <2> HIDE DEF first
  <2> QED
    BY <1>3, LeastNumber
<1>5. ASSUME NEW m \in Usable(r, s)
      PROVE  score(n) < score(m) \/ (score(n) = score(m) /\ n <= m)
  <2>1. low <= score(m) /\ low \in Nat /\ score(m) \in Nat
    BY <1>1, <1>2, <1>5
  <2> QED
    BY <1>4, <2>1
<1> QED
  BY <1>4, <1>5 DEF BestAlt

\* What a recommendation of one cycle is.
LEMMA CandidateSound ==
    ASSUME NEW s \in Snapshots, NEW a \in Candidates(s)
    PROVE  /\ a \in Advice
           /\ a.route \in Congested(s) /\ a.alt \in BestAlt(a.route, s)
           /\ s[a.alt] <= s[a.route] /\ a.gain = s[a.route] - s[a.alt]
<1>1. PICK r \in Congested(s) :
          a \in {[route |-> r, alt |-> b, gain |-> s[r] - s[b]] :
                    b \in {b \in BestAlt(r, s) : s[b] <= s[r]}}
  BY DEF Candidates
<1>2. PICK b \in BestAlt(r, s) :
          s[b] <= s[r] /\ a = [route |-> r, alt |-> b, gain |-> s[r] - s[b]]
  BY <1>1
<1>3. r \in DOMAIN s /\ r \in DOMAIN Adjacency /\ r \in Roads
  BY DecisionAssumption DEF Congested
<1>4. b \in DOMAIN s /\ b \in Roads
  BY <1>3, BestAltSound, SnapshotType
<1>5. s[r] \in 0..One /\ s[b] \in 0..One
  BY <1>3, <1>4, SnapshotType
<1>6. s[r] - s[b] \in 0..One
  BY <1>2, <1>5, DecisionAssumption
<1> QED
  BY <1>2, <1>3, <1>4, <1>6 DEF Advice

LEMMA RecommendationsSound ==
    ASSUME NEW s \in Snapshots, NEW adv \in Recommendations(s)
    PROVE  /\ adv \subseteq Candidates(s)
           /\ Certain(s) \subseteq adv
           /\ \A a \in adv : a.gain >= MinGain
<1>1. PICK some \in SUBSET Borderline(s) : adv = Certain(s) \union some
  BY DEF Recommendations
<1>2. \A a \in Candidates(s) : a.gain \in Nat
  BY CandidateSound, DecisionAssumption DEF Advice
<1> QED
  BY <1>1, <1>2, DecisionAssumption DEF Certain, Borderline

(***************************************************************************)
(* Advice strictly descends: the alternative is better by the margin.      *)
(***************************************************************************)
LEMMA AdviceDescends ==
    ASSUME NEW s \in Snapshots, NEW adv \in Recommendations(s), NEW a \in adv
    PROVE  /\ a.route \in DOMAIN s /\ a.alt \in DOMAIN s
           /\ s[a.alt] + MinGain <= s[a.route]
           /\ s[a.alt] < s[a.route]
<1>1. a \in Candidates(s) /\ a.gain >= MinGain
  BY RecommendationsSound
<1>2. /\ a.route \in Congested(s) /\ a.alt \in BestAlt(a.route, s)
      /\ s[a.alt] <= s[a.route] /\ a.gain = s[a.route] - s[a.alt]
  BY <1>1, CandidateSound
<1>3. a.route \in DOMAIN s /\ a.route \in DOMAIN Adjacency
  BY <1>2 DEF Congested
<1>4. a.alt \in DOMAIN s
  BY <1>2, <1>3, BestAltSound
<1>5. s[a.alt] \in Nat /\ s[a.route] \in Nat
  BY <1>3, <1>4, SnapshotType
<1> QED
  BY <1>1, <1>2, <1>3, <1>4, <1>5, DecisionAssumption

\* Hence no set of advised roads is closed under its advice: the least congested
\* of them is sent outside.
LEMMA NoCircle ==
    ASSUME NEW s \in Snapshots, NEW adv \in Recommendations(s),
           NEW routes \in SUBSET {a.route : a \in adv}, routes # {}
    PROVE  \E a \in adv : a.route \in routes /\ a.alt \notin routes
<1> DEFINE levels == {s[r] : r \in routes}
<1>1. \A r \in routes : r \in DOMAIN s /\ s[r] \in Nat
  BY AdviceDescends, SnapshotType
<1>2. levels \subseteq Nat /\ levels # {}
  BY <1>1
<1>3. PICK low \in levels : \A y \in levels : low <= y
  <2> HIDE DEF levels
  <2> QED
    BY <1>2, LeastNumber
<1>4. PICK a \in adv : a.route \in routes /\ s[a.route] = low
  BY <1>3
<1>5. s[a.alt] < low
  BY <1>4, AdviceDescends
<1>6. a.alt \notin routes
  <2> SUFFICES ASSUME a.alt \in routes PROVE FALSE
    OBVIOUS
  <2>1. low <= s[a.alt] /\ s[a.alt] \in Nat /\ low \in Nat
    BY <1>1, <1>2, <1>3
  <2> QED
    BY <1>5, <2>1
<1> QED
  BY <1>4, <1>6

(***************************************************************************)
(* The theorems.  Decided is inductive: the snapshot does not change, and  *)
(* the advice is what one cycle may make of it.                            *)
(***************************************************************************)
Decided == /\ scores \in Snapshots /\ decided \in BOOLEAN
           /\ advice = {} \/ advice \in Recommendations(scores)
           /\ decided => advice \in Recommendations(scores)

LEMMA DecidedAlways == Spec => []Decided
<1>1. Init => Decided
  BY DEF Init, Decided
<1>2. Decided /\ [Next]_vars => Decided'
  <2>1. CASE Next
    BY <2>1 DEF Decided, Next
  <2>2. CASE UNCHANGED vars
    BY <2>2 DEF Decided, vars
  <2> QED
    BY <2>1, <2>2
<1> QED
  BY <1>1, <1>2, PTL DEF Spec

\* Advice is typed: known routes and alternatives, gains between 0 and 1.0.
THEOREM DecisionTypeCorrect == Spec => []TypeOK
<1>1. Decided => TypeOK
  <2> SUFFICES ASSUME Decided PROVE TypeOK
    OBVIOUS
  <2>1. \A a \in advice : a \in Advice
    BY RecommendationsSound, CandidateSound DEF Decided
  <2> QED
    BY <2>1 DEF Decided, TypeOK
<1> QED
  BY <1>1, DecidedAlways, PTL

\* Every recommendation is to an adjacent, known, least congested road, better
\* by the margin: AdviceSound, on every road network.
THEOREM DecisionSound == Spec => []AdviceSound
<1>1. Decided => AdviceSound
  <2> SUFFICES ASSUME Decided, NEW a \in advice
               PROVE  /\ scores[a.route] > Threshold
                      /\ \E n \in DOMAIN Adjacency[a.route] : Adjacency[a.route][n] = a.alt
                      /\ a.alt \in DOMAIN scores /\ scores[a.alt] + MinGain <= scores[a.route]
                      /\ \A n \in DOMAIN Adjacency[a.route] :
                            Adjacency[a.route][n] \in DOMAIN scores =>
                                scores[a.alt] <= scores[Adjacency[a.route][n]]
    BY DEF AdviceSound
  <2>1. scores \in Snapshots /\ advice \in Recommendations(scores)
    BY DEF Decided
  <2>2. a \in Candidates(scores)
    BY <2>1, RecommendationsSound
  <2>3. a.route \in Congested(scores) /\ a.alt \in BestAlt(a.route, scores)
    BY <2>1, <2>2, CandidateSound
  <2>4. a.route \in DOMAIN Adjacency /\ scores[a.route] > Threshold
    BY <2>3 DEF Congested
  <2> QED
    BY <2>1, <2>3, <2>4, BestAltSound, AdviceDescends
<1> QED
  BY <1>1, DecidedAlways, PTL

\* No road is sent two ways by one cycle.
THEOREM DecisionUnique == Spec => []OneAdvicePerRoute
<1>1. Decided => OneAdvicePerRoute
  <2> SUFFICES ASSUME Decided, NEW a \in advice, NEW b \in advice, a.route = b.route
               PROVE  a = b
    BY DEF OneAdvicePerRoute
  <2>1. scores \in Snapshots /\ advice \in Recommendations(scores)
    BY DEF Decided
  <2>2. a \in Candidates(scores) /\ b \in Candidates(scores)
    BY <2>1, RecommendationsSound
  <2>3. /\ a \in Advice /\ b \in Advice
        /\ a.alt \in BestAlt(a.route, scores) /\ b.alt \in BestAlt(a.route, scores)
        /\ a.route \in Congested(scores)
        /\ a.gain = scores[a.route] - scores[a.alt] /\ b.gain = scores[b.route] - scores[b.alt]
    BY <2>1, <2>2, CandidateSound
  <2>4. a.alt = b.alt
    BY <2>1, <2>3, BestAltUnique DEF Congested
  <2> QED
    BY <2>3, <2>4 DEF Advice
<1> QED
  BY <1>1, DecidedAlways, PTL

\* Advice never runs in a circle, on any road network.
THEOREM DecisionAcyclic == Spec => []NoCircularAdvice
<1>1. Decided => NoCircularAdvice
  BY NoCircle DEF Decided, NoCircularAdvice
<1> QED
  BY <1>1, DecidedAlways, PTL

\* Whatever the snapshot, once the cycle has decided, a congested road of the map
\* with a known alternative better by more than the margin is advised.
THEOREM DecisionComplete == Spec => []ReliefFound
<1>1. Decided => ReliefFound
  <2> SUFFICES ASSUME Decided, decided, NEW r \in DOMAIN scores, r \in DOMAIN Adjacency,
                      scores[r] > Threshold,
                      NEW n \in DOMAIN Adjacency[r], Adjacency[r][n] \in DOMAIN scores,
                      scores[Adjacency[r][n]] + MinGain < scores[r]
               PROVE  \E a \in advice : a.route = r
    BY DEF ReliefFound
  <2> DEFINE alt == Adjacency[r][n]
  <2>1. scores \in Snapshots /\ advice \in Recommendations(scores)
    BY DEF Decided
  <2>2. r \in Congested(scores)
    BY DEF Congested
  <2>3. scores[r] \in 0..One /\ scores[alt] \in Nat
    BY <2>1, <2>2, SnapshotType
  <2>4. n \in Usable(r, scores)
    BY <2>3, DecisionAssumption DEF Usable
  <2>5. PICK b \in BestAlt(r, scores) : TRUE
    BY <2>1, <2>2, <2>4, BestAltExists
  <2>6. b \in DOMAIN scores /\ scores[b] <= scores[alt]
    BY <2>1, <2>2, <2>5, BestAltSound
  <2>7. scores[b] \in Nat
    BY <2>1, <2>6, SnapshotType
  <2>8. scores[b] <= scores[r] /\ scores[r] - scores[b] > MinGain
    BY <2>3, <2>6, <2>7, DecisionAssumption
  <2> DEFINE a == [route |-> r, alt |-> b, gain |-> scores[r] - scores[b]]
  <2>9. a \in Candidates(scores)
    BY <2>2, <2>5, <2>8 DEF Candidates
  <2>10. a \in Certain(scores)
    BY <2>8, <2>9 DEF Certain
  <2> QED
    BY <2>1, <2>10, RecommendationsSound
<1> QED
  BY <1>1, DecidedAlways, PTL

\* The body of the loop over the alternatives of a road.
Searched == [alt : Roads \union {NoRoad}, score : 0..One]
Unsearched == [alt |-> NoRoad, score |-> One]
Better(r, k, best) ==
    IF Adjacency[r][k] \in DOMAIN scores /\ scores[Adjacency[r][k]] < best.score
    THEN [alt |-> Adjacency[r][k], score |-> scores[Adjacency[r][k]]] ELSE best
Searches(it, r) == \A s \in SUBSET DOMAIN Adjacency[r] :
    it[s] = IF s = {} THEN Unsearched ELSE Better(r, Max(s), it[s \ {Max(s)}])

LEMMA Alternatives ==
    ASSUME NEW r \in DOMAIN Adjacency
    PROVE  \E len \in Nat : DOMAIN Adjacency[r] = 1..len
                          /\ \A k \in 1..len : Adjacency[r][k] \in Roads
<1>1. Adjacency[r] \in Seq(Roads)
  BY DecisionAssumption
<1> QED
  BY <1>1

LEMMA BetterType ==
    ASSUME scores \in Snapshots, NEW r \in DOMAIN Adjacency, NEW k \in DOMAIN Adjacency[r],
           NEW best \in Searched
    PROVE  Better(r, k, best) \in Searched
<1>1. Adjacency[r][k] \in Roads
  BY Alternatives
<1>2. Adjacency[r][k] \in DOMAIN scores => scores[Adjacency[r][k]] \in 0..One
  BY SnapshotType
<1> QED
  BY <1>1, <1>2 DEF Better, Searched

\* The loop of the code is a fold over the places of the list.
LEMMA LoopIsFold ==
    ASSUME scores \in Snapshots, NEW r \in DOMAIN Adjacency
    PROVE  \E it : Searches(it, r) /\ LoopBest(r) = it[DOMAIN Adjacency[r]]
<1> DEFINE places == DOMAIN Adjacency[r]
           pick == [s \in SUBSET places |-> Max(s)]
           step == [k \in places |-> [best \in Searched |-> Better(r, k, best)]]
           rec(it) == [s \in SUBSET places |->
               IF s = {} THEN Unsearched ELSE Better(r, Max(s), it[s \ {Max(s)}])]
<1>1. PICK len \in Nat : places = 1..len
  BY Alternatives
<1> HIDE DEF places
<1>2. ASSUME NEW s \in SUBSET places, s # {} PROVE pick[s] \in s /\ pick[s] = Max(s)
  <2>1. IsFiniteSet(1..len) /\ s \in SUBSET (1..len)
    BY <1>1, FS_Interval
  <2>2. s \in SUBSET Int /\ IsFiniteSet(s)
    <3>1. s \in SUBSET Int
      BY <2>1
    <3>2. IsFiniteSet(s)
      BY <2>1, FS_Subset
    <3> QED
      BY <3>1, <3>2
  <2>3. Max(s) \in s
    BY <1>2, <2>2, GreatestOf
  <2> QED
    BY <2>3
<1>3. step \in [places -> [Searched -> Searched]] /\ Unsearched \in Searched
  <2>1. \A k \in places, best \in Searched : Better(r, k, best) \in Searched
    BY BetterType DEF places
  <2>2. Unsearched \in Searched
    BY DecisionAssumption DEF Unsearched, Searched
  <2> QED
    BY <2>1, <2>2
<1>4. PICK it \in [SUBSET places -> Searched] : Folds(it, places, pick, step, Unsearched)
  <2>1. IsFiniteSet(places)
    BY <1>1, FS_Interval
  <2>2. \A s \in SUBSET places : s # {} => pick[s] \in s
    BY <1>2
  <2> DEFINE V == Searched
             base == Unsearched
  <2>3. step \in [places -> [V -> V]] /\ base \in V
    BY <1>3
  <2> HIDE DEF pick, step, V, base
  <2>4. \E it \in [SUBSET places -> V] : Folds(it, places, pick, step, base)
    BY <2>1, <2>2, <2>3, FoldExists
  <2> QED
    BY <2>4 DEF V, base
<1>5. it = rec(it)
  <2>1. ASSUME NEW s \in SUBSET places PROVE it[s] = rec(it)[s]
    <3>1. it[s] = IF s = {} THEN Unsearched ELSE step[pick[s]][it[s \ {pick[s]}]]
      <4> HIDE DEF pick, step
      <4> QED
        BY <1>4 DEF Folds
    <3>2. CASE s # {}
      <4>1. pick[s] \in places /\ it[s \ {pick[s]}] \in Searched /\ pick[s] = Max(s)
        BY <1>2, <3>2
      <4>2. step[pick[s]][it[s \ {pick[s]}]] = Better(r, pick[s], it[s \ {pick[s]}])
        <5> HIDE DEF pick
        <5> QED
          BY <4>1
      <4> HIDE DEF pick, step
      <4>3. it[s] = Better(r, Max(s), it[s \ {Max(s)}])
        BY <3>1, <3>2, <4>1, <4>2
      <4> QED
        BY <3>2, <4>3
    <3>3. CASE s = {}
      <4> HIDE DEF pick, step
      <4> QED
        BY <3>1, <3>3
    <3> QED
      BY <3>2, <3>3
  <2>2. it = [s \in SUBSET places |-> it[s]]
    OBVIOUS
  <2> QED
    BY <2>1, <2>2
<1> DEFINE own == CHOOSE g : g = rec(g)
<1>6. LoopBest(r) = own[places]
  BY DEF LoopBest, FoldLeft, MapThenFoldSet, Better, Unsearched, places
<1>7. own = rec(own)
  BY <1>5
<1>8. Searches(own, r)
  <2> HIDE DEF own
  <2> QED
    BY <1>7 DEF Searches, places
<1> QED
  BY <1>6, <1>8 DEF places

\* After k places: nothing usable so far, or the first of the least congested.
Found(it, r, k) ==
    \/ it[1..k] = Unsearched /\ \A m \in Usable(r, scores) : k < m
    \/ \E b \in Usable(r, scores) :
          /\ b <= k
          /\ it[1..k] = [alt |-> Adjacency[r][b], score |-> scores[Adjacency[r][b]]]
          /\ \A m \in Usable(r, scores) : m <= k =>
                scores[Adjacency[r][b]] < scores[Adjacency[r][m]]
                \/ (scores[Adjacency[r][b]] = scores[Adjacency[r][m]] /\ b <= m)

LEMMA FoundNext ==
    ASSUME scores \in Snapshots, NEW r \in DOMAIN Adjacency, NEW it, Searches(it, r),
           NEW k \in DOMAIN Adjacency[r], Found(it, r, k - 1)
    PROVE  Found(it, r, k)
<1> DEFINE here == scores[Adjacency[r][k]]
           known == Adjacency[r][k] \in DOMAIN scores
           before == it[1..(k - 1)]
<1>1. PICK len \in Nat : DOMAIN Adjacency[r] = 1..len
  BY Alternatives
<1>2. k \in Nat /\ k >= 1 /\ k - 1 \in Nat
  BY <1>1
<1>3. it[1..k] = Better(r, k, before)
  <2>1. 1..k \in SUBSET DOMAIN Adjacency[r] /\ 1..k # {}
    BY <1>1, <1>2
  <2>2. Max(1..k) \in 1..k /\ \A y \in 1..k : y <= Max(1..k)
    <3> DEFINE S == 1..k
    <3>1. S \in SUBSET Int /\ S # {} /\ IsFiniteSet(S)
      BY <1>2, <2>1, FS_Interval
    <3> HIDE DEF S
    <3>2. Max(S) \in S /\ \A y \in S : y <= Max(S)
      BY <3>1, GreatestOf
    <3> QED
      BY <3>2 DEF S
  <2>3. Max(1..k) = k
    BY <1>2, <2>2
  <2>4. (1..k) \ {k} = 1..(k - 1)
    BY <1>2
  <2> QED
    BY <2>1, <2>3, <2>4 DEF Searches
<1>4. Usable(r, scores) \subseteq Nat /\ One \in Nat
      /\ \A m \in Usable(r, scores) : scores[Adjacency[r][m]] \in Nat
                                     /\ scores[Adjacency[r][m]] < One
  BY <1>1, SnapshotType, DecisionAssumption DEF Usable
<1>5. known => here \in Nat
  BY SnapshotType
<1>6. k \in Usable(r, scores) <=> known /\ here < One
  BY DEF Usable
<1>7. CASE before = Unsearched /\ \A m \in Usable(r, scores) : k - 1 < m
  <2>1. before.alt = NoRoad /\ before.score = One
    BY <1>7 DEF Unsearched
  <2>2. CASE known /\ here < One
    <3>1. it[1..k] = [alt |-> Adjacency[r][k], score |-> here]
      BY <1>3, <2>1, <2>2 DEF Better
    <3>2. \A m \in Usable(r, scores) : m <= k => m = k
      BY <1>2, <1>4, <1>7
    <3> HIDE DEF before
    <3> QED
      BY <1>2, <1>6, <2>2, <3>1, <3>2 DEF Found
  <2>3. CASE ~ (known /\ here < One)
    <3>1. it[1..k] = Unsearched
      BY <1>3, <1>7, <2>1, <2>3 DEF Better
    <3>2. \A m \in Usable(r, scores) : k < m
      BY <1>2, <1>4, <1>6, <1>7, <2>3
    <3> QED
      BY <3>1, <3>2 DEF Found
  <2> QED
    BY <2>2, <2>3
<1>8. ASSUME NEW b \in Usable(r, scores), b <= k - 1,
             before = [alt |-> Adjacency[r][b], score |-> scores[Adjacency[r][b]]],
             \A m \in Usable(r, scores) : m <= k - 1 =>
                scores[Adjacency[r][b]] < scores[Adjacency[r][m]]
                \/ (scores[Adjacency[r][b]] = scores[Adjacency[r][m]] /\ b <= m)
      PROVE  Found(it, r, k)
  <2>1. before.score = scores[Adjacency[r][b]]
    BY <1>8
  <2>2. \A m \in Usable(r, scores) : m <= k => m <= k - 1 \/ m = k
    BY <1>2, <1>4
  <2>3. CASE known /\ here < before.score
    <3>1. it[1..k] = [alt |-> Adjacency[r][k], score |-> here]
      BY <1>3, <2>3 DEF Better
    <3>2. k \in Usable(r, scores)
      BY <1>4, <1>5, <1>6, <2>1, <2>3
    <3>3. ASSUME NEW m \in Usable(r, scores), m <= k
          PROVE  here < scores[Adjacency[r][m]] \/ (here = scores[Adjacency[r][m]] /\ k <= m)
      BY <1>4, <1>5, <1>8, <2>1, <2>2, <2>3, <3>3
    <3> QED
      BY <1>2, <3>1, <3>2, <3>3 DEF Found
  <2>4. CASE ~ (known /\ here < before.score)
    <3>1. it[1..k] = [alt |-> Adjacency[r][b], score |-> scores[Adjacency[r][b]]]
      BY <1>3, <1>8, <2>4 DEF Better
    <3>2. ASSUME NEW m \in Usable(r, scores), m <= k
          PROVE  \/ scores[Adjacency[r][b]] < scores[Adjacency[r][m]]
                 \/ scores[Adjacency[r][b]] = scores[Adjacency[r][m]] /\ b <= m
      BY <1>2, <1>4, <1>5, <1>6, <1>8, <2>1, <2>2, <2>4, <3>2
    <3>3. b <= k
      BY <1>2, <1>4, <1>8
    <3> QED
      BY <3>1, <3>2, <3>3 DEF Found
  <2> QED
    BY <2>3, <2>4
<1> HIDE DEF before
<1> QED
  BY <1>7, <1>8 DEF Found, before

LEMMA FoundAll ==
    ASSUME scores \in Snapshots, NEW r \in DOMAIN Adjacency, NEW it, Searches(it, r),
           NEW len \in Nat, DOMAIN Adjacency[r] = 1..len
    PROVE  Found(it, r, len)
<1> DEFINE B == {k \in 0..len : ~ Found(it, r, k)}
<1> SUFFICES ASSUME B # {} PROVE FALSE
  OBVIOUS
<1>1. PICK k \in B : \A y \in B : k <= y
  <2>1. B \in SUBSET Nat
    OBVIOUS
  <2> HIDE DEF B
  <2> QED
    BY <2>1, LeastNumber
<1>2. k # 0
  <2>1. Found(it, r, 0)
    <3>1. 1..0 = {}
      OBVIOUS
    <3>2. it[{}] = Unsearched
      BY DEF Searches
    <3>3. \A m \in Usable(r, scores) : 0 < m
      BY DEF Usable
    <3> QED
      BY <3>1, <3>2, <3>3 DEF Found
  <2> QED
    BY <1>1, <2>1
<1>3. k \in DOMAIN Adjacency[r] /\ k - 1 \in 0..len /\ ~ (k <= k - 1)
  BY <1>1, <1>2
<1>4. Found(it, r, k - 1)
  BY <1>1, <1>3
<1> QED
  BY <1>1, <1>3, <1>4, FoundNext

\* The loop of the code finds what BestAlt states.
LEMMA LoopFindsBest ==
    ASSUME scores \in Snapshots, NEW r \in DOMAIN Adjacency
    PROVE  BestAlt(r, scores) = {LoopBest(r).alt} \ {NoRoad}
<1>1. PICK it : Searches(it, r) /\ LoopBest(r) = it[DOMAIN Adjacency[r]]
  BY LoopIsFold
<1>2. PICK len \in Nat : DOMAIN Adjacency[r] = 1..len /\ \A k \in 1..len : Adjacency[r][k] \in Roads
  BY Alternatives
<1>3. Found(it, r, len) /\ LoopBest(r) = it[1..len]
  BY <1>1, <1>2, FoundAll
<1>4. \A m \in Usable(r, scores) : m \in Nat /\ m <= len /\ Adjacency[r][m] \in Roads
  BY <1>2 DEF Usable
<1>5. CASE it[1..len] = Unsearched /\ \A m \in Usable(r, scores) : len < m
  <2>1. Usable(r, scores) = {}
    BY <1>4, <1>5
  <2>2. BestAlt(r, scores) = {}
    BY <2>1 DEF BestAlt
  <2> QED
    BY <1>3, <1>5, <2>2 DEF Unsearched
<1>6. ASSUME NEW b \in Usable(r, scores),
             it[1..len] = [alt |-> Adjacency[r][b], score |-> scores[Adjacency[r][b]]],
             \A m \in Usable(r, scores) : m <= len =>
                scores[Adjacency[r][b]] < scores[Adjacency[r][m]]
                \/ (scores[Adjacency[r][b]] = scores[Adjacency[r][m]] /\ b <= m)
      PROVE  BestAlt(r, scores) = {LoopBest(r).alt} \ {NoRoad}
  <2>1. Adjacency[r][b] \in BestAlt(r, scores)
    BY <1>4, <1>6 DEF BestAlt
  <2>2. LoopBest(r).alt = Adjacency[r][b] /\ Adjacency[r][b] # NoRoad
    BY <1>3, <1>4, <1>6, NoRoadAssumption
  <2> QED
    BY <2>1, <2>2, BestAltUnique
<1> QED
  BY <1>3, <1>5, <1>6 DEF Found

\* What BestAlt states of the search is what the loop of runCycle computes, on every
\* road network and every snapshot.
THEOREM DecisionIsTheLoop == Spec => []LoopAgrees
<1>1. Decided => LoopAgrees
  BY LoopFindsBest DEF Decided, LoopAgrees
<1> QED
  BY <1>1, DecidedAlways, PTL

(***************************************************************************)
(* The sums of the regression, of a finite set of offsets.                 *)
(***************************************************************************)
Square == [x \in Int |-> x * x]
Itself == [x \in Int |-> x]

SumOf(S)     == SumFunctionOnSet(Itself, S)
SquaresOf(S) == SumFunctionOnSet(Square, S)

LEMMA MomentsType ==
    ASSUME NEW S \in SUBSET Int, IsFiniteSet(S)
    PROVE  SumOf(S) \in Int /\ SquaresOf(S) \in Int /\ Cardinality(S) \in Nat
<1>1. Itself \in [Int -> Int] /\ Square \in [Int -> Int]
  BY DEF Itself, Square
<1> QED
  BY <1>1, SumType, FS_CardinalityType DEF SumOf, SquaresOf

LEMMA MomentsNone == SumOf({}) = 0 /\ SquaresOf({}) = 0 /\ Cardinality({}) = 0
<1>1. Itself \in [Int -> Int] /\ Square \in [Int -> Int]
  BY DEF Itself, Square
<1> QED
  BY <1>1, SumNone, FS_EmptySet DEF SumOf, SquaresOf

LEMMA MomentsOver ==
    ASSUME NEW D, Itself \in [D -> Int], Square \in [D -> Int],
           NEW S \in SUBSET D, IsFiniteSet(S), NEW x \in S
    PROVE  /\ SumOf(S) = Itself[x] + SumOf(S \ {x})
           /\ SquaresOf(S) = Square[x] + SquaresOf(S \ {x})
<1>1. SumFunctionOnSet(Itself, S) = Itself[x] + SumFunctionOnSet(Itself, S \ {x})
  BY SumApart
<1>2. SumFunctionOnSet(Square, S) = Square[x] + SumFunctionOnSet(Square, S \ {x})
  BY SumApart
<1> QED
  BY <1>1, <1>2 DEF SumOf, SquaresOf

LEMMA MomentsApart ==
    ASSUME NEW S \in SUBSET Int, IsFiniteSet(S), NEW x \in S
    PROVE  /\ SumOf(S) = x + SumOf(S \ {x})
           /\ SquaresOf(S) = x * x + SquaresOf(S \ {x})
           /\ Cardinality(S) = 1 + Cardinality(S \ {x})
           /\ IsFiniteSet(S \ {x})
<1>1. Itself \in [Int -> Int] /\ Square \in [Int -> Int]
  BY DEF Itself, Square
<1>2. IsFiniteSet(S \ {x}) /\ Cardinality(S \ {x}) = Cardinality(S) - 1
  BY FS_RemoveElement
<1>3. Cardinality(S) \in Nat
  BY FS_CardinalityType
<1>4. SumOf(S) = Itself[x] + SumOf(S \ {x}) /\ SquaresOf(S) = Square[x] + SquaresOf(S \ {x})
  BY <1>1, MomentsOver
<1>5. Itself[x] = x /\ Square[x] = x * x
  BY DEF Itself, Square
<1> QED
  BY <1>2, <1>3, <1>4, <1>5

LEMMA SquarePositive ==
    ASSUME NEW a \in Int, NEW b \in Int, a # b
    PROVE  a * a - 2 * (a * b) + b * b >= 1
<1> DEFINE d == a - b
<1>1. d \in Int /\ d # 0
  OBVIOUS
<1>2. d * d >= 1
  <2> HIDE DEF d
  <2> QED
    BY <1>1
<1>3. d * d = a * a - 2 * (a * b) + b * b
  OBVIOUS
<1> QED
  BY <1>2, <1>3

\* The offsets of a set are apart from another offset: \sum (x - y)^2 >= |S|.
Apart(S, y) == SquaresOf(S) - 2 * (y * SumOf(S)) + Cardinality(S) * (y * y)

LEMMA ApartFrom ==
    ASSUME NEW S \in SUBSET Int, IsFiniteSet(S), NEW y \in Int, y \notin S
    PROVE  Apart(S, y) >= Cardinality(S)
<1> DEFINE B == {s \in SUBSET S : ~ (Apart(s, y) >= Cardinality(s))}
<1> SUFFICES ASSUME B # {} PROVE FALSE
  OBVIOUS
<1>1. PICK s \in B : \A x \in s : s \ {x} \notin B
  <2>1. B \in SUBSET SUBSET S
    OBVIOUS
  <2> HIDE DEF B
  <2> QED
    BY <2>1, SmallestSet
<1>2. s \in SUBSET Int /\ IsFiniteSet(s) /\ y \notin s
  BY <1>1, FS_Subset
<1>3. s # {}
  <2>1. Apart({}, y) = 0
    BY MomentsNone DEF Apart
  <2> QED
    BY <1>1, <2>1, MomentsNone
<1>4. PICK x \in s : TRUE
  BY <1>3
<1> DEFINE t == s \ {x}
<1>5. Apart(t, y) >= Cardinality(t) /\ t \in SUBSET Int /\ IsFiniteSet(t)
  BY <1>1, <1>2, FS_Subset
<1>6. /\ SumOf(s) = x + SumOf(t) /\ SquaresOf(s) = x * x + SquaresOf(t)
      /\ Cardinality(s) = 1 + Cardinality(t)
  BY <1>2, MomentsApart
<1> HIDE DEF t
<1>7. SumOf(t) \in Int /\ SquaresOf(t) \in Int /\ Cardinality(t) \in Nat /\ x \in Int
  BY <1>2, <1>5, MomentsType
<1>8. Apart(s, y) = Apart(t, y) + (x * x - 2 * (x * y) + y * y)
  BY <1>6, <1>7 DEF Apart
<1>9. x * x - 2 * (x * y) + y * y >= 1
  BY <1>2, <1>7, SquarePositive
<1>10. Apart(t, y) \in Int /\ x * x - 2 * (x * y) + y * y \in Int
  BY <1>7 DEF Apart
<1>11. Apart(s, y) >= Cardinality(s)
  BY <1>5, <1>6, <1>7, <1>8, <1>9, <1>10
<1> QED
  BY <1>1, <1>11

\* So two offsets or more have a spread, and the regression divides by no zero.
Spread(S) == Cardinality(S) * SquaresOf(S) - SumOf(S) * SumOf(S)

LEMMA SpreadPositive ==
    ASSUME NEW S \in SUBSET Int, IsFiniteSet(S)
    PROVE  /\ Spread(S) \in Nat
           /\ Cardinality(S) > 1 => Spread(S) > 0
<1> DEFINE Q(s) == Spread(s) >= 0 /\ (Cardinality(s) > 1 => Spread(s) > 0)
           B == {s \in SUBSET S : ~ Q(s)}
<1>0. SUFFICES ASSUME B # {} PROVE FALSE
  <2>1. Q(S)
    BY <1>0
  <2> QED
    BY <2>1, MomentsType DEF Spread
<1>1. PICK s \in B : \A x \in s : s \ {x} \notin B
  <2>1. B \in SUBSET SUBSET S
    OBVIOUS
  <2> HIDE DEF B
  <2> QED
    BY <1>0, <2>1, SmallestSet
<1>2. s \in SUBSET Int /\ IsFiniteSet(s) /\ ~ Q(s)
  BY <1>1, FS_Subset
<1>3. s # {}
  BY <1>2, MomentsNone DEF Spread
<1>4. PICK y \in s : TRUE
  BY <1>3
<1> DEFINE t == s \ {y}
<1>5. Spread(t) >= 0 /\ t \in SUBSET Int /\ IsFiniteSet(t) /\ y \notin t
  BY <1>1, <1>2, FS_Subset
<1>6. /\ SumOf(s) = y + SumOf(t) /\ SquaresOf(s) = y * y + SquaresOf(t)
      /\ Cardinality(s) = 1 + Cardinality(t)
  BY <1>2, MomentsApart
<1> HIDE DEF t
<1>7. SumOf(t) \in Int /\ SquaresOf(t) \in Int /\ Cardinality(t) \in Nat /\ y \in Int
  BY <1>2, <1>5, MomentsType
<1>8. Spread(s) = Spread(t) + Apart(t, y)
  BY <1>6, <1>7 DEF Spread, Apart
<1>9. Apart(t, y) >= Cardinality(t)
  BY <1>5, <1>7, ApartFrom
<1>10. Spread(t) \in Int /\ Apart(t, y) \in Int
  BY <1>7 DEF Spread, Apart
<1> QED
  BY <1>2, <1>5, <1>6, <1>7, <1>8, <1>9, <1>10

\* No mean is above what none of its terms is above.
LEMMA SumBelow ==
    ASSUME NEW D, NEW f \in [D -> Int], NEW T \in SUBSET D, IsFiniteSet(T), NEW top \in Int,
           \A x \in T : f[x] <= top
    PROVE  SumFunctionOnSet(f, T) <= Cardinality(T) * top
<1> DEFINE B == {s \in SUBSET T : ~ (SumFunctionOnSet(f, s) <= Cardinality(s) * top)}
<1> SUFFICES ASSUME B # {} PROVE FALSE
  OBVIOUS
<1>1. PICK s \in B : \A x \in s : s \ {x} \notin B
  <2>1. B \in SUBSET SUBSET T
    OBVIOUS
  <2> HIDE DEF B
  <2> QED
    BY <2>1, SmallestSet
<1>2. s \in SUBSET D /\ IsFiniteSet(s)
  BY <1>1, FS_Subset
<1>3. s # {}
  BY <1>1, SumNone, FS_EmptySet
<1>4. PICK x \in s : f[x] <= top
  BY <1>1, <1>3
<1> DEFINE t == s \ {x}
<1>5. SumFunctionOnSet(f, t) <= Cardinality(t) * top /\ t \in SUBSET D /\ IsFiniteSet(t)
  BY <1>1, <1>2, FS_Subset
<1>6. SumFunctionOnSet(f, s) = f[x] + SumFunctionOnSet(f, t)
  BY <1>2, SumApart
<1>7. Cardinality(s) = 1 + Cardinality(t)
  <2>1. Cardinality(t) = Cardinality(s) - 1
    BY <1>2, FS_RemoveElement
  <2>2. Cardinality(s) \in Nat
    BY <1>2, FS_CardinalityType
  <2> QED
    BY <2>1, <2>2
<1> HIDE DEF t
<1>8. SumFunctionOnSet(f, t) \in Int /\ Cardinality(t) \in Nat /\ f[x] \in Int
  BY <1>2, <1>5, SumType, FS_CardinalityType
<1>9. (1 + Cardinality(t)) * top = top + Cardinality(t) * top /\ Cardinality(t) * top \in Int
  BY <1>8
<1>10. SumFunctionOnSet(f, s) <= Cardinality(s) * top
  BY <1>4, <1>5, <1>6, <1>7, <1>8, <1>9
<1> QED
  BY <1>1, <1>10

LEMMA MeanBelow ==
    ASSUME NEW S \in SUBSET Int, IsFiniteSet(S), NEW top \in Int, \A x \in S : x <= top
    PROVE  SumOf(S) <= Cardinality(S) * top
<1>1. Itself \in [Int -> Int] /\ \A x \in S : Itself[x] <= top
  BY DEF Itself
<1> QED
  BY <1>1, SumBelow DEF SumOf

(***************************************************************************)
(* One forecast.                                                           *)
(***************************************************************************)
\* The scores of a window.
Sampled(ys) ==
    /\ DOMAIN ys \in SUBSET Int /\ IsFiniteSet(DOMAIN ys) /\ DOMAIN ys # {}
    /\ ys \in [DOMAIN ys -> 0..FullScore]

LEMMA OffsetsOfWindow ==
    ASSUME NEW lag \in Nat
    PROVE  Offsets(lag) \in SUBSET Int /\ IsFiniteSet(Offsets(lag))
<1>1. Buckets \in SUBSET Nat /\ IsFiniteSet(Buckets) /\ Width \in Nat
  BY ForecastAssumption
<1>2. IsFiniteSet(Offsets(lag))
  <2> DEFINE at == [i \in Buckets |-> Width * i - lag]
  <2>1. at \in Surjection(Buckets, Offsets(lag))
    BY DEF Offsets, Surjection
  <2> HIDE DEF at
  <2> QED
    BY <1>1, <2>1, FS_Surjection
<1>3. ASSUME NEW i \in Buckets
      PROVE  Width * i - lag \in Int
  BY <1>1
<1> QED
  BY <1>2, <1>3 DEF Offsets

LEMMA ScoreInRange ==
    ASSUME NEW b \in Averages
    PROVE  CongestionScore(b) \in 0..FullScore
<1> DEFINE raw == 40 - 4 * b.speed + 4 * b.occ + 2 * b.flow
<1>1. b.speed \in Nat /\ b.occ \in Nat /\ b.flow \in Nat
  BY OneForecastAssumption
<1>2. raw \in Int
  BY <1>1
<1>3. CongestionScore(b) = Clamp(0, raw, FullScore)
  BY DEF CongestionScore
<1> HIDE DEF raw
<1> QED
  BY <1>2, <1>3 DEF Clamp, FullScore

LEMMA ScoresSampled ==
    ASSUME NEW w \in Windows
    PROVE  /\ Sampled(Scores(w)) /\ DOMAIN w = DOMAIN Scores(w)
           /\ \A x \in DOMAIN w : w[x] \in Averages
<1>1. PICK xs \in Occupied : w \in [xs -> Averages]
  BY DEF Windows
<1>2. PICK lag \in Lags : xs \in SUBSET Offsets(lag)
  BY DEF Occupied
<1>3. lag \in Nat
  BY OneForecastAssumption
<1>4. xs \in SUBSET Int /\ IsFiniteSet(xs) /\ xs # {}
  BY <1>2, <1>3, OffsetsOfWindow, FS_Subset DEF Occupied
<1>5. \A b \in Averages : CongestionScore(b) \in 0..FullScore
  BY ScoreInRange
<1>6. Scores(w) = [x \in xs |-> CongestionScore(w[x])]
  BY <1>1 DEF Scores
<1>7. Scores(w) \in [xs -> 0..FullScore]
  BY <1>1, <1>5, <1>6
<1> QED
  BY <1>1, <1>4, <1>7 DEF Sampled

-----------------------------------------------------------------------------
\* The sums of the regression are whole numbers, and its two divisors positive.
Products(ys) == [x \in DOMAIN ys |-> x * ys[x]]

LEMMA SumXIs ==
    ASSUME NEW ys, Sampled(ys)
    PROVE  SumX(ys) = SumOf(DOMAIN ys)
<1> DEFINE D == DOMAIN ys
           f == [x \in D |-> x]
<1>1. D \in SUBSET Int /\ IsFiniteSet(D)
  BY DEF Sampled
<1>2. SumX(ys) = SumFunctionOnSet(f, D)
  BY DEF SumX, SumFunction
<1>3. f \in [D -> Int] /\ Itself \in [Int -> Int] /\ D \in SUBSET (D \cap Int)
      /\ IsFiniteSet(D) /\ \A x \in D : f[x] = Itself[x]
  BY <1>1 DEF Itself
<1> HIDE DEF f, D
<1>4. SumFunctionOnSet(f, D) = SumFunctionOnSet(Itself, D)
  BY <1>3, SumSame
<1> QED
  BY <1>2, <1>4 DEF SumOf, D

LEMMA SpreadIs ==
    ASSUME NEW ys, Sampled(ys)
    PROVE  Sxx(ys) = Spread(DOMAIN ys)
<1> DEFINE D == DOMAIN ys
           f == [x \in D |-> x * x]
<1>1. D \in SUBSET Int /\ IsFiniteSet(D)
  BY DEF Sampled
<1>2. SumFunction([x \in DOMAIN ys |-> x * x]) = SumFunctionOnSet(f, D)
  BY DEF SumFunction
<1>3. f \in [D -> Int] /\ Square \in [Int -> Int] /\ D \in SUBSET (D \cap Int)
      /\ IsFiniteSet(D) /\ \A x \in D : f[x] = Square[x]
  BY <1>1 DEF Square
<1> HIDE DEF f, D
<1>4. SumFunctionOnSet(f, D) = SumFunctionOnSet(Square, D)
  BY <1>3, SumSame
<1> QED
  BY <1>2, <1>4, SumXIs DEF SquaresOf, D, Sxx, Spread, Count

LEMMA RegressionSums ==
    ASSUME NEW ys, Sampled(ys)
    PROVE  /\ Count(ys) \in Nat \ {0} /\ SumX(ys) \in Int /\ SumY(ys) \in Int
           /\ Products(ys) \in [DOMAIN ys -> Int] /\ SumFunction(Products(ys)) \in Int
           /\ Sxx(ys) \in Nat /\ (Count(ys) # 1 => Sxx(ys) > 0)
           /\ Sxy(ys) = Count(ys) * SumFunction(Products(ys)) - SumX(ys) * SumY(ys)
           /\ Sxy(ys) \in Int
<1> DEFINE D == DOMAIN ys
           g == Products(ys)
<1>1. D \in SUBSET Int /\ IsFiniteSet(D) /\ D # {} /\ ys \in [D -> Int]
  BY DEF Sampled, FullScore
<1>2. g \in [D -> Int] /\ DOMAIN g = D
  BY <1>1 DEF Products
<1>3. Count(ys) \in Nat \ {0}
  BY <1>1, FS_CardinalityType, FS_EmptySet DEF Count
<1>4. SumX(ys) \in Int
  BY <1>1, SumXIs, MomentsType
<1>5. SumY(ys) \in Int
  <2>1. SumY(ys) = SumFunctionOnSet(ys, D)
    BY DEF SumY, SumFunction
  <2> HIDE DEF D
  <2> QED
    BY <1>1, <2>1, SumType
<1>6. SumFunction(g) \in Int
  <2>1. SumFunction(g) = SumFunctionOnSet(g, D)
    BY <1>2 DEF SumFunction
  <2>2. g \in [D -> Int] /\ D \in SUBSET D /\ IsFiniteSet(D)
    BY <1>1, <1>2
  <2> HIDE DEF D, g
  <2>3. SumFunctionOnSet(g, D) \in Int
    BY <2>2, SumType
  <2> QED
    BY <2>1, <2>3
<1>7. Sxx(ys) \in Nat /\ (Count(ys) # 1 => Sxx(ys) > 0)
  BY <1>1, <1>3, SpreadIs, SpreadPositive DEF Count
<1>8. Sxy(ys) = Count(ys) * SumFunction(g) - SumX(ys) * SumY(ys)
  BY DEF Sxy, Products
<1>9. Sxy(ys) \in Int
  <2> HIDE DEF g
  <2> QED
    BY <1>3, <1>4, <1>5, <1>6, <1>8
<1> QED
  BY <1>2, <1>3, <1>4, <1>5, <1>6, <1>7, <1>8, <1>9

-----------------------------------------------------------------------------
\* math.Round is a whole number, keeps to the bounds of what it rounds,
LEMMA Division ==
    ASSUME NEW num \in Int, NEW den \in Nat \ {0}
    PROVE  /\ num \div den \in Int /\ num % den \in 0..(den - 1)
           /\ num = den * (num \div den) + (num % den)
OBVIOUS

LEMMA RoundedIs ==
    ASSUME NEW num \in Int, NEW den \in Nat \ {0}
    PROVE  \A r : r \in Rounded(num, den) <=>
                    \/ r = num \div den /\ 2 * (num % den) <= den
                    \/ r = num \div den + 1 /\ 2 * (num % den) >= den
BY DEF Rounded

LEMMA RoundedBounds ==
    ASSUME NEW num \in Int, NEW den \in Nat \ {0}, NEW r \in Rounded(num, den)
    PROVE  /\ r \in Int
           /\ \A top \in Nat : 0 <= num /\ num <= top * den => r \in 0..top
<1> DEFINE q == num \div den
           rem == num % den
<1>1. q \in Int /\ rem \in 0..(den - 1) /\ num = den * q + rem
  BY Division
<1>2. (r = q /\ 2 * rem <= den) \/ (r = q + 1 /\ 2 * rem >= den)
  BY RoundedIs
<1> HIDE DEF q, rem
<1>3. ASSUME NEW top \in Nat, 0 <= num, num <= top * den
      PROVE  r \in 0..top
  <2>1. q >= 0
    <3> SUFFICES ASSUME q <= -1 PROVE FALSE
      BY <1>1
    <3>1. den * (-1 - q) >= 0
      <4>1. -1 - q \in Nat
        BY <1>1
      <4> QED
        BY <4>1
    <3>2. den * (-1 - q) = -den - den * q
      BY <1>1
    <3> QED
      BY <1>1, <1>3, <3>1, <3>2
  <2>2. q <= top /\ (q = top => rem = 0)
    <3>1. ASSUME q >= top PROVE q = top /\ rem = 0
      <4>1. q - top \in Nat
        BY <1>1, <3>1
      <4>2. den * (q - top) >= 0 /\ (q # top => den * (q - top) >= den)
        <5> DEFINE k == q - top
        <5>1. k \in Nat /\ (q # top => k - 1 \in Nat)
          BY <1>1, <4>1
        <5>2. den * k >= 0 /\ (k - 1 \in Nat => den * (k - 1) >= 0) /\ den * (k - 1) = den * k - den
          <6> HIDE DEF k
          <6> QED
            BY <5>1
        <5>3. den * k \in Int
          <6> HIDE DEF k
          <6> QED
            BY <5>1
        <5> QED
          BY <5>1, <5>2, <5>3
      <4>3. den * (q - top) = den * q - top * den /\ den * q \in Int /\ top * den \in Int
        BY <1>1
      <4> QED
        BY <1>1, <1>3, <4>1, <4>2, <4>3
    <3> QED
      BY <1>1, <3>1
  <2> QED
    BY <1>1, <1>2, <2>1, <2>2
<1> QED
  BY <1>1, <1>2, <1>3

\* and never falls as what it rounds grows.
LEMMA RoundedGrows ==
    ASSUME NEW a \in Int, NEW b \in Int, a <= b, NEW den \in Nat \ {0}, NEW r \in Rounded(a, den)
    PROVE  \E s \in Rounded(b, den) : s >= r
<1> DEFINE p == a \div den
           q == b \div den
           v == a % den
           w == b % den
<1>1. /\ p \in Int /\ v \in 0..(den - 1) /\ a = den * p + v
      /\ q \in Int /\ w \in 0..(den - 1) /\ b = den * q + w
  BY Division
<1>2. (r = p /\ 2 * v <= den) \/ (r = p + 1 /\ 2 * v >= den)
  BY RoundedIs
<1>3. \A s : s \in Rounded(b, den) <=> (s = q /\ 2 * w <= den) \/ (s = q + 1 /\ 2 * w >= den)
  BY RoundedIs
<1> HIDE DEF p, q, v, w
<1>4. p <= q
  <2> SUFFICES ASSUME p - q - 1 >= 0 PROVE FALSE
    BY <1>1
  <2>1. den * (p - q - 1) >= 0
    <3>1. p - q - 1 \in Nat
      BY <1>1
    <3> QED
      BY <3>1
  <2>2. den * (p - q - 1) = den * p - den * q - den /\ den * p \in Int /\ den * q \in Int
    BY <1>1
  <2> QED
    BY <1>1, <2>1, <2>2
<1>5. CASE p < q
  <2>1. q \in Rounded(b, den) \/ q + 1 \in Rounded(b, den)
    BY <1>1, <1>3
  <2>2. q >= r /\ q + 1 >= r
    BY <1>1, <1>2, <1>5
  <2> QED
    BY <2>1, <2>2
<1>6. CASE p = q
  <2>1. v <= w
    BY <1>1, <1>6
  <2>2. CASE 2 * w >= den
    <3>1. q + 1 \in Rounded(b, den)
      BY <1>3, <2>2
    <3>2. q + 1 >= r
      BY <1>1, <1>2, <1>6
    <3> QED
      BY <3>1, <3>2
  <2>3. CASE ~ (2 * w >= den)
    <3>1. q \in Rounded(b, den)
      BY <1>1, <1>3, <2>3
    <3>2. q >= r
      BY <1>1, <1>2, <1>6, <2>1, <2>3
    <3> QED
      BY <3>1, <3>2
  <2> QED
    BY <2>2, <2>3
<1> QED
  BY <1>1, <1>4, <1>5, <1>6

-----------------------------------------------------------------------------
\* What is predicted is a fraction, of scores and of confidence.
LEMMA FactorType ==
    ASSUME NEW h
    PROVE  RushHourFactor(h) \in Nat \ {0}
BY DEF RushHourFactor

LEMMA NumeratorType ==
    ASSUME NEW ys, Sampled(ys)
    PROVE  /\ Max(DOMAIN ys) \in DOMAIN ys /\ \A x \in DOMAIN ys : x <= Max(DOMAIN ys)
           /\ Current(ys) \in 0..FullScore
           /\ \A x \in Int : Fitted(ys, x) \in Int
           /\ Blended(ys).num \in Int /\ Blended(ys).den \in Nat \ {0}
<1>1. DOMAIN ys \in SUBSET Int /\ IsFiniteSet(DOMAIN ys) /\ DOMAIN ys # {}
      /\ ys \in [DOMAIN ys -> 0..FullScore]
  BY DEF Sampled
<1>2. Max(DOMAIN ys) \in DOMAIN ys /\ \A x \in DOMAIN ys : x <= Max(DOMAIN ys)
  BY <1>1, GreatestOf
<1>3. Current(ys) \in 0..FullScore /\ Current(ys) \in Int
  BY <1>1, <1>2 DEF Current, FullScore
<1>4. /\ Count(ys) \in Nat \ {0} /\ SumX(ys) \in Int /\ SumY(ys) \in Int
      /\ Sxx(ys) \in Nat /\ (Count(ys) # 1 => Sxx(ys) > 0) /\ Sxy(ys) \in Int
  BY RegressionSums
<1>5. \A x \in Int : Fitted(ys, x) \in Int
  BY <1>4 DEF Fitted
<1>6. FutureOffset \in Int
  BY ForecastAssumption DEF FutureOffset
<1>7. CASE Count(ys) = 1
  <2>1. Blended(ys) = [num |-> Current(ys), den |-> 1]
    BY <1>7 DEF Blended
  <2> QED
    BY <1>2, <1>3, <1>5, <2>1
<1>8. CASE Count(ys) # 1
  <2> DEFINE den == Count(ys) * Sxx(ys)
  <2>1. den \in Nat \ {0}
    BY <1>4, <1>8
  <2>2. Fitted(ys, FutureOffset) \in Int
    BY <1>5, <1>6
  <2>3. /\ Blended(ys).num = 7 * Fitted(ys, FutureOffset) + 3 * Current(ys) * den
        /\ Blended(ys).den = 10 * den
    BY <1>8 DEF Blended
  <2> HIDE DEF den
  <2> QED
    BY <1>2, <1>3, <1>5, <2>1, <2>2, <2>3
<1> QED
  BY <1>2, <1>3, <1>5, <1>7, <1>8

LEMMA ConfidenceType ==
    ASSUME NEW ys, Sampled(ys), NEW samples \in Int
    PROVE  Confidence(ys, samples) \subseteq 0..100
<1> DEFINE share == Clamp(0, samples, 50)
           num == TrendStability(ys).num
           den == TrendStability(ys).den
<1>1. share \in 0..50
  BY DEF Clamp
<1>2. num \in Nat /\ den \in Nat \ {0} /\ num <= den
  <2>1. CASE Count(ys) = 1
    BY <2>1 DEF TrendStability
  <2>2. CASE Count(ys) # 1
    <3> DEFINE full == Unit * Sxx(ys)
               steep == Magnitude(Sxy(ys))
    <3>1. Sxx(ys) \in Nat /\ Sxx(ys) > 0 /\ Sxy(ys) \in Int
      BY <2>2, RegressionSums
    <3>2. full \in Nat \ {0} /\ steep \in Nat
      BY <3>1, ForecastAssumption DEF Magnitude
    <3>3. TrendStability(ys) = IF 10 * (full - steep) < 3 * full THEN [num |-> 3, den |-> 10]
                               ELSE [num |-> full - steep, den |-> full]
      BY <2>2 DEF TrendStability
    <3> HIDE DEF full, steep
    <3>4. CASE 10 * (full - steep) < 3 * full
      BY <3>3, <3>4
    <3>5. CASE ~ (10 * (full - steep) < 3 * full)
      BY <3>2, <3>3, <3>5
    <3> QED
      BY <3>4, <3>5
  <2> QED
    BY <2>1, <2>2
<1>3. Confidence(ys, samples) = Rounded(2 * share * num, den)
  BY DEF Confidence
<1> HIDE DEF share, num, den
<1>4. 2 * share * num \in Nat /\ 2 * share * num <= 100 * den
  <2>1. (100 - 2 * share) * num >= 0 /\ (100 - 2 * share) * num = 100 * num - 2 * share * num
    <3>1. 100 - 2 * share \in Nat
      BY <1>1
    <3> QED
      BY <1>1, <1>2, <3>1
  <2>2. 2 * share * num \in Nat
    BY <1>1, <1>2
  <2> QED
    BY <1>2, <2>1, <2>2
<1> DEFINE amount == 2 * share * num
<1>5. ASSUME NEW r \in Rounded(amount, den)
      PROVE  r \in 0..100
  <2>1. amount \in Int /\ 0 <= amount /\ amount <= 100 * den
    BY <1>4
  <2> HIDE DEF amount
  <2> QED
    BY <1>2, <2>1, RoundedBounds
<1> QED
  BY <1>3, <1>5

LEMMA ScoreType ==
    ASSUME NEW ys, Sampled(ys), NEW h
    PROVE  FinalScore(ys, h) \subseteq 0..1000
<1> DEFINE num == Blended(ys).num * RushHourFactor(h)
           den == 2 * Blended(ys).den
<1>1. num \in Int /\ den \in Nat \ {0}
  BY NumeratorType, FactorType
<1>2. FinalScore(ys, h) = {Clamp(0, score, 10 * FullScore) : score \in Rounded(num, den)}
  BY DEF FinalScore
<1> HIDE DEF num, den
<1>3. \A score \in Int : Clamp(0, score, 10 * FullScore) \in 0..1000
  BY DEF Clamp, FullScore
<1>4. ASSUME NEW r \in Rounded(num, den)
      PROVE  r \in Int
  BY <1>1, RoundedBounds
<1> QED
  BY <1>2, <1>3, <1>4

-----------------------------------------------------------------------------
\* What a cycle may predict for a road is in range.
LEMMA PredictionsType ==
    ASSUME NEW w \in Windows, NEW h
    PROVE  Predictions(w, h) \subseteq [score : 0..1000, confidence : 0..100]
<1> DEFINE ys == Scores(w)
           counts == [x \in DOMAIN w |-> w[x].samples]
           samples == SumFunction(counts)
<1>1. /\ Sampled(ys) /\ DOMAIN w = DOMAIN ys
      /\ \A x \in DOMAIN w : w[x] \in Averages
  BY ScoresSampled
<1>2. samples \in Int
  <2> DEFINE D == DOMAIN w
  <2>1. counts \in [D -> Int] /\ DOMAIN counts = D
    BY <1>1, OneForecastAssumption
  <2>2. D \in SUBSET D /\ IsFiniteSet(D)
    BY <1>1 DEF Sampled
  <2>3. samples = SumFunctionOnSet(counts, D)
    BY <2>1 DEF SumFunction
  <2> HIDE DEF D, counts, samples
  <2>4. SumFunctionOnSet(counts, D) \in Int
    BY <2>1, <2>2, SumType
  <2> QED
    BY <2>3, <2>4
<1>3. Predictions(w, h) = [score : FinalScore(ys, h), confidence : Confidence(ys, samples)]
  BY DEF Predictions
<1> HIDE DEF ys, samples
<1> QED
  BY <1>1, <1>2, <1>3, ScoreType, ConfidenceType

\* What is predicted is what the window and the hour may give.
Foretold == /\ window \in Windows /\ hour \in Hours
            /\ prediction = None \/ prediction \in Predictions(window, hour)

LEMMA ForetoldAlways == ForecastSpec => []Foretold
<1>1. ForecastInit => Foretold
  BY DEF ForecastInit, Foretold
<1>2. Foretold /\ [ForecastNext]_forecastVars => Foretold'
  BY DEF Foretold, ForecastNext, forecastVars
<1> QED
  BY <1>1, <1>2, PTL DEF ForecastSpec

\* A prediction is a score from 0 to 1000 and a confidence from 0 to 100,
\* however steep the fitted line (predictor/main.go, runPredictionCycle).
THEOREM ForecastTypeCorrect == ForecastSpec => []ForecastTypeOK
<1>1. Foretold => ForecastTypeOK
  BY PredictionsType DEF Foretold, ForecastTypeOK
<1> QED
  BY <1>1, ForetoldAlways, PTL

-----------------------------------------------------------------------------
\* The same window with a higher score now.
Raised(ys, c) == [ys EXCEPT ![Max(DOMAIN ys)] = c]

\* The sum of a function that is higher in one place only.
LEMMA SumRaised ==
    ASSUME NEW D, NEW f \in [D -> Int], NEW g \in [D -> Int], IsFiniteSet(D), NEW m \in D,
           \A x \in D : x # m => f[x] = g[x]
    PROVE  SumFunction(g) = SumFunction(f) + (g[m] - f[m])
<1> DEFINE rest == D \ {m}
<1>1. SumFunction(f) = SumFunctionOnSet(f, D) /\ SumFunction(g) = SumFunctionOnSet(g, D)
  BY DEF SumFunction
<1>2. D \in SUBSET D /\ rest \in SUBSET D /\ rest \in SUBSET (D \cap D) /\ IsFiniteSet(rest)
  BY FS_Subset
<1>3. /\ SumFunctionOnSet(f, D) = f[m] + SumFunctionOnSet(f, rest)
      /\ SumFunctionOnSet(g, D) = g[m] + SumFunctionOnSet(g, rest)
  BY <1>2, SumApart
<1>4. \A x \in rest : f[x] = g[x]
  OBVIOUS
<1> HIDE DEF rest
<1>5. SumFunctionOnSet(f, rest) = SumFunctionOnSet(g, rest)
  BY <1>2, <1>4, SumSame
<1>6. SumFunctionOnSet(f, rest) \in Int
  BY <1>2, SumType
<1> QED
  BY <1>1, <1>3, <1>5, <1>6

LEMMA RaisedSums ==
    ASSUME NEW ys, Sampled(ys), NEW c \in 0..FullScore, NEW m, m = Max(DOMAIN ys)
    PROVE  /\ Sampled(Raised(ys, c)) /\ DOMAIN Raised(ys, c) = DOMAIN ys
           /\ Current(Raised(ys, c)) = c /\ m \in Int
           /\ Count(Raised(ys, c)) = Count(ys)
           /\ SumX(Raised(ys, c)) = SumX(ys) /\ Sxx(Raised(ys, c)) = Sxx(ys)
           /\ SumY(Raised(ys, c)) = SumY(ys) + (c - Current(ys))
           /\ SumFunction(Products(Raised(ys, c)))
                = SumFunction(Products(ys)) + m * (c - Current(ys))
<1> DEFINE D == DOMAIN ys
           zs == Raised(ys, c)
<1>1. /\ D \in SUBSET Int /\ IsFiniteSet(D) /\ D # {} /\ ys \in [D -> 0..FullScore]
      /\ m \in D
  BY NumeratorType DEF Sampled
<1>2. /\ zs \in [D -> 0..FullScore] /\ DOMAIN zs = D /\ zs[m] = c
      /\ \A x \in D : x # m => zs[x] = ys[x]
  BY <1>1 DEF Raised
<1>3. Sampled(zs)
  BY <1>1, <1>2 DEF Sampled
<1>4. Current(zs) = c /\ Current(ys) = ys[m]
  BY <1>2 DEF Current
<1>5. Count(zs) = Count(ys) /\ SumX(zs) = SumX(ys) /\ Sxx(zs) = Sxx(ys)
  BY <1>2, <1>3, SumXIs, SpreadIs DEF Count
<1> HIDE DEF zs
<1>6. SumY(zs) = SumY(ys) + (c - ys[m])
  <2>1. ys \in [D -> Int] /\ zs \in [D -> Int] /\ m \in D /\ IsFiniteSet(D)
        /\ \A x \in D : x # m => ys[x] = zs[x]
    BY <1>1, <1>2 DEF FullScore
  <2> HIDE DEF D
  <2>2. SumFunction(zs) = SumFunction(ys) + (zs[m] - ys[m])
    BY <2>1, SumRaised
  <2> QED
    BY <1>2, <2>2 DEF SumY
<1>7. SumFunction(Products(zs)) = SumFunction(Products(ys)) + (m * c - m * ys[m])
  <2> DEFINE f == Products(ys)
             g == Products(zs)
  <2>1. /\ f \in [D -> Int] /\ g \in [D -> Int] /\ f[m] = m * ys[m] /\ g[m] = m * c
        /\ m \in D /\ IsFiniteSet(D)
        /\ \A x \in D : x # m => f[x] = g[x]
    BY <1>1, <1>2 DEF FullScore, Products
  <2> HIDE DEF D, f, g
  <2>2. SumFunction(g) = SumFunction(f) + (g[m] - f[m])
    BY <2>1, SumRaised
  <2> QED
    BY <2>1, <2>2 DEF f, g
<1>8. m * c - m * ys[m] = m * (c - ys[m]) /\ m \in Int
  BY <1>1 DEF FullScore
<1> QED
  BY <1>2, <1>3, <1>4, <1>5, <1>6, <1>7, <1>8 DEF zs

\* The line is nowhere lower beyond the mean of the buckets when the last is higher.
LEMMA LineRises ==
    ASSUME NEW ys, Sampled(ys), NEW c \in 0..FullScore, c >= Current(ys),
           SumX(ys) <= Count(ys) * FutureOffset
    PROVE  Fitted(Raised(ys, c), FutureOffset) >= Fitted(ys, FutureOffset)
<1> DEFINE zs == Raised(ys, c)
           n == Count(ys)
           sx == SumX(ys)
           sy == SumY(ys)
           sp == SumFunction(Products(ys))
           xx == Sxx(ys)
           m == Max(DOMAIN ys)
           F == FutureOffset
           d == c - Current(ys)
<1>1. /\ Sampled(zs) /\ Count(zs) = n /\ SumX(zs) = sx /\ Sxx(zs) = xx /\ m \in Int
      /\ SumY(zs) = sy + d /\ SumFunction(Products(zs)) = sp + m * d
  BY RaisedSums
<1>2. n \in Nat \ {0} /\ sx \in Int /\ sy \in Int /\ sp \in Int /\ xx \in Nat
  BY RegressionSums
<1>3. Sxy(ys) = n * sp - sx * sy /\ Sxy(zs) = n * (sp + m * d) - sx * (sy + d)
  BY <1>1, RegressionSums
<1>4. d \in Nat /\ F \in Int
  BY NumeratorType, ForecastAssumption DEF FutureOffset, FullScore
<1>5. sx <= n * m /\ sx <= n * F
  <2>1. DOMAIN ys \in SUBSET Int /\ IsFiniteSet(DOMAIN ys)
        /\ \A x \in DOMAIN ys : x <= m
    BY <1>4, NumeratorType DEF Sampled
  <2>2. SumOf(DOMAIN ys) <= Cardinality(DOMAIN ys) * m
    <3> HIDE DEF m, F
    <3> QED
      BY <1>1, <1>4, <2>1, MeanBelow
  <2> QED
    BY <2>2, SumXIs DEF Count
<1>6. /\ Fitted(ys, F) = sy * xx + (n * sp - sx * sy) * (n * F - sx)
      /\ Fitted(zs, F) = (sy + d) * xx + (n * (sp + m * d) - sx * (sy + d)) * (n * F - sx)
  BY <1>1, <1>3 DEF Fitted
<1> HIDE DEF zs, n, sx, sy, sp, xx, m, F, d
<1> DEFINE a == n * m - sx
           b == n * F - sx
<1>7. a \in Nat /\ b \in Nat
  BY <1>1, <1>2, <1>4, <1>5
<1>8. n * (sp + m * d) - sx * (sy + d) = (n * sp - sx * sy) + d * a
  BY <1>1, <1>2, <1>4
<1>9. n * sp - sx * sy \in Int
  BY <1>2
<1> DEFINE k == n * sp - sx * sy
<1>10. Fitted(ys, F) = sy * xx + k * b /\ Fitted(zs, F) = (sy + d) * xx + (k + d * a) * b
  BY <1>6, <1>8
<1> HIDE DEF a, b, k
<1>11. (sy + d) * xx + (k + d * a) * b = (sy * xx + k * b) + (d * xx + d * a * b)
  BY <1>2, <1>4, <1>7, <1>9 DEF k
<1>12. d * xx + d * a * b \in Nat /\ sy * xx + k * b \in Int
  BY <1>2, <1>4, <1>7, <1>9 DEF k
<1>13. Fitted(zs, F) >= Fitted(ys, F)
  BY <1>10, <1>11, <1>12
<1> QED
  BY <1>13 DEF zs, F

LEMMA BlendRises ==
    ASSUME NEW ys, Sampled(ys), NEW c \in 0..FullScore, c >= Current(ys),
           SumX(ys) <= Count(ys) * FutureOffset
    PROVE  /\ Blended(Raised(ys, c)).den = Blended(ys).den
           /\ Blended(Raised(ys, c)).num >= Blended(ys).num
<1> DEFINE zs == Raised(ys, c)
           F == FutureOffset
           den == Count(ys) * Sxx(ys)
<1>1. Sampled(zs) /\ Current(zs) = c /\ Count(zs) = Count(ys) /\ Sxx(zs) = Sxx(ys)
  BY RaisedSums
<1>2. Fitted(ys, F) \in Int /\ Fitted(zs, F) \in Int /\ Current(ys) \in Int /\ c \in Int
  <2>1. F \in Int
    BY ForecastAssumption DEF FutureOffset
  <2>2. Current(ys) \in Int /\ c \in Int
    BY NumeratorType DEF FullScore
  <2> HIDE DEF zs, F
  <2> QED
    BY <1>1, <2>1, <2>2, NumeratorType
<1>3. Fitted(zs, F) >= Fitted(ys, F)
  BY LineRises
<1>4. den \in Nat
  BY RegressionSums
<1>5. CASE Count(ys) = 1
  BY <1>1, <1>5 DEF Blended
<1>6. CASE Count(ys) # 1
  <2>1. /\ Blended(ys) = [num |-> 7 * Fitted(ys, F) + 3 * Current(ys) * den, den |-> 10 * den]
        /\ Blended(zs) = [num |-> 7 * Fitted(zs, F) + 3 * c * den, den |-> 10 * den]
    BY <1>1, <1>6 DEF Blended
  <2> HIDE DEF zs, F, den
  <2>2. 3 * c * den >= 3 * Current(ys) * den /\ 3 * c * den \in Int /\ 3 * Current(ys) * den \in Int
    <3>1. (c - Current(ys)) * den >= 0 /\ (c - Current(ys)) * den = c * den - Current(ys) * den
      <4>1. c - Current(ys) \in Nat
        BY <1>2
      <4> QED
        BY <1>2, <1>4, <4>1
    <3>2. c * den \in Int /\ Current(ys) * den \in Int
      BY <1>2, <1>4
    <3>3. 3 * c * den = 3 * (c * den) /\ 3 * Current(ys) * den = 3 * (Current(ys) * den)
      BY <1>2, <1>4
    <3> QED
      BY <3>1, <3>2, <3>3
  <2>3. 7 * Fitted(zs, F) + 3 * c * den >= 7 * Fitted(ys, F) + 3 * Current(ys) * den
    BY <1>2, <1>3, <2>2
  <2> QED
    BY <2>1, <2>3 DEF zs
<1> QED
  BY <1>5, <1>6

LEMMA ScoreRises ==
    ASSUME NEW ys, Sampled(ys), NEW h, NEW c \in 0..FullScore, c >= Current(ys),
           SumX(ys) <= Count(ys) * FutureOffset, NEW r \in FinalScore(ys, h)
    PROVE  \E s \in FinalScore(Raised(ys, c), h) : s >= r
<1> DEFINE zs == Raised(ys, c)
           a == Blended(ys).num * RushHourFactor(h)
           b == Blended(zs).num * RushHourFactor(h)
           den == 2 * Blended(ys).den
           top == 10 * FullScore
<1>1. /\ Blended(ys).num \in Int /\ Blended(ys).den \in Nat \ {0} /\ Blended(zs).num \in Int
      /\ Blended(zs).den = Blended(ys).den /\ Blended(zs).num >= Blended(ys).num
  BY RaisedSums, NumeratorType, BlendRises
<1>2. RushHourFactor(h) \in Nat
  BY FactorType
<1>3. a \in Int /\ b \in Int /\ a <= b /\ den \in Nat \ {0}
  <2>1. (Blended(zs).num - Blended(ys).num) * RushHourFactor(h) \in Nat
    <3>1. Blended(zs).num - Blended(ys).num \in Nat
      BY <1>1
    <3> QED
      BY <1>2, <3>1
  <2>2. (Blended(zs).num - Blended(ys).num) * RushHourFactor(h) = b - a
    BY <1>1, <1>2
  <2>3. a \in Int /\ b \in Int
    BY <1>1, <1>2
  <2> QED
    BY <1>1, <2>1, <2>2, <2>3
<1>4. /\ FinalScore(ys, h) = {Clamp(0, score, top) : score \in Rounded(a, den)}
      /\ FinalScore(zs, h) = {Clamp(0, score, top) : score \in Rounded(b, den)}
  BY <1>1 DEF FinalScore
<1>5. PICK i \in Rounded(a, den) : r = Clamp(0, i, top)
  BY <1>4
<1> HIDE DEF a, b, den
<1>6. PICK j \in Rounded(b, den) : j >= i
  BY <1>3, RoundedGrows
<1>7. i \in Int /\ j \in Int
  BY <1>3, RoundedBounds
<1>8. Clamp(0, j, top) >= Clamp(0, i, top)
  BY <1>6, <1>7 DEF Clamp, FullScore
<1>9. Clamp(0, j, top) \in FinalScore(zs, h)
  BY <1>4
<1> QED
  BY <1>5, <1>8, <1>9

\* A road with a more congested last bucket, all else the same, is not predicted to
\* be freer (fitLinearRegression, ewma and the rounding of the stored score), in every
\* window whose mean is not beyond the time the line is read for, readings stamped
\* after now included.
THEOREM WorseForecastRises == ForecastSpec => []WorseNowNotBetterLater
<1>1. ASSUME Foretold PROVE WorseNowNotBetterLater
  <2> SUFFICES ASSUME prediction # None, SumX(Ys) <= Count(Ys) * FutureOffset,
                      NEW b \in Averages, CongestionScore(b) >= Current(Ys)
               PROVE  \E score \in FinalScore(Raised(Ys, CongestionScore(b)), hour) :
                        score >= prediction.score
    BY DEF WorseNowNotBetterLater, Raised
  <2>1. window \in Windows /\ prediction \in Predictions(window, hour)
    BY <1>1 DEF Foretold
  <2>2. Sampled(Ys)
    BY <2>1, ScoresSampled DEF Ys
  <2>3. prediction.score \in FinalScore(Ys, hour)
    BY <2>1 DEF Predictions, Ys
  <2>4. CongestionScore(b) \in 0..FullScore
    BY ScoreInRange
  <2> QED
    BY <2>2, <2>3, <2>4, ScoreRises
<1> QED
  BY <1>1, ForetoldAlways, PTL
-----------------------------------------------------------------------------
(* A rising window: its slope is at least the lift of its last score.      *)

Rising(f, T) == \A x, z \in T : x < z => f[x] <= f[z]

ProductOf(f) == [x \in DOMAIN f |-> x * f[x]]
SumAt(f, T)  == SumFunctionOnSet(f, T)
LeanOf(f, T) == SumFunctionOnSet(ProductOf(f), T)

\* The sums over T, with x taken apart.
LEMMA LeanOver ==
    ASSUME NEW D, NEW f \in [D -> Int], NEW g \in [D -> Int], NEW T \in SUBSET D,
           IsFiniteSet(T), NEW x \in T
    PROVE  /\ SumFunctionOnSet(f, T) = f[x] + SumFunctionOnSet(f, T \ {x})
           /\ SumFunctionOnSet(g, T) = g[x] + SumFunctionOnSet(g, T \ {x})
<1>1. SumFunctionOnSet(f, T) = f[x] + SumFunctionOnSet(f, T \ {x})
  BY SumApart
<1>2. SumFunctionOnSet(g, T) = g[x] + SumFunctionOnSet(g, T \ {x})
  BY SumApart
<1> QED
  BY <1>1, <1>2

Points(D, f) == D \in SUBSET Int /\ f \in [D -> Int]

LEMMA LeanApart ==
    ASSUME NEW D, NEW f, Points(D, f), NEW T \in SUBSET D, IsFiniteSet(T), NEW x \in T
    PROVE  /\ SumAt(f, T) = f[x] + SumAt(f, T \ {x})
           /\ LeanOf(f, T) = x * f[x] + LeanOf(f, T \ {x})
<1> DEFINE g == ProductOf(f)
<1>1. f \in [D -> Int] /\ g \in [D -> Int] /\ g[x] = x * f[x]
  BY DEF Points, ProductOf
<1> HIDE DEF g
<1>2. /\ SumFunctionOnSet(f, T) = f[x] + SumFunctionOnSet(f, T \ {x})
      /\ SumFunctionOnSet(g, T) = g[x] + SumFunctionOnSet(g, T \ {x})
  BY <1>1, LeanOver
<1> QED
  BY <1>1, <1>2 DEF g, SumAt, LeanOf

LEMMA LeanType ==
    ASSUME NEW D \in SUBSET Int, NEW f \in [D -> Int], NEW T \in SUBSET D, IsFiniteSet(T)
    PROVE  SumAt(f, T) \in Int /\ LeanOf(f, T) \in Int
<1> DEFINE g == ProductOf(f)
<1>1. g \in [D -> Int]
  BY DEF ProductOf
<1> HIDE DEF g
<1>2. SumFunctionOnSet(g, T) \in Int /\ SumFunctionOnSet(f, T) \in Int
  BY <1>1, SumType
<1> QED
  BY <1>2 DEF g, SumAt, LeanOf

LEMMA LeanNone ==
    ASSUME NEW D \in SUBSET Int, NEW f \in [D -> Int]
    PROVE  SumAt(f, {}) = 0 /\ LeanOf(f, {}) = 0
<1> DEFINE g == ProductOf(f)
<1>1. g \in [D -> Int]
  BY DEF ProductOf
<1> HIDE DEF g
<1>2. SumFunctionOnSet(g, {}) = 0 /\ SumFunctionOnSet(f, {}) = 0
  BY <1>1, SumNone
<1> QED
  BY <1>2 DEF g, SumAt, LeanOf

\* The sum over T of (x - i) (y - f[i]), multiplied out.
Below(f, T, x, y) == Cardinality(T) * (x * y) - x * SumAt(f, T) - y * SumOf(T) + LeanOf(f, T)

LEMMA BelowPositive ==
    ASSUME NEW D, NEW f, Points(D, f), NEW T \in SUBSET D, IsFiniteSet(T),
           NEW x \in Int, NEW y \in Int, \A i \in T : i <= x /\ f[i] <= y
    PROVE  Below(f, T, x, y) >= 0
<1> DEFINE B == {s \in SUBSET T : ~ (Below(f, s, x, y) >= 0)}
<1> SUFFICES ASSUME B # {} PROVE FALSE
  OBVIOUS
<1>1. PICK s \in B : \A i \in s : s \ {i} \notin B
  <2>1. B \in SUBSET SUBSET T
    OBVIOUS
  <2> HIDE DEF B
  <2> QED
    BY <2>1, SmallestSet
<1>2. s \in SUBSET D /\ IsFiniteSet(s)
  BY <1>1, FS_Subset
<1>3. s \in SUBSET Int /\ D \in SUBSET Int /\ f \in [D -> Int]
  BY <1>2 DEF Points
<1>4. s # {}
  <2>1. Below(f, {}, x, y) = 0
    BY <1>3, MomentsNone, LeanNone DEF Below
  <2> QED
    BY <1>1, <2>1
<1>5. PICK i \in s : i <= x /\ f[i] <= y
  BY <1>1, <1>4
<1> DEFINE t == s \ {i}
<1>6. Below(f, t, x, y) >= 0 /\ t \in SUBSET D /\ t \in SUBSET Int /\ IsFiniteSet(t)
  BY <1>1, <1>2, <1>3, FS_Subset
<1>7. /\ SumOf(s) = i + SumOf(t) /\ Cardinality(s) = 1 + Cardinality(t)
      /\ SumAt(f, s) = f[i] + SumAt(f, t) /\ LeanOf(f, s) = i * f[i] + LeanOf(f, t)
  <2>1. SumAt(f, s) = f[i] + SumAt(f, t) /\ LeanOf(f, s) = i * f[i] + LeanOf(f, t)
    BY <1>2, LeanApart
  <2> QED
    BY <1>2, <1>3, <2>1, MomentsApart
<1> HIDE DEF t
<1>8. /\ SumOf(t) \in Int /\ Cardinality(t) \in Nat /\ i \in Int /\ f[i] \in Int
      /\ SumAt(f, t) \in Int /\ LeanOf(f, t) \in Int
  BY <1>2, <1>3, <1>6, MomentsType, LeanType
<1>9. Below(f, s, x, y) = Below(f, t, x, y) + (x - i) * (y - f[i])
  BY <1>7, <1>8 DEF Below
<1>10. (x - i) * (y - f[i]) >= 0
  <2>1. x - i \in Nat /\ y - f[i] \in Nat
    BY <1>5, <1>8
  <2> QED
    BY <2>1
<1>11. Below(f, t, x, y) \in Int /\ (x - i) * (y - f[i]) \in Int
  BY <1>8 DEF Below
<1> QED
  BY <1>1, <1>6, <1>9, <1>10, <1>11

\* A function that rises on T leans to the right (Chebyshev's sum inequality).
Tilt(f, T) == Cardinality(T) * LeanOf(f, T) - SumOf(T) * SumAt(f, T)

LEMMA TiltPositive ==
    ASSUME NEW D, NEW f, Points(D, f), NEW T \in SUBSET D, IsFiniteSet(T),
           Rising(f, T)
    PROVE  Tilt(f, T) >= 0
<1> DEFINE B == {s \in SUBSET T : ~ (Tilt(f, s) >= 0)}
<1> SUFFICES ASSUME B # {} PROVE FALSE
  OBVIOUS
<1>1. PICK s \in B : \A i \in s : s \ {i} \notin B
  <2>1. B \in SUBSET SUBSET T
    OBVIOUS
  <2> HIDE DEF B
  <2> QED
    BY <2>1, SmallestSet
<1>2. s \in SUBSET D /\ IsFiniteSet(s)
  BY <1>1, FS_Subset
<1>3. s \in SUBSET Int /\ D \in SUBSET Int /\ f \in [D -> Int]
  BY <1>2 DEF Points
<1>4. s # {}
  <2>1. Tilt(f, {}) = 0
    BY <1>3, MomentsNone, LeanNone DEF Tilt
  <2> QED
    BY <1>1, <2>1
<1> DEFINE x == Max(s)
           t == s \ {x}
<1>5. x \in s /\ \A i \in s : i <= x
  BY <1>2, <1>3, <1>4, GreatestOf
<1>6. Tilt(f, t) >= 0 /\ t \in SUBSET D /\ t \in SUBSET Int /\ IsFiniteSet(t)
  BY <1>1, <1>2, <1>3, <1>5, FS_Subset
<1>7. ASSUME NEW i \in t PROVE i <= x /\ f[i] <= f[x]
  <2>1. i \in s /\ i # x /\ i \in T /\ x \in T
    BY <1>1, <1>5, <1>7
  <2>2. i \in Int /\ x \in Int /\ i <= x
    BY <1>2, <1>3, <1>5, <2>1
  <2> HIDE DEF x, t
  <2>3. i < x
    BY <2>1, <2>2
  <2> QED
    BY <2>1, <2>2, <2>3 DEF Rising
<1> HIDE DEF x
<1>8. /\ SumOf(s) = x + SumOf(t) /\ Cardinality(s) = 1 + Cardinality(t)
      /\ SumAt(f, s) = f[x] + SumAt(f, t) /\ LeanOf(f, s) = x * f[x] + LeanOf(f, t)
  <2>1. SumAt(f, s) = f[x] + SumAt(f, t) /\ LeanOf(f, s) = x * f[x] + LeanOf(f, t)
    BY <1>2, <1>5, LeanApart
  <2> QED
    BY <1>2, <1>3, <1>5, <2>1, MomentsApart
<1> HIDE DEF t
<1>9. /\ SumOf(t) \in Int /\ Cardinality(t) \in Nat /\ x \in Int /\ f[x] \in Int
      /\ SumAt(f, t) \in Int /\ LeanOf(f, t) \in Int
  BY <1>2, <1>3, <1>5, <1>6, MomentsType, LeanType
<1>10. Tilt(f, s) = Tilt(f, t) + Below(f, t, x, f[x])
  <2> DEFINE p == Cardinality(t)
             y == f[x]
             sx == SumOf(t)
             sy == SumAt(f, t)
             sp == LeanOf(f, t)
  <2>1. /\ Tilt(f, s) = (1 + p) * (x * y + sp) - (x + sx) * (y + sy)
        /\ Tilt(f, t) = p * sp - sx * sy
        /\ Below(f, t, x, y) = p * (x * y) - x * sy - y * sx + sp
    BY <1>8 DEF Tilt, Below
  <2>2. sx \in Int /\ p \in Nat /\ x \in Int /\ y \in Int /\ sy \in Int /\ sp \in Int
    BY <1>9
  <2> HIDE DEF p, y, sx, sy, sp
  <2>3. (1 + p) * (x * y + sp) = x * y + sp + p * (x * y) + p * sp
    BY <2>2
  <2>4. (x + sx) * (y + sy) = x * y + x * sy + y * sx + sx * sy
    BY <2>2
  <2>5. /\ x * y \in Int /\ p * (x * y) \in Int /\ p * sp \in Int /\ x * sy \in Int
        /\ y * sx \in Int /\ sx * sy \in Int
    BY <2>2
  <2>6. Tilt(f, s) = Tilt(f, t) + Below(f, t, x, y)
    BY <2>1, <2>2, <2>3, <2>4, <2>5
  <2> QED
    BY <2>6 DEF y
<1>11. Below(f, t, x, f[x]) >= 0
  BY <1>6, <1>7, <1>9, BelowPositive
<1>12. Tilt(f, t) \in Int /\ Below(f, t, x, f[x]) \in Int
  BY <1>9 DEF Tilt, Below
<1> QED
  BY <1>1, <1>6, <1>10, <1>11, <1>12

\* Of what the last of n rising scores stands above the others, their slope makes
\* up as much as its offset stands above theirs.
LEMMA SlopeLifts ==
    ASSUME NEW D \in SUBSET Int, NEW f \in [D -> Int], IsFiniteSet(D), D # {}, Rising(f, D),
           NEW n \in Nat, n = Cardinality(D), NEW m, m = Max(D)
    PROVE  /\ n * m - SumOf(D) >= 0 /\ n * f[m] - SumAt(f, D) >= 0
           /\ (n - 1) * Tilt(f, D) >= (n * m - SumOf(D)) * (n * f[m] - SumAt(f, D))
<1> DEFINE t == D \ {m}
           p == Cardinality(t)
           c == f[m]
           sx == SumOf(t)
           sy == SumAt(f, t)
           sp == LeanOf(f, t)
<1>1. m \in D /\ m \in Int /\ \A i \in D : i <= m
  BY GreatestOf
<1>2. t \in SUBSET D /\ t \in SUBSET Int /\ IsFiniteSet(t)
  BY FS_Subset
<1>3. /\ SumOf(D) = m + sx /\ n = 1 + p
      /\ SumAt(f, D) = c + sy /\ LeanOf(f, D) = m * c + sp
  <2>1. Points(D, f) /\ D \in SUBSET D
    BY DEF Points
  <2>2. SumAt(f, D) = c + sy /\ LeanOf(f, D) = m * c + sp
    BY <1>1, <2>1, LeanApart
  <2>3. SumOf(D) = m + sx /\ Cardinality(D) = 1 + p
    BY <1>1, MomentsApart
  <2> QED
    BY <2>2, <2>3
<1>4. \A i \in t : i <= m /\ f[i] <= c
  BY <1>1 DEF Rising
<1>5. Rising(f, t)
  BY DEF Rising
<1> HIDE DEF t
<1>6. sx \in Int /\ p \in Nat /\ sy \in Int /\ sp \in Int /\ c \in Int
  BY <1>1, <1>2, MomentsType, LeanType
<1>7. Tilt(f, t) >= 0 /\ Tilt(f, t) = p * sp - sx * sy
  <2>1. Points(D, f)
    BY DEF Points
  <2>2. Tilt(f, t) >= 0
    BY <1>2, <1>5, <2>1, TiltPositive
  <2> QED
    BY <2>2 DEF Tilt
<1>8. sx <= p * m
  BY <1>1, <1>2, <1>4, MeanBelow
<1>9. sy <= p * c
  <2>1. \A i \in t : f[i] <= c
    BY <1>4
  <2> HIDE DEF c
  <2>2. SumFunctionOnSet(f, t) <= Cardinality(t) * c
    BY <1>2, <1>6, <2>1, SumBelow
  <2> QED
    BY <2>2 DEF SumAt
<1> HIDE DEF p, c, sx, sy, sp
<1>10. n * m - SumOf(D) = p * m - sx /\ n * c - SumAt(f, D) = p * c - sy
  BY <1>1, <1>3, <1>6
<1> DEFINE a == p * m - sx
           z == p * c - sy
           prods == p * (m * c) - m * sy - c * sx + sp
<1>11. Tilt(f, D) = (1 + p) * (m * c + sp) - (m + sx) * (c + sy)
  BY <1>3 DEF Tilt
<1>12. Tilt(f, D) = (1 + p) * prods - a * z
  <2>1. a * z = p * p * (m * c) - p * m * sy - sx * p * c + sx * sy
    BY <1>1, <1>6
  <2>2. (1 + p) * prods = prods + (p * p * (m * c) - p * m * sy - p * c * sx + p * sp)
    <3>1. p * prods = p * p * (m * c) - p * m * sy - p * c * sx + p * sp
      BY <1>1, <1>6
    <3>2. prods \in Int
      BY <1>1, <1>6
    <3> HIDE DEF prods
    <3>3. (1 + p) * prods = prods + p * prods
      BY <1>6, <3>2
    <3> QED
      BY <3>1, <3>3
  <2>3. (1 + p) * (m * c + sp) - (m + sx) * (c + sy)
          = p * (m * c) + sp + p * sp - m * sy - sx * c - sx * sy
    BY <1>1, <1>6
  <2> QED
    BY <1>1, <1>6, <1>11, <2>1, <2>2, <2>3
<1>13. p * prods - a * z = Tilt(f, t)
  BY <1>1, <1>6, <1>7
<1>14. a \in Int /\ z \in Int /\ prods \in Int /\ a >= 0 /\ z >= 0
  BY <1>1, <1>6, <1>8, <1>9
<1>15. Tilt(f, t) \in Int
  BY <1>6, <1>7
<1> HIDE DEF a, z, prods
<1>16. p * Tilt(f, D) >= a * z
  <2> DEFINE k == a * z
             pp == p * prods
  <2>1. k \in Int /\ pp \in Int /\ pp - k >= 0
    BY <1>6, <1>7, <1>13, <1>14
  <2>2. Tilt(f, D) = prods + (pp - k)
    BY <1>6, <1>12, <1>14
  <2>3. p * Tilt(f, D) = pp + p * (pp - k)
    BY <1>6, <1>14, <2>1, <2>2
  <2>4. p * (pp - k) >= 0
    <3>1. pp - k \in Nat
      BY <2>1
    <3> HIDE DEF pp, k
    <3> QED
      BY <1>6, <3>1
  <2>5. p * (pp - k) \in Int
    BY <1>6, <2>1
  <2> HIDE DEF pp, k
  <2>6. p * Tilt(f, D) >= k
    BY <2>1, <2>3, <2>4, <2>5
  <2> QED
    BY <2>6 DEF k
<1> QED
  BY <1>3, <1>6, <1>10, <1>14, <1>16 DEF a, z, c

\* The sums of the model are those sums.
LEMMA TiltIs ==
    ASSUME NEW ys, Sampled(ys)
    PROVE  SumY(ys) = SumAt(ys, DOMAIN ys) /\ Sxy(ys) = Tilt(ys, DOMAIN ys)
<1>1. SumY(ys) = SumAt(ys, DOMAIN ys)
  BY DEF SumY, SumFunction, SumAt
<1>2. SumFunction(Products(ys)) = LeanOf(ys, DOMAIN ys)
  BY DEF SumFunction, Products, LeanOf, ProductOf
<1>3. Sxy(ys) = Count(ys) * SumFunction(Products(ys)) - SumX(ys) * SumY(ys)
  BY RegressionSums
<1> QED
  BY <1>1, <1>2, <1>3, SumXIs DEF Tilt, Count

LEMMA FarAheadIs ==
    ASSUME NEW ys, Sampled(ys), FarAhead(DOMAIN ys), NEW n, n = Count(ys)
    PROVE  (n * FutureOffset - SumX(ys)) * (n * Max(DOMAIN ys) - SumX(ys)) >= (n - 1) * Sxx(ys)
<1> DEFINE at == [x \in DOMAIN ys |-> x]
<1>1. SumX(at) = SumX(ys) /\ Sxx(at) = Sxx(ys)
  <2>1. DOMAIN at = DOMAIN ys
    OBVIOUS
  <2>2. SumX(at) = SumX(ys)
    BY <2>1 DEF SumX
  <2>3. SumFunction([x \in DOMAIN at |-> x * x]) = SumFunction([x \in DOMAIN ys |-> x * x])
    BY <2>1
  <2> HIDE DEF at
  <2> QED
    BY <2>1, <2>2, <2>3 DEF Sxx, Count
<1> QED
  BY <1>1 DEF FarAhead, Count

\* Read off far enough ahead, the line over rising scores is no lower than the last.
LEMMA LineKeepsUp ==
    ASSUME NEW ys, Sampled(ys), Rising(ys, DOMAIN ys), Count(ys) # 1, FarAhead(DOMAIN ys),
           Max(DOMAIN ys) <= FutureOffset
    PROVE  Fitted(ys, FutureOffset) >= Current(ys) * (Count(ys) * Sxx(ys))
<1> DEFINE n == Count(ys)
           sx == SumX(ys)
           sy == SumY(ys)
           xx == Sxx(ys)
           xy == Sxy(ys)
           c == Current(ys)
           m == Max(DOMAIN ys)
           a == n * m - sx
           b == n * FutureOffset - sx
           z == n * c - sy
<1>1. /\ n \in Nat \ {0} /\ sx \in Int /\ sy \in Int /\ xx \in Nat /\ xy \in Int
  BY RegressionSums
<1>2. c \in Int /\ m \in Int /\ FutureOffset \in Int /\ FutureOffset >= m
  BY NumeratorType, ForecastAssumption DEF FutureOffset, FullScore, Sampled
<1>3. a >= 0 /\ z >= 0 /\ (n - 1) * xy >= a * z
  <2> DEFINE D == DOMAIN ys
  <2>1. D \in SUBSET Int /\ IsFiniteSet(D) /\ D # {} /\ ys \in [D -> Int]
    BY DEF Sampled, FullScore
  <2>2. n = Cardinality(D) /\ c = ys[m] /\ sx = SumOf(D) /\ sy = SumAt(ys, D) /\ xy = Tilt(ys, D)
    BY SumXIs, TiltIs DEF Count, Current
  <2>3. Rising(ys, D) /\ m = Max(D) /\ n \in Nat
    BY <1>1
  <2> HIDE DEF D, n, c, m, sx, sy, xy
  <2> QED
    BY <2>1, <2>2, <2>3, SlopeLifts
<1>4. b * a >= (n - 1) * xx
  BY FarAheadIs
<1>5. Fitted(ys, FutureOffset) = sy * xx + xy * b
  BY DEF Fitted
<1>6. a \in Int /\ b \in Int /\ z \in Int /\ b >= 0
  <2>1. a \in Int /\ b \in Int /\ z \in Int
    BY <1>1, <1>2
  <2>2. n * (FutureOffset - m) >= 0 /\ n * (FutureOffset - m) = b - a
    <3>1. FutureOffset - m \in Nat
      BY <1>2
    <3> QED
      BY <1>1, <1>2, <3>1
  <2> HIDE DEF a, b, z, m, n
  <2> QED
    BY <1>1, <1>2, <1>3, <2>1, <2>2
<1>7. c * (n * xx) = sy * xx + z * xx
  BY <1>1, <1>2
<1> HIDE DEF n, sx, sy, xx, xy, c, m, a, b, z
<1>8. n - 1 \in Nat /\ n - 1 > 0
  BY <1>1 DEF n
<1>9. xy * b >= z * xx
  <2> DEFINE p == n - 1
             gap == xy * b - z * xx
  <2>1. p * xy * b >= a * z * b
    <3>1. p * xy - a * z \in Nat
      BY <1>1, <1>3, <1>6, <1>8
    <3>2. (p * xy - a * z) * b >= 0
      <4> DEFINE k == p * xy - a * z
      <4>1. k \in Nat
        BY <3>1
      <4> HIDE DEF k
      <4>2. k * b >= 0
        BY <1>6, <4>1
      <4> QED
        BY <4>2 DEF k
    <3>3. (p * xy - a * z) * b = p * xy * b - a * z * b
      BY <1>1, <1>6
    <3>4. p * xy * b \in Int /\ a * z * b \in Int
      BY <1>1, <1>6
    <3> QED
      BY <3>2, <3>3, <3>4
  <2>2. a * z * b >= p * xx * z
    <3>1. b * a - p * xx \in Nat
      BY <1>1, <1>4, <1>6, <1>8
    <3>2. (b * a - p * xx) * z >= 0
      <4> DEFINE k == b * a - p * xx
      <4>1. k \in Nat
        BY <3>1
      <4> HIDE DEF k
      <4>2. k * z >= 0
        BY <1>3, <1>6, <4>1
      <4> QED
        BY <4>2 DEF k
    <3>3. (b * a - p * xx) * z = a * z * b - p * xx * z
      BY <1>1, <1>6
    <3>4. p * xx * z \in Int /\ a * z * b \in Int
      BY <1>1, <1>6
    <3> QED
      BY <3>2, <3>3, <3>4
  <2>3. p * gap = p * xy * b - p * xx * z
    BY <1>1, <1>6
  <2>4. p * xy * b \in Int /\ a * z * b \in Int /\ p * xx * z \in Int /\ gap \in Int
    BY <1>1, <1>6
  <2>5. p * gap >= 0
    BY <2>1, <2>2, <2>3, <2>4
  <2>6. p \in Nat /\ p > 0
    BY <1>8
  <2>7. gap >= 0
    <3> HIDE DEF p, gap
    <3> SUFFICES ASSUME gap <= -1 PROVE FALSE
      BY <2>4
    <3>1. p * (-1 - gap) >= 0
      <4>1. -1 - gap \in Nat
        BY <2>4
      <4> QED
        BY <2>6, <4>1
    <3>2. p * (-1 - gap) = -p - p * gap /\ p * gap \in Int
      BY <2>4, <2>6
    <3> QED
      BY <2>5, <2>6, <3>1, <3>2
  <2>8. xy * b \in Int /\ z * xx \in Int
    BY <1>1, <1>6
  <2> QED
    BY <2>7, <2>8
<1>10. sy * xx \in Int /\ xy * b \in Int /\ z * xx \in Int
  BY <1>1, <1>6
<1>11. Fitted(ys, FutureOffset) >= c * (n * xx)
  BY <1>5, <1>7, <1>9, <1>10
<1> QED
  BY <1>11 DEF c, n, xx

LEMMA BlendKeepsUp ==
    ASSUME NEW ys, Sampled(ys), Rising(ys, DOMAIN ys), FarAhead(DOMAIN ys),
           Max(DOMAIN ys) <= FutureOffset
    PROVE  Blended(ys).num >= Current(ys) * Blended(ys).den
<1>1. Current(ys) \in Int
  BY NumeratorType DEF FullScore
<1>2. CASE Count(ys) = 1
  BY <1>1, <1>2 DEF Blended
<1>3. CASE Count(ys) # 1
  <2> DEFINE den == Count(ys) * Sxx(ys)
             c == Current(ys)
             high == Fitted(ys, FutureOffset)
  <2>1. /\ Blended(ys).num = 7 * high + 3 * c * den
        /\ Blended(ys).den = 10 * den
    BY <1>3 DEF Blended
  <2>2. high >= c * den
    BY <1>3, LineKeepsUp
  <2>3. high \in Int /\ den \in Int
    BY NumeratorType, RegressionSums, ForecastAssumption DEF FutureOffset
  <2> HIDE DEF den, c, high
  <2>4. c \in Int
    BY <1>1 DEF c
  <2>5. 3 * c * den = 3 * (c * den) /\ c * (10 * den) = 10 * (c * den) /\ c * den \in Int
    BY <2>3, <2>4
  <2>6. 7 * high + 3 * c * den >= c * (10 * den)
    BY <2>2, <2>3, <2>5
  <2> QED
    BY <2>1, <2>6 DEF c
<1> QED
  BY <1>2, <1>3

\* What is rounded to halves loses half at most.
LEMMA RoundedHalves ==
    ASSUME NEW num \in Int, NEW den \in Nat \ {0}, NEW k \in Int, num >= k * den,
           NEW r \in Rounded(num, 2 * den)
    PROVE  2 * r + 1 >= k
<1> DEFINE d == 2 * den
           q == num \div d
           rem == num % d
<1>1. d \in Nat \ {0}
  OBVIOUS
<1>2. q \in Int /\ rem \in 0..(d - 1) /\ num = d * q + rem
  <2> HIDE DEF d
  <2> QED
    BY <1>1, Division
<1>3. (r = q /\ 2 * rem <= d) \/ (r = q + 1 /\ 2 * rem >= d)
  <2>1. r \in Rounded(num, d)
    OBVIOUS
  <2> HIDE DEF d
  <2> QED
    BY <1>1, <2>1, RoundedIs
<1> HIDE DEF q, rem
<1>4. r \in Int /\ num <= d * r + den
  <2>1. CASE r = q /\ 2 * rem <= d
    BY <1>2, <2>1
  <2>2. CASE r = q + 1 /\ 2 * rem >= d
    <3>1. d * r = d * q + d
      BY <1>1, <1>2, <2>2
    <3>2. d * q \in Int
      BY <1>1, <1>2
    <3> HIDE DEF d
    <3>3. r \in Int /\ num <= d * r
      BY <1>1, <1>2, <2>2, <3>1, <3>2
    <3>4. d * r \in Int
      BY <1>1, <3>3
    <3> QED
      BY <3>3, <3>4
  <2> QED
    BY <1>3, <2>1, <2>2
<1> SUFFICES ASSUME k - 2 * r - 2 >= 0 PROVE FALSE
  BY <1>4
<1> DEFINE u == k - 2 * r - 2
<1>5. u \in Nat /\ den * u >= 0
  <2>1. u \in Nat
    BY <1>4
  <2> HIDE DEF u
  <2> QED
    BY <2>1
<1>6. den * u = k * den - d * r - 2 * den
  BY <1>4
<1>7. k * den \in Int /\ d * r \in Int
  BY <1>1, <1>4
<1> HIDE DEF u, d
<1> QED
  BY <1>4, <1>5, <1>6, <1>7

LEMMA ScoreKeepsUp ==
    ASSUME NEW ys, Sampled(ys), Rising(ys, DOMAIN ys), FarAhead(DOMAIN ys),
           Max(DOMAIN ys) <= FutureOffset, NEW h, NEW score \in FinalScore(ys, h)
    PROVE  20 * score + 10 >= 10 * Clamp(0, Current(ys) * RushHourFactor(h), 20 * FullScore)
<1> DEFINE num == Blended(ys).num
           den == Blended(ys).den
           f == RushHourFactor(h)
           c == Current(ys)
           top == 10 * FullScore
           k == c * f
<1>1. /\ num \in Int /\ den \in Nat \ {0} /\ c \in Int /\ f \in Nat
      /\ num >= c * den
  BY NumeratorType, FactorType, BlendKeepsUp DEF FullScore
<1>2. PICK r \in Rounded(num * f, 2 * den) : score = Clamp(0, r, top)
  BY DEF FinalScore
<1> HIDE DEF num, den, f, c
<1>3. num * f >= k * den /\ num * f \in Int /\ k \in Int
  <2>1. (num - c * den) * f >= 0
    <3>1. num - c * den \in Nat
      BY <1>1
    <3> QED
      BY <1>1, <3>1
  <2>2. (num - c * den) * f = num * f - k * den
    BY <1>1
  <2>3. num * f \in Int /\ k \in Int /\ k * den \in Int
    BY <1>1
  <2> QED
    BY <2>1, <2>2, <2>3
<1> DEFINE amount == num * f
           d == 2 * den
<1>4. r \in Int
  <2>1. amount \in Int /\ d \in Nat \ {0} /\ r \in Rounded(amount, d)
    BY <1>1, <1>3
  <2> HIDE DEF amount, d
  <2> QED
    BY <2>1, RoundedBounds
<1>5. 2 * r + 1 >= k
  <2>1. amount \in Int /\ amount >= k * den /\ r \in Rounded(amount, 2 * den)
    BY <1>3
  <2>2. k \in Int
    BY <1>3
  <2> HIDE DEF amount, k
  <2> QED
    BY <1>1, <2>1, <2>2, RoundedHalves
<1>6. 20 * score + 10 >= 10 * Clamp(0, k, 20 * FullScore)
  <2> HIDE DEF k
  <2> QED
    BY <1>2, <1>3, <1>4, <1>5 DEF Clamp, FullScore
<1> QED
  BY <1>6 DEF c, f

\* Congestion that has only risen through a window without readings stamped after
\* now is not predicted to ease but for the factor of the hour, wherever the horizon
\* lies far enough beyond the window (fitLinearRegression, ewma and the rounding of the stored score).
THEOREM RisingForecastKeepsUp == FarSighted => (ForecastSpec => []RisingNotEased)
<1> SUFFICES ASSUME FarSighted PROVE ForecastSpec => []RisingNotEased
  OBVIOUS
<1>1. ASSUME Foretold PROVE RisingNotEased
  <2> SUFFICES ASSUME prediction # None, Late(DOMAIN Ys) = {}, Rising(Ys, DOMAIN Ys)
               PROVE  20 * prediction.score + 10
                        >= 10 * Clamp(0, Current(Ys) * RushHourFactor(hour), 20 * FullScore)
    BY DEF RisingNotEased, Rising
  <2>1. window \in Windows /\ prediction \in Predictions(window, hour)
    BY <1>1 DEF Foretold
  <2>2. Sampled(Ys)
    BY <2>1, ScoresSampled DEF Ys
  <2>3. prediction.score \in FinalScore(Ys, hour)
    BY <2>1 DEF Predictions, Ys
  <2>4. FarAhead(DOMAIN Ys)
    <3>1. PICK xs \in Occupied : window \in [xs -> Averages]
      BY <2>1 DEF Windows
    <3>2. DOMAIN window \in Occupied
      BY <3>1
    <3>3. DOMAIN Ys = DOMAIN window
      BY DEF Ys, Scores
    <3> QED
      BY <3>2, <3>3 DEF FarSighted
  <2>5. Max(DOMAIN Ys) <= FutureOffset
    <3>1. /\ Max(DOMAIN Ys) \in DOMAIN Ys /\ Max(DOMAIN Ys) \in Int
          /\ Lookback \in Nat /\ FutureOffset \in Int /\ FutureOffset >= Lookback
      BY <2>2, NumeratorType, ForecastAssumption DEF Sampled, FutureOffset
    <3>2. Max(DOMAIN Ys) \notin Late(DOMAIN Ys)
      OBVIOUS
    <3> QED
      BY <3>1, <3>2 DEF Late
  <2> QED
    BY <2>2, <2>3, <2>4, <2>5, ScoreKeepsUp
<1> QED
  BY <1>1, ForetoldAlways, PTL
===============================================================================
