--------------------------- MODULE InductionFacts ----------------------------
(***************************************************************************)
(* Induction over the naturals, stated of a set instead of a predicate, so *)
(* that it can be used where a predicate cannot be instantiated; what the  *)
(* folds of the community modules come to, of which those over a sequence  *)
(* need the largest of a set of positions and those over a function are    *)
(* sums; how often the members of a set come in a sequence; and the        *)
(* sequence of those elements of another that are in a set.                *)
(***************************************************************************)
EXTENDS Integers, FiniteSets, FiniteSetsExt, SequencesExt, FiniteSetTheorems,
        SequenceTheorems, WellFoundedInduction, TLAPS

(* A set that holds 0 and the successors of its naturals holds them all.   *)
THEOREM NatSetInduction ==
    ASSUME NEW S, 0 \in S, \A n \in Nat : n \in S => n + 1 \in S
    PROVE  Nat \subseteq S
<1>. SUFFICES ASSUME Nat \ S # {} PROVE FALSE
  OBVIOUS
<1>. DEFINE R == OpToRel(<, Nat)  T == Nat \ S
<1>1. IsWellFoundedOn(R, Nat)
  BY NatLessThanWellFounded
<1>2. \A y, x \in Nat : y < x => <<y, x>> \in R
  BY DEF OpToRel
<1>. HIDE DEF R
<1>3. PICK x \in T : \A y \in T : <<y, x>> \notin R
  BY <1>1, WFMin
<1>4. x # 0 /\ x \in Nat /\ x - 1 \in Nat
  BY <1>3
<1>5. x - 1 \in S
  <2>1. x - 1 < x
    BY <1>4
  <2>2. <<x - 1, x>> \in R
    BY <1>2, <1>4, <2>1
  <2>. QED
    BY <1>3, <1>4, <2>2
<1>6. (x - 1) + 1 \in S
  BY <1>4, <1>5
<1>. QED
  BY <1>3, <1>4, <1>6

LEMMA PositionsHaveMax ==
    ASSUME NEW n \in Nat, NEW d \in SUBSET (1 .. n), d # {}
    PROVE  Max(d) \in d /\ \A y \in d : Max(d) >= y
<1>. DEFINE HasMax(e) == \E x \in e : \A y \in e : x >= y
            S == {k \in Nat : \A e \in SUBSET (1 .. k) : e # {} => HasMax(e)}
<1>1. 0 \in S
  <2>1. 1 .. 0 = {}
    OBVIOUS
  <2>2. \A e \in SUBSET (1 .. 0) : e = {}
    BY <2>1
  <2>. QED
    BY <2>2
<1>2. ASSUME NEW k \in Nat, k \in S PROVE k + 1 \in S
  <2>. SUFFICES ASSUME NEW e \in SUBSET (1 .. k + 1), e # {} PROVE HasMax(e)
    BY <1>2
  <2>1. CASE k + 1 \in e
    BY <2>1
  <2>2. CASE k + 1 \notin e
    <3>1. e \in SUBSET (1 .. k)
      BY <2>2
    <3>. QED
      BY <1>2, <3>1
  <2>. QED
    BY <2>1, <2>2
<1>. HIDE DEF S
<1>3. n \in S
  BY <1>1, <1>2, NatSetInduction
<1>4. HasMax(d)
  BY <1>3 DEF S
<1>. QED
  BY <1>4 DEF Max

LEMMA LastPosition ==
    ASSUME NEW n \in Nat
    PROVE  /\ Max(1 .. n + 1) = n + 1
           /\ (1 .. n + 1) \ {n + 1} = 1 .. n
           /\ 1 .. n + 1 # {}
<1>1. Max(1 .. n + 1) \in 1 .. n + 1 /\ \A y \in 1 .. n + 1 : Max(1 .. n + 1) >= y
  <2>1. n + 1 \in Nat /\ (1 .. n + 1) \in SUBSET (1 .. n + 1) /\ 1 .. n + 1 # {}
    OBVIOUS
  <2>. QED
    BY <2>1, PositionsHaveMax
<1>2. n + 1 \in 1 .. n + 1
  OBVIOUS
<1>. QED
  BY <1>1, <1>2

LEMMA WithoutLast ==
    ASSUME NEW n \in Nat, NEW d \in SUBSET (1 .. n + 1), d # {}
    PROVE  Max(d) \in 1 .. n + 1 /\ d \ {Max(d)} \in SUBSET (1 .. n)
<1>1. Max(d) \in d /\ \A y \in d : Max(d) >= y
  <2>1. n + 1 \in Nat
    OBVIOUS
  <2>. QED
    BY <2>1, PositionsHaveMax
<1>2. ASSUME NEW y \in d \ {Max(d)} PROVE y \in 1 .. n
  <2>1. y \in 1 .. n + 1 /\ Max(d) \in 1 .. n + 1 /\ y <= Max(d) /\ y # Max(d)
    BY <1>1
  <2>. QED
    BY <2>1
<1>. QED
  BY <1>1, <1>2

-----------------------------------------------------------------------------
(* Sums: what the fold of + over the values of a function is.              *)

Pick1(d) == CHOOSE x \in d : TRUE
SumBy(f, S, it) == [d \in SUBSET S |-> IF d = {} THEN 0
                                       ELSE f[Pick1(d)] + it[d \ {Pick1(d)}]]
SumOver(f, S) == (CHOOSE it : it = SumBy(f, S, it))[S]

LEMMA OneLess ==
    ASSUME NEW S, IsFiniteSet(S), NEW d \in SUBSET S, NEW n \in Nat,
           Cardinality(d) = n + 1
    PROVE  /\ d # {} /\ Pick1(d) \in d /\ Pick1(d) \in S
           /\ d \ {Pick1(d)} \in SUBSET S /\ Cardinality(d \ {Pick1(d)}) = n
<1>1. IsFiniteSet(d)
  BY FS_Subset
<1>2. d # {}
  <2>1. n + 1 # 0
    OBVIOUS
  <2>. QED
    BY <2>1, FS_EmptySet
<1>3. Pick1(d) \in d
  BY <1>2 DEF Pick1
<1>4. Cardinality(d \ {Pick1(d)}) = Cardinality(d) - 1
  BY <1>1, <1>3, FS_RemoveElement
<1>. QED
  BY <1>2, <1>3, <1>4

SumUpTo(f, S, it, n) ==
    [d \in {e \in SUBSET S : Cardinality(e) <= n} |->
        IF d = {} THEN 0 ELSE f[Pick1(d)] + it[d \ {Pick1(d)}]]

LEMMA SumExists ==
    ASSUME NEW f, NEW S, IsFiniteSet(S)
    PROVE  \E it : it = SumBy(f, S, it)
<1>. DEFINE K == {n \in Nat : \E it : it = SumUpTo(f, S, it, n)}
            D(n) == {e \in SUBSET S : Cardinality(e) <= n}
<1>0. \A d \in SUBSET S : IsFiniteSet(d) /\ Cardinality(d) \in Nat
  BY FS_Subset, FS_CardinalityType
<1>1. 0 \in K
  <2>. DEFINE it == [d \in D(0) |-> 0]
  <2>1. ASSUME NEW d \in D(0) PROVE d = {}
    <3>1. Cardinality(d) = 0
      BY <1>0
    <3>. QED
      BY <1>0, <3>1, FS_EmptySet
  <2>2. it = SumUpTo(f, S, it, 0)
    BY <2>1 DEF SumUpTo
  <2>. QED
    BY <2>2
<1>2. ASSUME NEW n \in Nat, n \in K PROVE n + 1 \in K
  <2>1. PICK old : old = SumUpTo(f, S, old, n)
    BY <1>2
  <2>. DEFINE new == SumUpTo(f, S, old, n + 1)
  <2>2. ASSUME NEW d \in D(n) PROVE new[d] = old[d]
    <3>1. d \in D(n + 1)
      BY <1>0
    <3>2. /\ new[d] = IF d = {} THEN 0 ELSE f[Pick1(d)] + old[d \ {Pick1(d)}]
          /\ SumUpTo(f, S, old, n)[d] = IF d = {} THEN 0 ELSE f[Pick1(d)] + old[d \ {Pick1(d)}]
      BY <3>1 DEF SumUpTo
    <3>. QED
      BY <2>1, <3>2
  <2>. HIDE DEF new
  <2>3. ASSUME NEW d \in D(n + 1), d # {} PROVE new[d \ {Pick1(d)}] = old[d \ {Pick1(d)}]
    <3>1. Cardinality(d) \in Nat /\ Cardinality(d) # 0
      BY <1>0, <2>3, FS_EmptySet
    <3>2. /\ Cardinality(d) - 1 \in Nat /\ Cardinality(d) = (Cardinality(d) - 1) + 1
          /\ Cardinality(d) - 1 <= n
      BY <3>1
    <3>3. d \ {Pick1(d)} \in D(n)
      BY <3>2, OneLess
    <3>. QED
      BY <2>2, <3>3
  <2>4. new = SumUpTo(f, S, new, n + 1)
    <3>1. new = [d \in D(n + 1) |-> IF d = {} THEN 0 ELSE f[Pick1(d)] + old[d \ {Pick1(d)}]]
      BY DEF new, SumUpTo
    <3>2. \A d \in D(n + 1) : (IF d = {} THEN 0 ELSE f[Pick1(d)] + old[d \ {Pick1(d)}])
                            = (IF d = {} THEN 0 ELSE f[Pick1(d)] + new[d \ {Pick1(d)}])
      BY <2>3
    <3>. QED
      BY <3>1, <3>2 DEF SumUpTo
  <2>. QED
    BY <2>4
<1>. HIDE DEF K
<1>3. Cardinality(S) \in K
  BY <1>0, <1>1, <1>2, NatSetInduction
<1>4. PICK it : it = SumUpTo(f, S, it, Cardinality(S))
  BY <1>3 DEF K
<1>5. D(Cardinality(S)) = SUBSET S
  BY FS_Subset
<1>6. it = SumBy(f, S, it)
  BY <1>4, <1>5 DEF SumUpTo, SumBy
<1>. QED
  BY <1>6

PartSums(f, S, it) ==
    /\ it[S] = SumOver(f, S) /\ it[{}] = 0
    /\ \A d \in SUBSET S : d # {} => it[d] = f[Pick1(d)] + it[d \ {Pick1(d)}]

LEMMA SumIs == ASSUME NEW f, NEW S, IsFiniteSet(S) PROVE \E it : PartSums(f, S, it)
<1>. DEFINE it == CHOOSE it : it = SumBy(f, S, it)
<1>1. SumOver(f, S) = it[S]
  BY DEF SumOver
<1>2. it = SumBy(f, S, it)
  BY SumExists
<1>. HIDE DEF it
<1>3. \A d \in SUBSET S : it[d] = IF d = {} THEN 0 ELSE f[Pick1(d)] + it[d \ {Pick1(d)}]
  BY <1>2 DEF SumBy
<1>. QED
  BY <1>1, <1>3 DEF PartSums

(* A sum of naturals is one, and nothing exactly if every part is nothing. *)
LEMMA SumNat ==
    ASSUME NEW f, NEW S, IsFiniteSet(S), \A x \in S : f[x] \in Nat
    PROVE  /\ SumOver(f, S) \in Nat
           /\ SumOver(f, S) = 0 <=> \A x \in S : f[x] = 0
<1>1a. PICK it : PartSums(f, S, it)
  BY SumIs
<1>1. /\ it[S] = SumOver(f, S) /\ it[{}] = 0
      /\ \A d \in SUBSET S : d # {} => it[d] = f[Pick1(d)] + it[d \ {Pick1(d)}]
  BY <1>1a DEF PartSums
<1>. DEFINE Ok(d) == it[d] \in Nat /\ (it[d] = 0 <=> \A x \in d : f[x] = 0)
            K == {n \in Nat : \A d \in SUBSET S : Cardinality(d) = n => Ok(d)}
<1>2. 0 \in K
  <2>. SUFFICES ASSUME NEW d \in SUBSET S, Cardinality(d) = 0 PROVE Ok(d)
    OBVIOUS
  <2>1. d = {}
    BY FS_Subset, FS_EmptySet
  <2>. QED
    BY <1>1, <2>1
<1>3. ASSUME NEW n \in Nat, n \in K PROVE n + 1 \in K
  <2>. SUFFICES ASSUME NEW d \in SUBSET S, Cardinality(d) = n + 1 PROVE Ok(d)
    OBVIOUS
  <2>. DEFINE x == Pick1(d)  rest == d \ {x}
  <2>1. /\ d # {} /\ x \in d /\ x \in S /\ rest \in SUBSET S /\ Cardinality(rest) = n
    BY OneLess
  <2>2. Ok(rest)
    BY <1>3, <2>1
  <2>3. it[d] = f[x] + it[rest] /\ f[x] \in Nat
    BY <1>1, <2>1
  <2>. HIDE DEF x
  <2>. QED
    BY <2>1, <2>2, <2>3
<1>. HIDE DEF K
<1>4. Cardinality(S) \in K
  BY <1>2, <1>3, NatSetInduction, FS_CardinalityType
<1>5. Ok(S)
  BY <1>4 DEF K
<1>. QED
  BY <1>1, <1>5

(* A sum of which some parts grow by one.                                  *)
LEMMA SumShift ==
    ASSUME NEW f, NEW g, NEW S, IsFiniteSet(S), NEW T, \A x \in S : f[x] \in Nat,
           \A x \in S : g[x] = f[x] + (IF x \in T THEN 1 ELSE 0)
    PROVE  SumOver(g, S) = SumOver(f, S) + Cardinality(S \cap T)
<1>1a. PICK it : PartSums(f, S, it)
  BY SumIs
<1>1. /\ it[S] = SumOver(f, S) /\ it[{}] = 0
      /\ \A d \in SUBSET S : d # {} => it[d] = f[Pick1(d)] + it[d \ {Pick1(d)}]
  BY <1>1a DEF PartSums
<1>2a. PICK jt : PartSums(g, S, jt)
  BY SumIs
<1>2. /\ jt[S] = SumOver(g, S) /\ jt[{}] = 0
      /\ \A d \in SUBSET S : d # {} => jt[d] = g[Pick1(d)] + jt[d \ {Pick1(d)}]
  BY <1>2a DEF PartSums
<1>. DEFINE Ok(d) == it[d] \in Nat /\ jt[d] = it[d] + Cardinality(d \cap T)
            K == {n \in Nat : \A d \in SUBSET S : Cardinality(d) = n => Ok(d)}
<1>3. 0 \in K
  <2>. SUFFICES ASSUME NEW d \in SUBSET S, Cardinality(d) = 0 PROVE Ok(d)
    OBVIOUS
  <2>1. d = {}
    BY FS_Subset, FS_EmptySet
  <2>2. Cardinality(d \cap T) = 0
    BY <2>1, FS_EmptySet
  <2>. QED
    BY <1>1, <1>2, <2>1, <2>2
<1>4. ASSUME NEW n \in Nat, n \in K PROVE n + 1 \in K
  <2>. SUFFICES ASSUME NEW d \in SUBSET S, Cardinality(d) = n + 1 PROVE Ok(d)
    OBVIOUS
  <2>. DEFINE x == Pick1(d)  rest == d \ {x}  c == Cardinality(rest \cap T)
  <2>1. /\ d # {} /\ x \in d /\ x \in S /\ rest \in SUBSET S /\ Cardinality(rest) = n
    BY OneLess
  <2>2. Ok(rest)
    BY <1>4, <2>1
  <2>3. /\ it[d] = f[x] + it[rest] /\ jt[d] = g[x] + jt[rest] /\ f[x] \in Nat
        /\ g[x] = f[x] + (IF x \in T THEN 1 ELSE 0)
    BY <1>1, <1>2, <2>1
  <2>. HIDE DEF x
  <2>4. IsFiniteSet(rest \cap T) /\ c \in Nat
    BY <2>1, FS_Subset, FS_CardinalityType
  <2>5. CASE x \in T
    <3>1. d \cap T = (rest \cap T) \cup {x} /\ x \notin rest \cap T
      BY <2>1, <2>5
    <3>2. Cardinality(d \cap T) = c + 1
      BY <2>4, <3>1, FS_AddElement
    <3>. QED
      BY <2>2, <2>3, <2>4, <2>5, <3>2
  <2>6. CASE x \notin T
    <3>1. d \cap T = rest \cap T
      BY <2>1, <2>6
    <3>. QED
      BY <2>2, <2>3, <2>4, <2>6, <3>1
  <2>. QED
    BY <2>5, <2>6
<1>. HIDE DEF K
<1>5. Cardinality(S) \in K
  BY <1>3, <1>4, NatSetInduction, FS_CardinalityType
<1>6. Ok(S)
  BY <1>5 DEF K
<1>. QED
  BY <1>1, <1>2, <1>6

(* A sum of which one part goes.                                           *)
LEMMA SumLoses ==
    ASSUME NEW f, NEW g, NEW S, IsFiniteSet(S), NEW z \in S, \A x \in S : f[x] \in Nat,
           g[z] = 0, \A x \in S : x # z => g[x] = f[x]
    PROVE  SumOver(f, S) = SumOver(g, S) + f[z]
<1>1a. PICK it : PartSums(f, S, it)
  BY SumIs
<1>1. /\ it[S] = SumOver(f, S) /\ it[{}] = 0
      /\ \A d \in SUBSET S : d # {} => it[d] = f[Pick1(d)] + it[d \ {Pick1(d)}]
  BY <1>1a DEF PartSums
<1>2a. PICK jt : PartSums(g, S, jt)
  BY SumIs
<1>2. /\ jt[S] = SumOver(g, S) /\ jt[{}] = 0
      /\ \A d \in SUBSET S : d # {} => jt[d] = g[Pick1(d)] + jt[d \ {Pick1(d)}]
  BY <1>2a DEF PartSums
<1>. DEFINE Ok(d) == jt[d] \in Nat /\ it[d] = jt[d] + (IF z \in d THEN f[z] ELSE 0)
            K == {n \in Nat : \A d \in SUBSET S : Cardinality(d) = n => Ok(d)}
<1>3. 0 \in K
  <2>. SUFFICES ASSUME NEW d \in SUBSET S, Cardinality(d) = 0 PROVE Ok(d)
    OBVIOUS
  <2>1. d = {}
    BY FS_Subset, FS_EmptySet
  <2>. QED
    BY <1>1, <1>2, <2>1
<1>4. ASSUME NEW n \in Nat, n \in K PROVE n + 1 \in K
  <2>. SUFFICES ASSUME NEW d \in SUBSET S, Cardinality(d) = n + 1 PROVE Ok(d)
    OBVIOUS
  <2>. DEFINE x == Pick1(d)  rest == d \ {x}
  <2>1. /\ d # {} /\ x \in d /\ x \in S /\ rest \in SUBSET S /\ Cardinality(rest) = n
    BY OneLess
  <2>2. Ok(rest)
    BY <1>4, <2>1
  <2>3. it[d] = f[x] + it[rest] /\ jt[d] = g[x] + jt[rest] /\ f[x] \in Nat /\ f[z] \in Nat
    BY <1>1, <1>2, <2>1
  <2>. HIDE DEF x
  <2>5. CASE x = z
    <3>1. g[x] = 0 /\ z \in d /\ z \notin rest
      BY <2>1, <2>5
    <3>2. it[rest] = jt[rest] /\ jt[rest] \in Nat
      BY <2>2, <3>1
    <3>3. jt[d] = jt[rest] /\ it[d] = f[z] + jt[rest]
      BY ONLY <2>3, <2>5, <3>1, <3>2
    <3>. QED
      BY <2>3, <3>1, <3>2, <3>3
  <2>6. CASE x # z
    <3>1. g[x] = f[x] /\ (z \in d <=> z \in rest)
      BY <2>1, <2>6
    <3>2. jt[rest] \in Nat /\ it[rest] = jt[rest] + (IF z \in d THEN f[z] ELSE 0)
      BY <2>2, <3>1
    <3>3. jt[d] = f[x] + jt[rest] /\ it[d] = f[x] + it[rest]
      BY ONLY <2>3, <3>1
    <3>. QED
      BY ONLY <2>3, <3>2, <3>3
  <2>. QED
    BY <2>5, <2>6
<1>. HIDE DEF K
<1>5. Cardinality(S) \in K
  BY <1>3, <1>4, NatSetInduction, FS_CardinalityType
<1>6. Ok(S)
  BY <1>5 DEF K
<1>. QED
  BY <1>1, <1>2, <1>6

(* Whatever satisfies the equation of the fold is the sum.                 *)
LEMMA SumUnique ==
    ASSUME NEW f, NEW S, IsFiniteSet(S), NEW it, it = SumBy(f, S, it)
    PROVE  it[S] = SumOver(f, S)
<1>1a. PICK jt : PartSums(f, S, jt)
  BY SumIs
<1>1. /\ jt[S] = SumOver(f, S) /\ jt[{}] = 0
      /\ \A d \in SUBSET S : d # {} => jt[d] = f[Pick1(d)] + jt[d \ {Pick1(d)}]
  BY <1>1a DEF PartSums
<1>2. \A d \in SUBSET S : it[d] = IF d = {} THEN 0 ELSE f[Pick1(d)] + it[d \ {Pick1(d)}]
  BY DEF SumBy
<1>. DEFINE K == {n \in Nat : \A d \in SUBSET S : Cardinality(d) = n => it[d] = jt[d]}
<1>3. 0 \in K
  <2>. SUFFICES ASSUME NEW d \in SUBSET S, Cardinality(d) = 0 PROVE it[d] = jt[d]
    OBVIOUS
  <2>1. d = {}
    BY FS_Subset, FS_EmptySet
  <2>. QED
    BY <1>1, <1>2, <2>1
<1>4. ASSUME NEW n \in Nat, n \in K PROVE n + 1 \in K
  <2>. SUFFICES ASSUME NEW d \in SUBSET S, Cardinality(d) = n + 1 PROVE it[d] = jt[d]
    OBVIOUS
  <2>1. /\ d # {} /\ d \ {Pick1(d)} \in SUBSET S /\ Cardinality(d \ {Pick1(d)}) = n
    BY OneLess
  <2>. QED
    BY <1>1, <1>2, <1>4, <2>1
<1>. HIDE DEF K
<1>5. Cardinality(S) \in K
  BY <1>3, <1>4, NatSetInduction, FS_CardinalityType
<1>6. it[S] = jt[S]
  BY <1>5 DEF K
<1>. QED
  BY <1>1, <1>6

-----------------------------------------------------------------------------
(* Counting the elements of a sequence that belong to a set.               *)

Places(q, T) == {i \in DOMAIN q : q[i] \in T}
Count(q, T) == Cardinality(Places(q, T))

LEMMA CountFinite ==
    ASSUME NEW S, NEW q \in Seq(S), NEW T
    PROVE  /\ IsFiniteSet(Places(q, T))
           /\ Count(q, T) \in Nat
<1>1. IsFiniteSet(1..Len(q)) /\ DOMAIN q = 1..Len(q)
  BY FS_Interval
<1>2. Places(q, T) \in SUBSET (1..Len(q))
  BY <1>1 DEF Places
<1>. QED
  BY <1>1, <1>2, FS_Subset, FS_CardinalityType DEF Count

LEMMA CountEmpty == \A T : Count(<<>>, T) = 0
<1>1. \A T : Places(<<>>, T) = {}
  BY DEF Places
<1>. QED
  BY <1>1, FS_EmptySet DEF Count

(* Nothing is counted exactly when nothing of T is there.                  *)
LEMMA CountZero ==
    ASSUME NEW S, NEW q \in Seq(S), NEW T
    PROVE  Count(q, T) = 0 <=> \A i \in DOMAIN q : q[i] \notin T
<1>1. Count(q, T) = 0 <=> Places(q, T) = {}
  BY CountFinite, FS_EmptySet DEF Count
<1>2. Places(q, T) = {} <=> \A i \in DOMAIN q : q[i] \notin T
  BY DEF Places
<1>. QED  BY <1>1, <1>2

(* A set with one element more.                                            *)
LEMMA OneMore ==
    ASSUME NEW A, NEW B, NEW x, IsFiniteSet(A), x \notin A, B = A \cup {x}
    PROVE  Cardinality(B) = Cardinality(A) + 1
BY FS_AddElement

LEMMA CountAppend ==
    ASSUME NEW S, NEW q \in Seq(S), NEW e \in S, NEW T
    PROVE  Count(Append(q, e), T) = Count(q, T) + (IF e \in T THEN 1 ELSE 0)
<1>1. IsFiniteSet(Places(q, T)) /\ Count(q, T) \in Nat
  BY CountFinite
<1>2. CASE e \in T
  <2>1. /\ Places(Append(q, e), T) = Places(q, T) \cup {Len(q) + 1}
        /\ Len(q) + 1 \notin Places(q, T)
    BY <1>2 DEF Places
  <2>2. Count(Append(q, e), T) = Count(q, T) + 1
    BY <1>1, <2>1, OneMore DEF Count
  <2>. QED  BY <1>2, <2>2
<1>3. CASE e \notin T
  <2>1. Places(Append(q, e), T) = Places(q, T)
    BY <1>3 DEF Places
  <2>2. Count(Append(q, e), T) = Count(q, T)
    BY <2>1 DEF Count
  <2>. QED  BY <1>1, <1>3, <2>2
<1>. QED  BY <1>2, <1>3

(* A function that pairs the elements of A and B.                          *)
LEMMA SameCount ==
    ASSUME NEW A, NEW B, NEW f, IsFiniteSet(A),
           f \in [A -> B], \A i, j \in A : f[i] = f[j] => i = j,
           \A j \in B : \E i \in A : f[i] = j
    PROVE  IsFiniteSet(B) /\ Cardinality(B) = Cardinality(A)
<1>1. f \in Bijection(A, B)
  BY DEF Bijection, Injection, Surjection, IsInjective
<1>. QED  BY <1>1, FS_Bijection DEF ExistsBijection

LEMMA CountTail ==
    ASSUME NEW S, NEW q \in Seq(S), q # <<>>, NEW T
    PROVE  Count(q, T) = Count(Tail(q), T) + (IF Head(q) \in T THEN 1 ELSE 0)
<1>. DEFINE later == Places(q, T) \ {1}
<1>1. /\ Len(q) \in Nat \ {0} /\ DOMAIN q = 1..Len(q)
      /\ Tail(q) \in Seq(S) /\ DOMAIN Tail(q) = 1..(Len(q) - 1)
      /\ \A i \in 1..(Len(q) - 1) : Tail(q)[i] = q[i + 1]
      /\ Head(q) = q[1]
  BY HeadTailProperties, EmptySeq, LenProperties
<1>2. /\ IsFiniteSet(Places(Tail(q), T)) /\ Count(Tail(q), T) \in Nat
      /\ IsFiniteSet(Places(q, T)) /\ Count(q, T) \in Nat
  BY <1>1, CountFinite
<1>. DEFINE A == Places(Tail(q), T)
            f == [i \in A |-> i + 1]
<1>3. /\ f \in [A -> later]
      /\ \A i, j \in A : f[i] = f[j] => i = j
      /\ \A j \in later : \E i \in A : f[i] = j
  <2>1. /\ A \subseteq Int /\ later \subseteq Int
        /\ \A i \in A : i + 1 \in later
        /\ \A j \in later : j - 1 \in A /\ (j - 1) + 1 = j
    BY <1>1 DEF Places
  <2>. HIDE DEF later, A
  <2>. QED  BY <2>1
<1>4. IsFiniteSet(later) /\ Cardinality(later) = Count(Tail(q), T)
  <2>. HIDE DEF later, f
  <2>. QED  BY <1>2, <1>3, SameCount DEF Count
<1>5. CASE Head(q) \in T
  <2>1. Places(q, T) = later \cup {1} /\ 1 \notin later
    BY <1>1, <1>5 DEF Places
  <2>. HIDE DEF later
  <2>2. Count(q, T) = Count(Tail(q), T) + 1
    BY <1>4, <2>1, OneMore DEF Count
  <2>. QED  BY <1>5, <2>2
<1>6. CASE Head(q) \notin T
  <2>1. Places(q, T) = later
    BY <1>1, <1>6 DEF Places
  <2>2. Count(q, T) = Count(Tail(q), T)
    BY <1>4, <2>1 DEF Count
  <2>. QED  BY <1>2, <1>6, <2>2
<1>. QED  BY <1>5, <1>6

LEMMA CountConcat ==
    ASSUME NEW S, NEW p \in Seq(S), NEW q \in Seq(S), NEW T
    PROVE  Count(p \o q, T) = Count(p, T) + Count(q, T)
<1>. DEFINE moved == {i \in Places(p \o q, T) : i > Len(p)}
<1>1. /\ Len(p) \in Nat /\ Len(q) \in Nat
      /\ DOMAIN (p \o q) = 1..(Len(p) + Len(q))
      /\ DOMAIN p = 1..Len(p) /\ DOMAIN q = 1..Len(q)
      /\ \A i \in 1..(Len(p) + Len(q)) :
            (p \o q)[i] = IF i <= Len(p) THEN p[i] ELSE q[i - Len(p)]
  BY ConcatProperties, LenProperties
<1>2. /\ IsFiniteSet(Places(p, T)) /\ Count(p, T) \in Nat
      /\ IsFiniteSet(Places(q, T)) /\ Count(q, T) \in Nat
  BY CountFinite
<1>. DEFINE A == Places(q, T)
            f == [i \in A |-> i + Len(p)]
<1>3. /\ f \in [A -> moved]
      /\ \A i, j \in A : f[i] = f[j] => i = j
      /\ \A j \in moved : \E i \in A : f[i] = j
  <2>1. /\ A \subseteq Int /\ moved \subseteq Int
        /\ \A i \in A : i + Len(p) \in moved
        /\ \A j \in moved : j - Len(p) \in A /\ (j - Len(p)) + Len(p) = j
    BY <1>1 DEF Places
  <2>2. Len(p) \in Int
    BY <1>1
  <2>. HIDE DEF moved, A
  <2>3. f \in [A -> moved] /\ \A i \in A : f[i] = i + Len(p)
    BY <2>1
  <2>4. \A i, j \in A : i + Len(p) = j + Len(p) => i = j
    BY <2>1, <2>2
  <2>. HIDE DEF f
  <2>5. \A i, j \in A : f[i] = f[j] => i = j
    BY <2>3, <2>4
  <2>6. \A j \in moved : \E i \in A : f[i] = j
    BY <2>1, <2>3
  <2>. QED  BY <2>3, <2>5, <2>6
<1>4. Places(p \o q, T) = Places(p, T) \cup moved /\ Places(p, T) \cap moved = {}
  BY <1>1 DEF Places
<1>. HIDE DEF moved, f
<1>5. IsFiniteSet(moved) /\ Cardinality(moved) = Count(q, T)
  BY <1>1, <1>2, <1>3, SameCount DEF Count
<1>6. Cardinality(Places(p \o q, T))
        = Count(p, T) + Count(q, T) - Cardinality({})
  BY <1>2, <1>4, <1>5, FS_Union DEF Count
<1>7. Cardinality({}) = 0
  BY FS_EmptySet
<1>. QED  BY <1>2, <1>6, <1>7 DEF Count

(* The fold of + over a function is a sum.                                 *)
LEMMA FoldIsSum ==
    ASSUME NEW f, NEW S, IsFiniteSet(S)
    PROVE  FoldFunctionOnSet(LAMBDA n, m : n + m, 0, f, S) = SumOver(f, S)
<1>. DEFINE F(it) == [d \in SUBSET S |->
                        IF d = {} THEN 0 ELSE f[Pick1(d)] + it[d \ {Pick1(d)}]]
            it1 == CHOOSE it : it = F(it)
<1>2. FoldFunctionOnSet(LAMBDA n, m : n + m, 0, f, S) = it1[S]
  BY DEF FoldFunctionOnSet, MapThenFoldSet, Pick1
<1>3. it1 = F(it1)
  <2>0. \A it : F(it) = SumBy(f, S, it)
    BY DEF SumBy
  <2>1. \E it : it = F(it)
    <3>1. PICK it : it = SumBy(f, S, it)
      BY SumExists
    <3>. HIDE DEF F
    <3>. QED
      BY <2>0, <3>1
  <2>. HIDE DEF F
  <2>. QED
    BY <2>1
<1>4. it1 = SumBy(f, S, it1)
  BY <1>3 DEF SumBy
<1>. HIDE DEF it1
<1>. QED
  BY <1>2, <1>4, SumUnique

(* A set has one element or none in common with a singleton.              *)
LEMMA OneAtMost ==
    ASSUME NEW S, NEW j
    PROVE  Cardinality(S \cap {j}) = IF j \in S THEN 1 ELSE 0
<1>1. CASE j \in S
  <2>1. S \cap {j} = {j}
    BY <1>1
  <2>. QED
    BY <1>1, <2>1, FS_Singleton
<1>2. CASE j \notin S
  <2>1. S \cap {j} = {}
    BY <1>2
  <2>. QED
    BY <1>2, <2>1, FS_EmptySet
<1>. QED
  BY <1>1, <1>2

-----------------------------------------------------------------------------
(* A fold over a sequence applies to the value so far the function of each *)
(* place in turn.                                                          *)
FoldSteps(base, F, n, it) ==
    [d \in SUBSET (1 .. n) |-> IF d = {} THEN base ELSE F[Max(d)][it[d \ {Max(d)}]]]

HasFold(X, base, F, n) ==
    \E it \in [SUBSET (1 .. n) -> X] : it = FoldSteps(base, F, n, it)

LEMMA FoldStepsExist ==
    ASSUME NEW X, NEW base \in X, NEW n \in Nat, NEW F \in [1 .. n -> [X -> X]]
    PROVE  HasFold(X, base, F, n)
<1>. DEFINE Ex(k) == \E it \in [SUBSET (1 .. k) -> X] : it = FoldSteps(base, F, k, it)
            S == {k \in Nat : k <= n => Ex(k)}
<1>1. 0 \in S
  <2>1. \A d \in SUBSET (1 .. 0) : d = {}
    <3>1. 1 .. 0 = {}
      OBVIOUS
    <3>. QED
      BY <3>1
  <2>. DEFINE it == [d \in SUBSET (1 .. 0) |-> base]
  <2>2. it = FoldSteps(base, F, 0, it) /\ it \in [SUBSET (1 .. 0) -> X]
    BY <2>1 DEF FoldSteps
  <2>. QED
    BY <2>2
<1>2. ASSUME NEW k \in Nat, k \in S PROVE k + 1 \in S
  <2>. SUFFICES ASSUME k + 1 <= n PROVE Ex(k + 1)
    <3>. HIDE DEF Ex
    <3>. QED
      OBVIOUS
  <2>0. Ex(k)
    <3>. HIDE DEF Ex
    <3>. QED
      BY <1>2
  <2>1. PICK old \in [SUBSET (1 .. k) -> X] : old = FoldSteps(base, F, k, old)
    BY <2>0
  <2>. DEFINE new == FoldSteps(base, F, k + 1, old)
  <2>2. ASSUME NEW d \in SUBSET (1 .. k) PROVE new[d] = old[d]
    <3>1. d \in SUBSET (1 .. k + 1)
      OBVIOUS
    <3>2. /\ new[d] = IF d = {} THEN base ELSE F[Max(d)][old[d \ {Max(d)}]]
          /\ FoldSteps(base, F, k, old)[d] =
                IF d = {} THEN base ELSE F[Max(d)][old[d \ {Max(d)}]]
      BY <3>1 DEF FoldSteps
    <3>. QED
      BY <2>1, <3>2
  <2>3. ASSUME NEW d \in SUBSET (1 .. k + 1), d # {}
        PROVE  /\ d \ {Max(d)} \in SUBSET (1 .. k) /\ Max(d) \in 1 .. n
               /\ new[d \ {Max(d)}] = old[d \ {Max(d)}]
    <3>. HIDE DEF new
    <3>1. Max(d) \in 1 .. k + 1 /\ d \ {Max(d)} \in SUBSET (1 .. k)
      BY <2>3, WithoutLast
    <3>. QED
      BY <2>2, <3>1
  <2>4. new \in [SUBSET (1 .. k + 1) -> X]
    <3>1. ASSUME NEW d \in SUBSET (1 .. k + 1), d # {}
          PROVE  F[Max(d)][old[d \ {Max(d)}]] \in X
      <4>1. Max(d) \in 1 .. n /\ d \ {Max(d)} \in SUBSET (1 .. k)
        BY <2>3, <3>1
      <4>2. F[Max(d)] \in [X -> X] /\ old[d \ {Max(d)}] \in X
        BY <4>1
      <4>. QED
        BY ONLY <4>2
    <3>. QED
      BY <3>1 DEF FoldSteps
  <2>5. new = FoldSteps(base, F, k + 1, new)
    <3>1. new = [d \in SUBSET (1 .. k + 1) |->
                    IF d = {} THEN base ELSE F[Max(d)][old[d \ {Max(d)}]]]
      BY DEF FoldSteps
    <3>. HIDE DEF new
    <3>2. \A d \in SUBSET (1 .. k + 1) :
             (IF d = {} THEN base ELSE F[Max(d)][old[d \ {Max(d)}]])
           = (IF d = {} THEN base ELSE F[Max(d)][new[d \ {Max(d)}]])
      BY <2>3
    <3>. QED
      BY <3>1, <3>2 DEF FoldSteps
  <2>. HIDE DEF new
  <2>. QED
    BY <2>4, <2>5
<1>. HIDE DEF S
<1>3. n \in S
  BY <1>1, <1>2, NatSetInduction
<1>4. Ex(n)
  <2>. HIDE DEF Ex
  <2>. QED
    BY <1>3 DEF S
<1>. QED
  BY <1>4 DEF HasFold

(* The sum of what a function gives for the members of a set.              *)
LEMMA MapSumIsSum ==
    ASSUME NEW f, NEW S, IsFiniteSet(S)
    PROVE  MapThenSumSet(LAMBDA x : f[x], S) = SumOver(f, S)
<1>. DEFINE F(it) == [d \in SUBSET S |->
                        IF d = {} THEN 0 ELSE f[Pick1(d)] + it[d \ {Pick1(d)}]]
            it1 == CHOOSE it : it = F(it)
<1>2. MapThenSumSet(LAMBDA x : f[x], S) = it1[S]
  BY DEF MapThenSumSet, MapThenFoldSet, Pick1
<1>3. it1 = F(it1)
  <2>0. \A it : F(it) = SumBy(f, S, it)
    BY DEF SumBy
  <2>1. \E it : it = F(it)
    <3>1. PICK it : it = SumBy(f, S, it)
      BY SumExists
    <3>. HIDE DEF F
    <3>. QED
      BY <2>0, <3>1
  <2>. HIDE DEF F
  <2>. QED
    BY <2>1
<1>4. it1 = SumBy(f, S, it1)
  BY <1>3 DEF SumBy
<1>. HIDE DEF it1
<1>. QED
  BY <1>2, <1>4, SumUnique

-----------------------------------------------------------------------------
(* The elements of a sequence that are in a set.                           *)
Chosen(s, S) == FoldLeft(LAMBDA q, i : IF i \in S THEN Append(q, i) ELSE q, <<>>, s)
Chosen1(q, i, S) == IF i \in S THEN Append(q, i) ELSE q

ChosenAlong(f, s, S) ==
    /\ f[0] = <<>> /\ f[Len(s)] = Chosen(s, S)
    /\ \A k \in 0 .. Len(s) - 1 : f[k + 1] = Chosen1(f[k], s[k + 1], S)
HasChosen(s, S) == \E f : ChosenAlong(f, s, S)

LEMMA ChosenSteps ==
    ASSUME NEW T, NEW s \in Seq(T), NEW S
    PROVE  HasChosen(s, S)
<1>. DEFINE n == Len(s)
            F == [k \in 1 .. n |-> [q \in Seq(T) |-> Chosen1(q, s[k], S)]]
            G(it) == [d \in SUBSET (1 .. n) |-> IF d = {} THEN <<>>
                          ELSE IF s[Max(d)] \in S THEN Append(it[d \ {Max(d)}], s[Max(d)])
                               ELSE it[d \ {Max(d)}]]
            it1 == CHOOSE it : it = G(it)
<1>1. n \in Nat /\ DOMAIN s = 1 .. n
  OBVIOUS
<1>2. Chosen(s, S) = it1[1 .. n]
  BY <1>1 DEF Chosen, FoldLeft, MapThenFoldSet
<1>. HIDE DEF n
<1>3. F \in [1 .. n -> [Seq(T) -> Seq(T)]]
  BY <1>1 DEF Chosen1
<1>4. /\ <<>> \in Seq(T)
      /\ \A k \in 1 .. n, q \in Seq(T) : F[k][q] = Chosen1(q, s[k], S)
  OBVIOUS
<1>. HIDE DEF F
<1>5a. HasFold(Seq(T), <<>>, F, n)
  BY ONLY <1>1, <1>3, <1>4, FoldStepsExist
<1>5. PICK jt \in [SUBSET (1 .. n) -> Seq(T)] : jt = FoldSteps(<<>>, F, n, jt)
  BY <1>5a DEF HasFold
<1>6. jt = G(jt)
  <2>1. ASSUME NEW d \in SUBSET (1 .. n), d # {}
        PROVE  F[Max(d)][jt[d \ {Max(d)}]] = Chosen1(jt[d \ {Max(d)}], s[Max(d)], S)
    <3>1. Max(d) \in 1 .. n
      BY <1>1, <2>1, PositionsHaveMax
    <3>2. jt[d \ {Max(d)}] \in Seq(T)
      BY <2>1
    <3>. QED
      BY <1>4, <3>1, <3>2
  <2>2. FoldSteps(<<>>, F, n, jt) = G(jt)
    BY <2>1 DEF FoldSteps, Chosen1
  <2>. QED
    BY <1>5, <2>2
<1>7. it1 = G(it1)
  <2>. HIDE DEF G
  <2>. QED
    BY <1>6
<1>. HIDE DEF it1, F
<1>. DEFINE f == [k \in 0 .. n |-> it1[1 .. k]]
<1>8. \A d \in SUBSET (1 .. n) : it1[d] = IF d = {} THEN <<>>
                                         ELSE Chosen1(it1[d \ {Max(d)}], s[Max(d)], S)
  BY <1>7 DEF Chosen1
<1>9. f[0] = <<>>
  <2>1. 1 .. 0 = {} /\ {} \in SUBSET (1 .. n) /\ 0 \in 0 .. n
    BY <1>1
  <2>. QED
    BY <1>8, <2>1
<1>10. ASSUME NEW k \in 0 .. n - 1 PROVE f[k + 1] = Chosen1(f[k], s[k + 1], S)
  <2>1. /\ 1 .. k + 1 \in SUBSET (1 .. n) /\ k \in Nat
        /\ k \in 0 .. n /\ k + 1 \in 0 .. n
    BY <1>1
  <2>2. /\ Max(1 .. k + 1) = k + 1 /\ (1 .. k + 1) \ {k + 1} = 1 .. k
        /\ 1 .. k + 1 # {}
    BY <2>1, LastPosition
  <2>3. it1[1 .. k + 1] = Chosen1(it1[1 .. k], s[k + 1], S)
    BY <1>8, <2>1, <2>2
  <2>. QED
    BY <2>1, <2>3
<1>11. f[n] = Chosen(s, S)
  BY <1>1, <1>2
<1>12. ChosenAlong(f, s, S)
  BY <1>9, <1>10, <1>11 DEF n, ChosenAlong
<1>. QED
  BY <1>12 DEF HasChosen

(* Induction over sequences, by appending.                                 *)
LEMMA SeqSetInduction ==
    ASSUME NEW T, NEW K, <<>> \in K,
           \A s \in Seq(T), x \in T : s \in K => Append(s, x) \in K
    PROVE  Seq(T) \subseteq K
<1>. DEFINE N == {n \in Nat : \A s \in Seq(T) : Len(s) = n => s \in K}
<1>1. 0 \in N
  BY EmptySeq
<1>2. ASSUME NEW n \in Nat, n \in N PROVE n + 1 \in N
  <2>. SUFFICES ASSUME NEW s \in Seq(T), Len(s) = n + 1 PROVE s \in K
    OBVIOUS
  <2>. DEFINE r == SubSeq(s, 1, n)
  <2>1. r \in Seq(T) /\ Len(r) = n /\ s[n + 1] \in T /\ s = Append(r, s[n + 1])
    OBVIOUS
  <2>2. r \in K
    BY <1>2, <2>1
  <2>. HIDE DEF r
  <2>. QED
    BY <2>1, <2>2
<1>. HIDE DEF N
<1>3. Nat \subseteq N
  BY <1>1, <1>2, NatSetInduction
<1>. QED
  BY <1>3 DEF N

LEMMA ChosenEmpty == \A S : Chosen(<<>>, S) = <<>>
<1>. SUFFICES ASSUME NEW S PROVE Chosen(<<>>, S) = <<>>
  OBVIOUS
<1>1. <<>> \in Seq({}) /\ Len(<<>>) = 0
  OBVIOUS
<1>2a. HasChosen(<<>>, S)
  BY <1>1, ChosenSteps
<1>2. PICK f : f[0] = <<>> /\ f[Len(<<>>)] = Chosen(<<>>, S)
  BY <1>2a DEF HasChosen, ChosenAlong
<1>. QED
  BY <1>1, <1>2

LEMMA ChosenAppend ==
    ASSUME NEW T, NEW s \in Seq(T), NEW x \in T, NEW S
    PROVE  Chosen(Append(s, x), S) = Chosen1(Chosen(s, S), x, S)
<1>. DEFINE n == Len(s)  t == Append(s, x)
<1>1. /\ n \in Nat /\ t \in Seq(T) /\ Len(t) = n + 1 /\ t[n + 1] = x
      /\ \A k \in 1 .. n : t[k] = s[k]
  OBVIOUS
<1>. HIDE DEF t
<1>2a. HasChosen(s, S) /\ HasChosen(t, S)
  BY <1>1, ChosenSteps
<1>2. PICK f : /\ f[0] = <<>> /\ f[Len(s)] = Chosen(s, S)
               /\ \A k \in 0 .. Len(s) - 1 : f[k + 1] = Chosen1(f[k], s[k + 1], S)
  BY <1>2a DEF HasChosen, ChosenAlong
<1>3. PICK g : /\ g[0] = <<>> /\ g[Len(t)] = Chosen(t, S)
               /\ \A k \in 0 .. Len(t) - 1 : g[k + 1] = Chosen1(g[k], t[k + 1], S)
  BY <1>2a DEF HasChosen, ChosenAlong
<1>. DEFINE K == {k \in Nat : k <= n => f[k] = g[k]}
<1>4. 0 \in K
  BY <1>2, <1>3
<1>5. ASSUME NEW k \in Nat, k \in K PROVE k + 1 \in K
  <2>. SUFFICES ASSUME k + 1 <= n PROVE f[k + 1] = g[k + 1]
    OBVIOUS
  <2>1. k \in 0 .. Len(s) - 1 /\ k \in 0 .. Len(t) - 1 /\ k + 1 \in 1 .. n /\ f[k] = g[k]
    BY <1>1, <1>5
  <2>. QED
    BY <1>1, <1>2, <1>3, <2>1
<1>. HIDE DEF K
<1>6. n \in K
  BY <1>1, <1>4, <1>5, NatSetInduction
<1>7. f[n] = g[n] /\ n \in 0 .. Len(t) - 1
  BY <1>1, <1>6 DEF K
<1>8. g[n + 1] = Chosen1(g[n], t[n + 1], S)
  BY <1>3, <1>7
<1>. QED
  BY <1>1, <1>2, <1>3, <1>7, <1>8 DEF t

LEMMA InToSet ==
    ASSUME NEW s, NEW x
    PROVE  x \in ToSet(s) <=> \E k \in DOMAIN s : s[k] = x
BY DEF ToSet

LEMMA EmptyToSet == ToSet(<<>>) = {} /\ \A T : <<>> \in Seq(T)
BY DEF ToSet

LEMMA ToSetIn == ASSUME NEW T, NEW s \in Seq(T) PROVE ToSet(s) \subseteq T
BY DEF ToSet

LEMMA ToSetEmpty ==
    ASSUME NEW T, NEW s \in Seq(T), ToSet(s) = {}
    PROVE  s = <<>>
<1>1. Len(s) \in Nat /\ DOMAIN s = 1 .. Len(s)
  OBVIOUS
<1>2. DOMAIN s = {}
  BY InToSet
<1>3. Len(s) = 0
  BY <1>1, <1>2
<1>. QED
  BY <1>3, EmptySeq

LEMMA AppendToSet ==
    ASSUME NEW T, NEW s \in Seq(T), NEW x
    PROVE  ToSet(Append(s, x)) = ToSet(s) \cup {x}
<1>1. /\ DOMAIN s = 1 .. Len(s) /\ DOMAIN Append(s, x) = 1 .. Len(s) + 1
      /\ Len(s) \in Nat
      /\ Append(s, x)[Len(s) + 1] = x /\ \A k \in 1 .. Len(s) : Append(s, x)[k] = s[k]
  OBVIOUS
<1>2. 1 .. Len(s) + 1 = (1 .. Len(s)) \cup {Len(s) + 1}
  BY <1>1
<1>. QED
  BY <1>1, <1>2 DEF ToSet

LEMMA ConcatToSet ==
    ASSUME NEW T, NEW s \in Seq(T), NEW t \in Seq(T)
    PROVE  ToSet(s \o t) = ToSet(s) \cup ToSet(t)
<1>. DEFINE n == Len(s)  m == Len(t)  q == s \o t
<1>1. /\ DOMAIN s = 1 .. n /\ DOMAIN t = 1 .. m /\ DOMAIN q = 1 .. n + m
      /\ n \in Nat /\ m \in Nat
      /\ \A k \in 1 .. n : q[k] = s[k]
      /\ \A k \in 1 .. m : q[n + k] = t[k]
  OBVIOUS
<1>. HIDE DEF n, m, q
<1>2. ASSUME NEW k \in 1 .. n + m PROVE k \in 1 .. n \/ (k - n \in 1 .. m /\ k = n + (k - n))
  BY <1>1
<1>3. ASSUME NEW k \in 1 .. m PROVE n + k \in 1 .. n + m
  BY <1>1
<1>4. ASSUME NEW k \in 1 .. n PROVE k \in 1 .. n + m
  BY <1>1
<1>5. ASSUME NEW x \in ToSet(q) PROVE x \in ToSet(s) \cup ToSet(t)
  <2>1. PICK k \in 1 .. n + m : q[k] = x
    BY <1>1, <1>5, InToSet
  <2>2. CASE k \in 1 .. n
    BY <1>1, <2>1, <2>2, InToSet
  <2>3. CASE k - n \in 1 .. m /\ k = n + (k - n)
    <3>1. t[k - n] = x
      BY <1>1, <2>1, <2>3
    <3>. QED
      BY <1>1, <2>3, <3>1, InToSet
  <2>. QED
    BY <1>2, <2>2, <2>3
<1>6. ASSUME NEW x \in ToSet(s) PROVE x \in ToSet(q)
  <2>1. PICK k \in 1 .. n : s[k] = x
    BY <1>1, <1>6, InToSet
  <2>. QED
    BY <1>1, <1>4, <2>1, InToSet
<1>7. ASSUME NEW x \in ToSet(t) PROVE x \in ToSet(q)
  <2>1. PICK k \in 1 .. m : t[k] = x
    BY <1>1, <1>7, InToSet
  <2>2. q[n + k] = x /\ n + k \in DOMAIN q
    BY <1>1, <1>3, <2>1
  <2>. QED
    BY <2>2, InToSet
<1>. QED
  BY <1>5, <1>6, <1>7 DEF q

(* It is a sequence of what is in both.                                    *)
LEMMA ChosenIs ==
    ASSUME NEW T, NEW s \in Seq(T), NEW S
    PROVE  Chosen(s, S) \in Seq(T) /\ ToSet(Chosen(s, S)) = ToSet(s) \cap S
<1>. DEFINE K == {q \in Seq(T) : /\ Chosen(q, S) \in Seq(T)
                                 /\ ToSet(Chosen(q, S)) = ToSet(q) \cap S}
<1>1. <<>> \in K
  BY ChosenEmpty, EmptyToSet
<1>2. ASSUME NEW q \in Seq(T), NEW x \in T, q \in K PROVE Append(q, x) \in K
  <2>. DEFINE a == Chosen(q, S)  b == Chosen(Append(q, x), S)
  <2>1. /\ b = Chosen1(a, x, S)
        /\ ToSet(Append(q, x)) = ToSet(q) \cup {x} /\ Append(q, x) \in Seq(T)
    BY ChosenAppend, AppendToSet
  <2>2. a \in Seq(T) /\ ToSet(a) = ToSet(q) \cap S
    BY <1>2
  <2>. SUFFICES b \in Seq(T) /\ ToSet(b) = ToSet(Append(q, x)) \cap S
    BY <2>1
  <2>. HIDE DEF a, b
  <2>3. ToSet(Append(a, x)) = ToSet(a) \cup {x} /\ Append(a, x) \in Seq(T)
    BY <2>2, AppendToSet
  <2>4. CASE x \in S
    <3>1. b = Append(a, x)
      BY <2>1, <2>4 DEF Chosen1
    <3>. QED
      BY <2>1, <2>2, <2>3, <2>4, <3>1
  <2>5. CASE x \notin S
    <3>1. b = a
      BY <2>1, <2>5 DEF Chosen1
    <3>. QED
      BY <2>1, <2>2, <2>5, <3>1
  <2>. QED
    BY <2>4, <2>5
<1>. HIDE DEF K
<1>3. s \in K
  BY <1>1, <1>2, SeqSetInduction
<1>. QED
  BY <1>3 DEF K

LEMMA ChosenConcat ==
    ASSUME NEW T, NEW s \in Seq(T), NEW t \in Seq(T), NEW S
    PROVE  Chosen(s \o t, S) = Chosen(s, S) \o Chosen(t, S)
<1>. DEFINE K == {q \in Seq(T) : Chosen(s \o q, S) = Chosen(s, S) \o Chosen(q, S)}
<1>1. <<>> \in K
  <2>1. Chosen(s, S) \in Seq(T) /\ \A q \in Seq(T) : q \o <<>> = q
    BY ChosenIs, ConcatEmptySeq
  <2>2. Chosen(s \o <<>>, S) = Chosen(s, S) /\ Chosen(s, S) \o <<>> = Chosen(s, S)
    BY <2>1
  <2>. QED
    BY <2>2, ChosenEmpty, EmptyToSet
<1>2. ASSUME NEW q \in Seq(T), NEW x \in T, q \in K PROVE Append(q, x) \in K
  <2>. DEFINE a == Chosen(s, S)  b == Chosen(q, S)
  <2>1. s \o Append(q, x) = Append(s \o q, x) /\ s \o q \in Seq(T)
    OBVIOUS
  <2>2. a \in Seq(T) /\ b \in Seq(T)
    BY ChosenIs
  <2>3. /\ Chosen(Append(s \o q, x), S) = Chosen1(Chosen(s \o q, S), x, S)
        /\ Chosen(Append(q, x), S) = Chosen1(b, x, S)
    BY <2>1, ChosenAppend
  <2>4. Chosen(s \o q, S) = a \o b
    BY <1>2
  <2>. HIDE DEF a, b
  <2>5. a \o Append(b, x) = Append(a \o b, x)
    BY <2>2
  <2>6. Chosen1(a \o b, x, S) = a \o Chosen1(b, x, S)
    BY <2>5 DEF Chosen1
  <2>7. Chosen(s \o Append(q, x), S) = a \o Chosen(Append(q, x), S)
    BY <2>1, <2>3, <2>4, <2>6
  <2>8. Append(q, x) \in Seq(T)
    OBVIOUS
  <2>. QED
    BY <2>7, <2>8 DEF a
<1>. HIDE DEF K
<1>3. t \in K
  BY <1>1, <1>2, SeqSetInduction
<1>. QED
  BY <1>3 DEF K

LEMMA ChosenTwice ==
    ASSUME NEW T, NEW s \in Seq(T), NEW R, NEW S
    PROVE  Chosen(Chosen(s, S), R) = Chosen(s, S \cap R)
<1>. DEFINE K == {q \in Seq(T) : Chosen(Chosen(q, S), R) = Chosen(q, S \cap R)}
<1>1. <<>> \in K
  BY ChosenEmpty
<1>2. ASSUME NEW q \in Seq(T), NEW x \in T, q \in K PROVE Append(q, x) \in K
  <2>. DEFINE a == Chosen(q, S)
  <2>1. /\ Chosen(Append(q, x), S) = Chosen1(a, x, S)
        /\ Chosen(Append(q, x), S \cap R) = Chosen1(Chosen(q, S \cap R), x, S \cap R)
    BY ChosenAppend
  <2>2. a \in Seq(T)
    BY ChosenIs
  <2>3. Chosen(a, R) = Chosen(q, S \cap R)
    BY <1>2
  <2>. HIDE DEF a
  <2>4. Chosen(Append(a, x), R) = Chosen1(Chosen(a, R), x, R)
    BY <2>2, ChosenAppend
  <2>5. Chosen(Chosen1(a, x, S), R) = Chosen1(Chosen(q, S \cap R), x, S \cap R)
    <3>1. CASE x \in S
      BY <2>3, <2>4, <3>1 DEF Chosen1
    <3>2. CASE x \notin S
      BY <2>3, <3>2 DEF Chosen1
    <3>. QED
      BY <3>1, <3>2
  <2>6. Append(q, x) \in Seq(T)
    OBVIOUS
  <2>. QED
    BY <2>1, <2>5, <2>6
<1>. HIDE DEF K
<1>3. s \in K
  BY <1>1, <1>2, SeqSetInduction
<1>. QED
  BY <1>3 DEF K

(* Only what is in the sequence matters.                                   *)
LEMMA ChosenSame ==
    ASSUME NEW T, NEW s \in Seq(T), NEW R, NEW S, ToSet(s) \cap R = ToSet(s) \cap S
    PROVE  Chosen(s, R) = Chosen(s, S)
<1>. DEFINE K == {q \in Seq(T) : ToSet(q) \cap R = ToSet(q) \cap S
                                    => Chosen(q, R) = Chosen(q, S)}
<1>1. <<>> \in K
  BY ChosenEmpty
<1>2. ASSUME NEW q \in Seq(T), NEW x \in T, q \in K PROVE Append(q, x) \in K
  <2>1. /\ Chosen(Append(q, x), S) = Chosen1(Chosen(q, S), x, S)
        /\ Chosen(Append(q, x), R) = Chosen1(Chosen(q, R), x, R)
        /\ ToSet(Append(q, x)) = ToSet(q) \cup {x} /\ Append(q, x) \in Seq(T)
    BY ChosenAppend, AppendToSet
  <2>. QED
    BY <1>2, <2>1 DEF Chosen1
<1>. HIDE DEF K
<1>3. s \in K
  BY <1>1, <1>2, SeqSetInduction
<1>. QED
  BY <1>3 DEF K

LEMMA ChosenAll ==
    ASSUME NEW T, NEW s \in Seq(T), NEW S, ToSet(s) \subseteq S
    PROVE  Chosen(s, S) = s
<1>. DEFINE K == {q \in Seq(T) : ToSet(q) \subseteq S => Chosen(q, S) = q}
<1>1. <<>> \in K
  BY ChosenEmpty
<1>2. ASSUME NEW q \in Seq(T), NEW x \in T, q \in K PROVE Append(q, x) \in K
  <2>1. /\ Chosen(Append(q, x), S) = Chosen1(Chosen(q, S), x, S)
        /\ ToSet(Append(q, x)) = ToSet(q) \cup {x} /\ Append(q, x) \in Seq(T)
    BY ChosenAppend, AppendToSet
  <2>. QED
    BY <1>2, <2>1 DEF Chosen1
<1>. HIDE DEF K
<1>3. s \in K
  BY <1>1, <1>2, SeqSetInduction
<1>. QED
  BY <1>3 DEF K

LEMMA ChosenNone ==
    ASSUME NEW T, NEW s \in Seq(T), NEW S, ToSet(s) \cap S = {}
    PROVE  Chosen(s, S) = <<>>
<1>1. Chosen(s, S) \in Seq(T) /\ ToSet(Chosen(s, S)) = {}
  BY ChosenIs
<1>. QED
  BY <1>1, ToSetEmpty

(* A sequence without repetitions.                                         *)
Once(s) == \A i, j \in DOMAIN s : s[i] = s[j] => i = j

LEMMA OnceAppend ==
    ASSUME NEW T, NEW s \in Seq(T), NEW x
    PROVE  Once(Append(s, x)) <=> Once(s) /\ x \notin ToSet(s)
<1>1. /\ DOMAIN s = 1 .. Len(s) /\ DOMAIN Append(s, x) = 1 .. Len(s) + 1
      /\ Len(s) \in Nat
      /\ Append(s, x)[Len(s) + 1] = x /\ \A k \in 1 .. Len(s) : Append(s, x)[k] = s[k]
  OBVIOUS
<1>2. \A k \in 1 .. Len(s) : k \in 1 .. Len(s) + 1 /\ k # Len(s) + 1
  BY <1>1
<1>3. \A k \in 1 .. Len(s) + 1 : k \in 1 .. Len(s) \/ k = Len(s) + 1
  BY <1>1
<1>4. Len(s) + 1 \in 1 .. Len(s) + 1
  BY <1>1
<1>. QED
  BY <1>1, <1>2, <1>3, <1>4 DEF Once, ToSet

LEMMA ChosenOnce ==
    ASSUME NEW T, NEW s \in Seq(T), NEW S, Once(s)
    PROVE  Once(Chosen(s, S))
<1>. DEFINE K == {q \in Seq(T) : Once(q) => Once(Chosen(q, S))}
<1>1. <<>> \in K
  BY ChosenEmpty
<1>2. ASSUME NEW q \in Seq(T), NEW x \in T, q \in K PROVE Append(q, x) \in K
  <2>1. /\ Chosen(Append(q, x), S) = Chosen1(Chosen(q, S), x, S)
        /\ Append(q, x) \in Seq(T)
    BY ChosenAppend
  <2>2. Once(Append(q, x)) => Once(q) /\ x \notin ToSet(q)
    BY OnceAppend
  <2>3. Chosen(q, S) \in Seq(T) /\ ToSet(Chosen(q, S)) = ToSet(q) \cap S
    BY ChosenIs
  <2>4. Once(Append(Chosen(q, S), x)) <=> Once(Chosen(q, S)) /\ x \notin ToSet(Chosen(q, S))
    BY <2>3, OnceAppend
  <2>. QED
    BY <1>2, <2>1, <2>2, <2>3, <2>4 DEF Chosen1
<1>. HIDE DEF K
<1>3. s \in K
  BY <1>1, <1>2, SeqSetInduction
<1>. QED
  BY <1>3 DEF K

LEMMA OnceConcat ==
    ASSUME NEW T, NEW s \in Seq(T), NEW t \in Seq(T), Once(s), Once(t),
           ToSet(s) \cap ToSet(t) = {}
    PROVE  Once(s \o t)
<1>. DEFINE n == Len(s)  m == Len(t)  q == s \o t
<1>1. /\ DOMAIN s = 1 .. n /\ DOMAIN t = 1 .. m /\ DOMAIN q = 1 .. n + m
      /\ n \in Nat /\ m \in Nat
      /\ \A k \in 1 .. n + m : q[k] = IF k <= n THEN s[k] ELSE t[k - n]
  OBVIOUS
<1>. HIDE DEF n, m, q
<1>2. ASSUME NEW k \in 1 .. n + m
      PROVE  (k \in 1 .. n /\ q[k] = s[k]) \/ (k - n \in 1 .. m /\ q[k] = t[k - n] /\ k > n)
  BY <1>1
<1>3. ASSUME NEW j \in 1 .. n, NEW k \in 1 .. m PROVE s[j] # t[k]
  BY <1>1, InToSet
<1>4. ASSUME NEW j \in 1 .. n + m, NEW k \in 1 .. n + m, q[j] = q[k] PROVE j = k
  <2>1. CASE j \in 1 .. n /\ q[j] = s[j] /\ k \in 1 .. n /\ q[k] = s[k]
    BY <1>1, <1>4, <2>1 DEF Once
  <2>2. CASE j - n \in 1 .. m /\ q[j] = t[j - n] /\ k - n \in 1 .. m /\ q[k] = t[k - n]
    <3>1. j - n = k - n
      BY <1>1, <1>4, <2>2 DEF Once
    <3>. QED
      BY <1>1, <3>1
  <2>. QED
    BY <1>2, <1>3, <1>4, <2>1, <2>2
<1>. QED
  BY <1>1, <1>4 DEF Once, q

(* Without its first elements a sequence is its end.                       *)
IsEnd(T, s, k, gone, rest) ==
    /\ rest \in Seq(T) /\ Len(rest) = Len(s) - k
    /\ ToSet(rest) = ToSet(s) \ gone /\ gone \subseteq ToSet(s)
    /\ Chosen(s, T \ gone) = rest

LEMMA ChosenEnd ==
    ASSUME NEW T, NEW s \in Seq(T), Once(s), NEW k \in 0 .. Len(s),
           NEW gone, gone = ToSet(SubSeq(s, 1, k)),
           NEW rest, rest = SubSeq(s, k + 1, Len(s))
    PROVE  IsEnd(T, s, k, gone, rest)
<1>. DEFINE a == SubSeq(s, 1, k)  b == SubSeq(s, k + 1, Len(s))
<1>0. Len(s) \in Nat /\ k \in Nat /\ k <= Len(s)
  OBVIOUS
<1>1a. /\ a \in Seq(T) /\ Len(a) = k /\ DOMAIN a = 1 .. k
       /\ \A i \in 1 .. k : a[i] = s[i]
  OBVIOUS
<1>1b. /\ b \in Seq(T) /\ Len(b) = Len(s) - k /\ DOMAIN b = 1 .. Len(s) - k
       /\ \A i \in 1 .. Len(s) - k : b[i] = s[k + i]
  OBVIOUS
<1>1c. s = a \o b
  <2>. HIDE DEF a, b
  <2>1. /\ a \o b \in Seq(T) /\ Len(a \o b) = Len(s)
        /\ \A i \in 1 .. Len(s) : (a \o b)[i] = IF i <= k THEN a[i] ELSE b[i - k]
    BY <1>0, <1>1a, <1>1b
  <2>2. ASSUME NEW i \in 1 .. Len(s) PROVE (a \o b)[i] = s[i]
    <3>1. CASE i <= k
      BY <1>0, <1>1a, <2>1, <3>1
    <3>2. CASE ~(i <= k)
      <4>1. i - k \in 1 .. Len(s) - k /\ k + (i - k) = i
        BY <1>0, <3>2
      <4>. QED
        BY <1>1b, <2>1, <3>2, <4>1
    <3>. QED
      BY <3>1, <3>2
  <2>3. DOMAIN s = 1 .. Len(s) /\ DOMAIN (a \o b) = 1 .. Len(s)
    BY <2>1
  <2>. QED
    BY <2>1, <2>2, SeqEqual
<1>1. /\ a \in Seq(T) /\ b \in Seq(T) /\ s = a \o b /\ Len(b) = Len(s) - k
      /\ Len(a) = k /\ Len(s) \in Nat
      /\ \A i \in 1 .. k : a[i] = s[i]
      /\ \A i \in 1 .. Len(s) - k : b[i] = s[k + i]
      /\ DOMAIN a = 1 .. k /\ DOMAIN b = 1 .. Len(s) - k
  BY <1>0, <1>1a, <1>1b, <1>1c
<1>. HIDE DEF a, b
<1>2. ToSet(s) = ToSet(a) \cup ToSet(b)
  BY <1>1, ConcatToSet
<1>3. ToSet(a) \cap ToSet(b) = {}
  <2>. SUFFICES ASSUME NEW i \in 1 .. k, NEW j \in 1 .. Len(s) - k, a[i] = b[j] PROVE FALSE
    BY <1>1 DEF ToSet
  <2>1. i \in DOMAIN s /\ k + j \in DOMAIN s /\ i # k + j
    BY <1>1
  <2>2. s[i] = s[k + j]
    BY <1>1
  <2>. QED
    BY <2>1, <2>2 DEF Once
<1>4. ToSet(b) \subseteq T
  BY <1>1 DEF ToSet
<1>5. Chosen(s, T \ ToSet(a)) = Chosen(a, T \ ToSet(a)) \o Chosen(b, T \ ToSet(a))
  BY <1>1, ChosenConcat
<1>6. Chosen(a, T \ ToSet(a)) = <<>>
  BY <1>1, ChosenNone
<1>7. Chosen(b, T \ ToSet(a)) = b
  <2>1. ToSet(b) \subseteq T \ ToSet(a)
    BY <1>3, <1>4
  <2>. QED
    BY <1>1, <2>1, ChosenAll
<1>8. Chosen(s, T \ ToSet(a)) = b
  <2>1. <<>> \o b = b
    BY <1>1, ConcatEmptySeq
  <2>. QED
    BY <1>5, <1>6, <1>7, <2>1
<1>. QED
  BY <1>1, <1>2, <1>3, <1>8 DEF a, b, IsEnd
LEMMA OnceTail ==
    ASSUME NEW T, NEW s \in Seq(T), s # <<>>, Once(s)
    PROVE  /\ Head(s) \in T /\ Tail(s) \in Seq(T) /\ Once(Tail(s))
           /\ Head(s) \notin ToSet(Tail(s)) /\ ToSet(s) = {Head(s)} \cup ToSet(Tail(s))
<1>. DEFINE n == Len(s)  t == Tail(s)
<1>1. /\ n \in Nat \ {0} /\ DOMAIN s = 1 .. n
      /\ t \in Seq(T) /\ DOMAIN t = 1 .. n - 1
      /\ \A i \in 1 .. n - 1 : t[i] = s[i + 1]
      /\ Head(s) = s[1]
  BY HeadTailProperties, EmptySeq, LenProperties
<1>. HIDE DEF n, t
<1>2. \A i \in 1 .. n - 1 : i + 1 \in 1 .. n /\ i + 1 # 1 /\ i \in Int
  BY <1>1
<1>3. 1 \in 1 .. n /\ \A i \in 1 .. n : i # 1 => i - 1 \in 1 .. n - 1 /\ (i - 1) + 1 = i
  BY <1>1
<1>4. Once(t)
  <2>. SUFFICES ASSUME NEW i \in 1 .. n - 1, NEW j \in 1 .. n - 1, t[i] = t[j] PROVE i = j
    BY <1>1 DEF Once
  <2>1. i + 1 = j + 1
    BY <1>1, <1>2 DEF Once
  <2>. QED
    BY <1>2, <2>1
<1>5. Head(s) \notin ToSet(t)
  <2>. SUFFICES ASSUME NEW i \in 1 .. n - 1, t[i] = s[1] PROVE FALSE
    BY <1>1, InToSet
  <2>. QED
    BY <1>1, <1>2, <1>3 DEF Once
<1>6. ASSUME NEW x PROVE x \in ToSet(s) <=> x = s[1] \/ x \in ToSet(t)
  <2>1. ASSUME x \in ToSet(s), x # s[1] PROVE x \in ToSet(t)
    <3>1. PICK i \in 1 .. n : s[i] = x
      BY <1>1, <2>1, InToSet
    <3>2. i - 1 \in 1 .. n - 1 /\ t[i - 1] = x
      BY <1>1, <1>3, <2>1, <3>1
    <3>. QED
      BY <1>1, <3>2, InToSet
  <2>2. ASSUME x \in ToSet(t) PROVE x \in ToSet(s)
    <3>1. PICK i \in 1 .. n - 1 : t[i] = x
      BY <1>1, <2>2, InToSet
    <3>. QED
      BY <1>1, <1>2, <3>1, InToSet
  <2>3. s[1] \in ToSet(s)
    BY <1>1, <1>3, InToSet
  <2>. QED
    BY <2>1, <2>2, <2>3
<1>7. Head(s) \in T
  BY <1>1, <1>3
<1>. QED
  BY <1>1, <1>4, <1>5, <1>6, <1>7 DEF t

(* It has as many elements as places.                                      *)
LEMMA OnceCardinality ==
    ASSUME NEW T, NEW s \in Seq(T), Once(s)
    PROVE  IsFiniteSet(ToSet(s)) /\ Cardinality(ToSet(s)) = Len(s)
<1>. DEFINE A == 1 .. Len(s)  f == [i \in A |-> s[i]]
<1>1. Len(s) \in Nat /\ DOMAIN s = A
  OBVIOUS
<1>2. IsFiniteSet(A) /\ Cardinality(A) = Len(s)
  BY <1>1, FS_Interval
<1>3. /\ f \in [A -> ToSet(s)] /\ \A i, j \in A : f[i] = f[j] => i = j
      /\ \A x \in ToSet(s) : \E i \in A : f[i] = x
  BY <1>1, InToSet DEF Once
<1>. HIDE DEF A, f
<1>. QED
  BY <1>2, <1>3, SameCount

=============================================================================
