--------------------------- MODULE Scraper_proofs ---------------------------
(***************************************************************************)
(* Theorems about the scraper, for any number of policies, pods, requests  *)
(* and disruptions. They are about sums over pods and over counters, so    *)
(* the first part is about sums.                                           *)
(***************************************************************************)
EXTENDS ScraperProps, FiniteSetTheorems, TLAPS

-----------------------------------------------------------------------------
(* Sums. *)

(* Among the subsets of a finite set, each collection has a minimal one. *)
LEMMA MinimalSubset ==
    ASSUME NEW S, IsFiniteSet(S), NEW B \in SUBSET SUBSET S, B # {}
    PROVE  \E least \in B : \A s \in B : s \subseteq least => s = least
<1>1. IsWellFoundedOn(StrictSubsetOrdering(S), SUBSET S)
  BY FS_StrictSubsetOrderingWellFounded, FS_FiniteSubsetsOfFinite
<1>2. PICK least \in B : \A s \in B : ~(<<s, least>> \in StrictSubsetOrdering(S))
  BY <1>1, WFMin
<1> QED BY <1>2 DEF StrictSubsetOrdering

(* So what holds of the empty set, and with a set also when an element is  *)
(* added, holds of all: induction, stated of the collection of these sets. *)
LEMMA SubsetInduction ==
    ASSUME NEW S, IsFiniteSet(S), NEW B \in SUBSET SUBSET S, {} \in B,
           \A s \in SUBSET S : \A x \in s : s \ {x} \in B => s \in B
    PROVE  B = SUBSET S
<1> DEFINE Rest == (SUBSET S) \ B
<1> SUFFICES ASSUME Rest # {} PROVE FALSE
  OBVIOUS
<1>0. Rest \in SUBSET SUBSET S
  OBVIOUS
<1>1. PICK least \in Rest : \A s \in Rest : s \subseteq least => s = least
  <2> HIDE DEF Rest
  <2> QED BY <1>0, MinimalSubset
<1>2. PICK x : x \in least
  <2>1. least # {}
    BY <1>1
  <2> QED BY <2>1
<1>3. least \ {x} \in SUBSET S /\ least \ {x} \subseteq least /\ least \ {x} # least
  BY <1>1, <1>2
<1>4. least \ {x} \in B
  BY <1>1, <1>3
<1> QED BY <1>1, <1>2, <1>4

(* The units a sum counts. *)
Units(f, S) == {u \in S \X Nat : u[2] \in 1..f[u[1]]}

(* Taking an element away takes its units away. *)
LEMMA UnitsWithout ==
    ASSUME NEW S, NEW f, \A y \in S : f[y] \in Nat, NEW x \in S
    PROVE  /\ Units(f, S) = Units(f, S \ {x}) \cup ({x} \X (1..f[x]))
           /\ Units(f, S \ {x}) \cap ({x} \X (1..f[x])) = {}
           /\ IsFiniteSet({x} \X (1..f[x]))
           /\ Cardinality({x} \X (1..f[x])) = f[x]
<1>1. Units(f, S) = Units(f, S \ {x}) \cup ({x} \X (1..f[x]))
  BY DEF Units
<1>2. Units(f, S \ {x}) \cap ({x} \X (1..f[x])) = {}
  BY DEF Units
<1>3. f[x] \in Nat /\ IsFiniteSet(1..f[x]) /\ Cardinality(1..f[x]) = f[x]
  <2>1. f[x] \in Nat /\ f[x] \in Int /\ 1 \in Int
    OBVIOUS
  <2>2. /\ IsFiniteSet(1..f[x])
        /\ Cardinality(1..f[x]) = IF 1 > f[x] THEN 0 ELSE f[x] - 1 + 1
    BY <2>1, FS_Interval
  <2> QED BY <2>1, <2>2
<1>4. IsFiniteSet({x}) /\ Cardinality({x}) = 1
  BY FS_Singleton
<1>5. /\ IsFiniteSet({x} \X (1..f[x]))
      /\ Cardinality({x} \X (1..f[x])) = Cardinality({x}) * Cardinality(1..f[x])
  BY <1>3, <1>4, FS_Product
<1>6. Cardinality({x} \X (1..f[x])) = 1 * f[x]
  BY <1>3, <1>4, <1>5, Zenon
<1>7. 1 * f[x] = f[x]
  BY <1>3
<1> QED BY <1>1, <1>2, <1>5, <1>6, <1>7

(* They are finitely many. *)
LEMMA UnitsFinite ==
    ASSUME NEW S, IsFiniteSet(S), NEW f, \A y \in S : f[y] \in Nat
    PROVE  IsFiniteSet(Units(f, S))
<1> DEFINE B == {s \in SUBSET S : IsFiniteSet(Units(f, s))}
<1>1. {} \in B
  <2>1. Units(f, {}) = {}
    BY DEF Units
  <2> QED BY <2>1, FS_EmptySet
<1>2. ASSUME NEW s \in SUBSET S, NEW x \in s, s \ {x} \in B PROVE s \in B
  <2>0. \A y \in s : f[y] \in Nat
    OBVIOUS
  <2>1. /\ Units(f, s) = Units(f, s \ {x}) \cup ({x} \X (1..f[x]))
        /\ IsFiniteSet({x} \X (1..f[x]))
    BY <2>0, UnitsWithout, Zenon
  <2>2. IsFiniteSet(Units(f, s \ {x}))
    BY <1>2
  <2>3. IsFiniteSet(Units(f, s))
    <3>1. IsFiniteSet(Units(f, s \ {x}) \cup ({x} \X (1..f[x])))
      <4> HIDE DEF B
      <4> QED BY <2>1, <2>2, FS_Union
    <3> QED BY <2>1, <3>1
  <2> QED BY <2>3
<1>3. B \in SUBSET SUBSET S
  OBVIOUS
<1>4. B = SUBSET S
  <2> HIDE DEF B
  <2> QED BY <1>1, <1>2, <1>3, SubsetInduction
<1> QED BY <1>4

(* Each element has as many as the function says. *)
LEMMA UnitsStep ==
    ASSUME NEW S, IsFiniteSet(S), NEW f, \A y \in S : f[y] \in Nat, NEW x \in S
    PROVE  Cardinality(Units(f, S)) = f[x] + Cardinality(Units(f, S \ {x}))
<1>1. IsFiniteSet(S \ {x})
  BY FS_RemoveElement
<1>2. IsFiniteSet(Units(f, S \ {x}))
  BY <1>1, UnitsFinite
<1>3. /\ Units(f, S) = Units(f, S \ {x}) \cup ({x} \X (1..f[x]))
      /\ Units(f, S \ {x}) \cap ({x} \X (1..f[x])) = {}
      /\ IsFiniteSet({x} \X (1..f[x]))
      /\ Cardinality({x} \X (1..f[x])) = f[x]
  BY UnitsWithout
<1>4. Cardinality(Units(f, S)) = Cardinality(Units(f, S \ {x})) + f[x] - Cardinality({})
  BY <1>2, <1>3, FS_Union
<1>5. Cardinality(Units(f, S \ {x})) \in Nat /\ f[x] \in Nat /\ Cardinality({}) = 0
  BY <1>2, FS_CardinalityType, FS_EmptySet
<1> QED BY <1>4, <1>5

Some(s) == CHOOSE x \in s : TRUE

(* h folds f: the equation that defines the fold behind a sum. *)
Folds(h, f, S) ==
    h = [s \in SUBSET S |-> IF s = {} THEN 0 ELSE f[Some(s)] + h[s \ {Some(s)}]]

(* A sum, which adds up a finite set in some order, is the number of units. *)
LEMMA SumCounts ==
    ASSUME NEW S, IsFiniteSet(S), NEW f, \A y \in S : f[y] \in Nat
    PROVE  SumFunctionOnSet(f, S) = Cardinality(Units(f, S))
<1> DEFINE w == [s \in SUBSET S |-> Cardinality(Units(f, s))]
<1>1. Cardinality(Units(f, {})) = 0
  <2>1. Units(f, {}) = {}
    BY DEF Units
  <2> QED BY <2>1, FS_EmptySet
<1>2. ASSUME NEW s \in SUBSET S, s # {}
      PROVE  /\ Some(s) \in s
             /\ Cardinality(Units(f, s)) = f[Some(s)] + Cardinality(Units(f, s \ {Some(s)}))
  <2>1. Some(s) \in s
    BY <1>2 DEF Some
  <2>2. IsFiniteSet(s) /\ \A y \in s : f[y] \in Nat
    BY FS_Subset
  <2> QED BY <2>1, <2>2, UnitsStep
<1>3. Folds(w, f, S)
  BY <1>1, <1>2 DEF Folds
<1>4. PICK h : Folds(h, f, S) /\ SumFunctionOnSet(f, S) = h[S]
  <2> DEFINE h == CHOOSE h : Folds(h, f, S)
  <2>1. Folds(h, f, S)
    BY <1>3
  <2>2. SumFunctionOnSet(f, S) = h[S]
    BY DEF SumFunctionOnSet, FoldFunctionOnSet, MapThenFoldSet, Folds, Some
  <2> QED BY <2>1, <2>2
<1> DEFINE B == {s \in SUBSET S : h[s] # w[s]}
<1>5. B = {}
  <2> SUFFICES ASSUME B # {} PROVE FALSE
    OBVIOUS
  <2>0. B \in SUBSET SUBSET S
    OBVIOUS
  <2>1. PICK s \in B : \A r \in B : r \subseteq s => r = s
    <3> HIDE DEF B
    <3> QED BY <2>0, MinimalSubset
  <2>2. h[s] = (IF s = {} THEN 0 ELSE f[Some(s)] + h[s \ {Some(s)}])
    BY <1>4 DEF Folds
  <2>3. s # {}
    BY <1>1, <2>1, <2>2
  <2>4. Some(s) \in s
    BY <2>3 DEF Some
  <2>5. h[s \ {Some(s)}] = w[s \ {Some(s)}]
    <3> PICK r : r = s \ {Some(s)}
      OBVIOUS
    <3>1. r \in SUBSET S /\ r \subseteq s /\ r # s
      BY <2>4
    <3> QED BY <2>1, <3>1
  <2> QED BY <1>2, <2>1, <2>2, <2>3, <2>5
<1> QED BY <1>4, <1>5

(* A sum of naturals is one, 0 over the empty set. *)
LEMMA SumTyped ==
    ASSUME NEW S, IsFiniteSet(S), NEW f, \A y \in S : f[y] \in Nat
    PROVE  SumFunctionOnSet(f, S) \in Nat /\ (S = {} => SumFunctionOnSet(f, S) = 0)
<1>1. SumFunctionOnSet(f, S) = Cardinality(Units(f, S)) /\ IsFiniteSet(Units(f, S))
  BY SumCounts, UnitsFinite
<1>2. S = {} => Units(f, S) = {}
  BY DEF Units
<1> QED BY <1>1, <1>2, FS_CardinalityType, FS_EmptySet

(* Any element can be taken first. *)
LEMMA SumWithout ==
    ASSUME NEW S, IsFiniteSet(S), NEW f, \A y \in S : f[y] \in Nat, NEW x \in S
    PROVE  SumFunctionOnSet(f, S) = f[x] + SumFunctionOnSet(f, S \ {x})
<1>1. IsFiniteSet(S \ {x}) /\ \A y \in S \ {x} : f[y] \in Nat
  BY FS_RemoveElement
<1> QED BY <1>1, SumCounts, UnitsStep

(* Larger terms over a larger set have a larger sum. *)
LEMMA SumGrows ==
    ASSUME NEW S, IsFiniteSet(S), NEW T \in SUBSET S, NEW f, NEW g,
           \A y \in T : f[y] \in Nat, \A y \in S : g[y] \in Nat, \A y \in T : f[y] <= g[y]
    PROVE  SumFunctionOnSet(f, T) <= SumFunctionOnSet(g, S)
<1>1. IsFiniteSet(T) /\ IsFiniteSet(Units(g, S))
  BY FS_Subset, UnitsFinite
<1>2. Units(f, T) \in SUBSET Units(g, S)
  BY DEF Units
<1>3. Cardinality(Units(f, T)) <= Cardinality(Units(g, S))
  BY <1>1, <1>2, FS_Subset
<1> QED BY <1>1, <1>3, SumCounts

(* Only the terms that are not 0 matter. *)
LEMMA SumOfSupport ==
    ASSUME NEW S, IsFiniteSet(S), NEW T \in SUBSET S, NEW f, NEW g,
           \A y \in S : f[y] \in Nat, \A y \in T : f[y] = g[y], \A y \in S \ T : f[y] = 0
    PROVE  SumFunctionOnSet(g, T) = SumFunctionOnSet(f, S)
<1>1. IsFiniteSet(T)
  BY FS_Subset
<1>2. Units(g, T) = Units(f, S)
  BY DEF Units
<1>3. \A y \in T : g[y] \in Nat
  OBVIOUS
<1> QED BY <1>1, <1>2, <1>3, SumCounts

(* The terms of a sum that is 0 are 0. *)
LEMMA SumZero ==
    ASSUME NEW S, IsFiniteSet(S), NEW f, \A y \in S : f[y] \in Nat,
           SumFunctionOnSet(f, S) = 0, NEW x \in S
    PROVE  f[x] = 0
<1>1. IsFiniteSet(S \ {x}) /\ \A y \in S \ {x} : f[y] \in Nat
  BY FS_RemoveElement
<1>2. SumFunctionOnSet(f, S \ {x}) \in Nat
  BY <1>1, SumTyped
<1>3. 0 = f[x] + SumFunctionOnSet(f, S \ {x})
  BY SumWithout
<1>4. f[x] \in Nat
  OBVIOUS
<1> QED BY <1>2, <1>3, <1>4

(* The sum of two functions has the sum of their sums. *)
LEMMA SumAdds ==
    ASSUME NEW S, IsFiniteSet(S), NEW f, NEW g, NEW h,
           \A y \in S : f[y] \in Nat /\ g[y] \in Nat /\ h[y] = f[y] + g[y]
    PROVE  SumFunctionOnSet(h, S) = SumFunctionOnSet(f, S) + SumFunctionOnSet(g, S)
<1> DEFINE Adds(s) == SumFunctionOnSet(h, s) = SumFunctionOnSet(f, s) + SumFunctionOnSet(g, s)
           B == {s \in SUBSET S : Adds(s)}
<1>1. \A y \in S : f[y] \in Nat /\ g[y] \in Nat /\ h[y] \in Nat
  OBVIOUS
<1>2. ASSUME NEW s \in SUBSET S
      PROVE  /\ IsFiniteSet(s)
             /\ \A y \in s : f[y] \in Nat
             /\ \A y \in s : g[y] \in Nat
             /\ \A y \in s : h[y] \in Nat
  BY <1>1, FS_Subset
<1>3. {} \in B
  <2>1. {} \in SUBSET S
    OBVIOUS
  <2>2. /\ SumFunctionOnSet(f, {}) = 0 /\ SumFunctionOnSet(g, {}) = 0
        /\ SumFunctionOnSet(h, {}) = 0
    BY <2>1, <1>2, SumTyped
  <2> QED BY <2>1, <2>2
<1>4. ASSUME NEW s \in SUBSET S, NEW x \in s, s \ {x} \in B PROVE s \in B
  <2>1. /\ SumFunctionOnSet(f, s) = f[x] + SumFunctionOnSet(f, s \ {x})
        /\ SumFunctionOnSet(g, s) = g[x] + SumFunctionOnSet(g, s \ {x})
        /\ SumFunctionOnSet(h, s) = h[x] + SumFunctionOnSet(h, s \ {x})
    BY <1>2, SumWithout
  <2>2. /\ SumFunctionOnSet(f, s \ {x}) \in Nat
        /\ SumFunctionOnSet(g, s \ {x}) \in Nat
    <3>1. s \ {x} \in SUBSET S
      OBVIOUS
    <3> QED BY <1>2, <3>1, SumTyped
  <2>3. Adds(s \ {x})
    BY <1>4
  <2>4. f[x] \in Nat /\ g[x] \in Nat /\ h[x] = f[x] + g[x]
    OBVIOUS
  <2>5. Adds(s)
    BY <2>1, <2>2, <2>3, <2>4
  <2> QED BY <2>5
<1>5. B \in SUBSET SUBSET S
  OBVIOUS
<1>6. B = SUBSET S
  <2> HIDE DEF B, Adds
  <2> QED BY <1>3, <1>4, <1>5, SubsetInduction
<1> QED BY <1>6

-----------------------------------------------------------------------------
(* The counters of one pod: what they are, what they were when it was last *)
(* scraped, and what it served since.                                      *)

Counters == [Counter -> Nat]

Successful(q) == {c \in Class : Succeeds(q, c)}

(* The counters of a pod are finitely many. *)
LEMMA ClassesFinite ==
    ASSUME NEW C \in SUBSET Counter
    PROVE  IsFiniteSet(C)
<1>1. IsFiniteSet(2..5)
  <2>1. 2 \in Int /\ 5 \in Int
    OBVIOUS
  <2> QED BY <2>1, FS_Interval
<1>2. IsFiniteSet(Class)
  BY <1>1, FS_Subset, ScraperAssumption
<1>3. IsFiniteSet(Counter)
  BY <1>2, FS_AddElement DEF Counter
<1> QED BY <1>3, FS_Subset

(* Each sum of them is a natural. *)
LEMMA CountTyped ==
    ASSUME NEW k \in Counters, NEW C \in SUBSET Counter
    PROVE  SumFunctionOnSet(k, C) \in Nat
<1>1. IsFiniteSet(C) /\ \A c \in C : k[c] \in Nat
  BY ClassesFinite DEF Counters
<1> QED BY <1>1, SumTyped

(* The deltas of a pod are naturals. *)
LEMMA DeltaTyped ==
    ASSUME NEW q, NEW new \in Counters, NEW old \in Counters
    PROVE  /\ Total(new) \in Nat /\ Total(old) \in Nat
           /\ SuccessDelta(q, new, old) \in Nat
           /\ \A c \in Counter : NonNegDelta(new[c], old[c]) \in Nat
<1>1. Class \in SUBSET Counter /\ Successful(q) \in SUBSET Counter
  BY DEF Counter, Successful
<1>2. \A c \in Counter : new[c] \in Nat /\ old[c] \in Nat
  BY DEF Counters
<1>3. \A c \in Counter : NonNegDelta(new[c], old[c]) \in Nat
  BY <1>2 DEF NonNegDelta
<1>4. SuccessDelta(q, new, old) \in Nat
  <2> DEFINE d == [c \in Class |-> NonNegDelta(new[c], old[c])]
  <2>1. \A c \in Successful(q) : d[c] \in Nat
    BY <1>3 DEF Successful, Counter
  <2>2. SuccessDelta(q, new, old) = SumFunctionOnSet(d, Successful(q))
    BY DEF SuccessDelta, Successful
  <2> HIDE DEF d
  <2> QED BY <1>1, <2>1, <2>2, ClassesFinite, SumTyped
<1> QED BY <1>1, <1>3, <1>4, CountTyped DEF Total

(* A pod that counted no more than it served shows no more. *)
LEMMA DeltaBounded ==
    ASSUME NEW q, NEW new \in Counters, NEW old \in Counters, NEW served \in Counters,
           \A c \in Counter : new[c] <= old[c] + served[c]
    PROVE  /\ Total(new) - Total(old) <= SumFunctionOnSet(served, Class)
           /\ SuccessDelta(q, new, old) <= SumFunctionOnSet(served, Successful(q))
           /\ NonNegDelta(new[Shed], old[Shed]) <= served[Shed]
<1>0. \A c \in Counter : new[c] \in Nat /\ old[c] \in Nat /\ served[c] \in Nat
  BY DEF Counters
<1>1. Total(new) - Total(old) <= SumFunctionOnSet(served, Class)
  <2> DEFINE both == [c \in Class |-> old[c] + served[c]]
  <2>1. \A c \in Class : /\ new[c] \in Nat /\ old[c] \in Nat /\ served[c] \in Nat
                          /\ both[c] = old[c] + served[c]
                          /\ both[c] \in Nat /\ new[c] <= both[c]
    BY <1>0 DEF Counter
  <2>2. IsFiniteSet(Class) /\ Class \in SUBSET Class /\ Class \in SUBSET Counter
    BY ClassesFinite DEF Counter
  <2> HIDE DEF both
  <2>3. SumFunctionOnSet(new, Class) <= SumFunctionOnSet(both, Class)
    BY <2>1, <2>2, SumGrows
  <2>4. SumFunctionOnSet(both, Class)
            = SumFunctionOnSet(old, Class) + SumFunctionOnSet(served, Class)
    BY <2>1, <2>2, SumAdds
  <2>5. /\ SumFunctionOnSet(new, Class) \in Nat /\ SumFunctionOnSet(old, Class) \in Nat
        /\ SumFunctionOnSet(served, Class) \in Nat
    BY <2>2, CountTyped
  <2> QED BY <2>3, <2>4, <2>5 DEF Total
<1>2. SuccessDelta(q, new, old) <= SumFunctionOnSet(served, Successful(q))
  <2> DEFINE d == [c \in Class |-> NonNegDelta(new[c], old[c])]
  <2>1. \A c \in Successful(q) : d[c] \in Nat /\ served[c] \in Nat /\ d[c] <= served[c]
    BY <1>0 DEF Successful, Counter, NonNegDelta
  <2>2. SuccessDelta(q, new, old) = SumFunctionOnSet(d, Successful(q))
    BY DEF SuccessDelta, Successful
  <2>3. IsFiniteSet(Successful(q)) /\ Successful(q) \in SUBSET Successful(q)
    BY ClassesFinite DEF Successful, Counter
  <2> HIDE DEF d
  <2> QED BY <2>1, <2>2, <2>3, SumGrows
<1>3. NonNegDelta(new[Shed], old[Shed]) <= served[Shed]
  BY <1>0 DEF NonNegDelta, Counter
<1> QED BY <1>1, <1>2, <1>3

(* A pod that counted just what it served shows just that. *)
LEMMA DeltaExact ==
    ASSUME NEW q, NEW new \in Counters, NEW old \in Counters, NEW served \in Counters,
           \A c \in Counter : new[c] = old[c] + served[c]
    PROVE  /\ Total(new) - Total(old) = SumFunctionOnSet(served, Class)
           /\ SuccessDelta(q, new, old) >= SumFunctionOnSet(served, Successful(q))
           /\ NonNegDelta(new[Shed], old[Shed]) >= served[Shed]
<1>0. \A c \in Counter : new[c] \in Nat /\ old[c] \in Nat /\ served[c] \in Nat
  BY DEF Counters
<1>1. Total(new) - Total(old) = SumFunctionOnSet(served, Class)
  <2>1. IsFiniteSet(Class) /\ Class \in SUBSET Counter
    BY ClassesFinite DEF Counter
  <2>2. \A c \in Class : old[c] \in Nat /\ served[c] \in Nat /\ new[c] = old[c] + served[c]
    BY <1>0, <2>1
  <2>3. SumFunctionOnSet(new, Class)
            = SumFunctionOnSet(old, Class) + SumFunctionOnSet(served, Class)
    BY <2>1, <2>2, SumAdds
  <2>4. SumFunctionOnSet(old, Class) \in Nat /\ SumFunctionOnSet(served, Class) \in Nat
    BY <2>1, CountTyped
  <2> QED BY <2>3, <2>4 DEF Total
<1>2. SuccessDelta(q, new, old) >= SumFunctionOnSet(served, Successful(q))
  <2> DEFINE d == [c \in Class |-> NonNegDelta(new[c], old[c])]
  <2>1. \A c \in Successful(q) : d[c] \in Nat /\ served[c] \in Nat /\ served[c] <= d[c]
    BY <1>0 DEF Successful, Counter, NonNegDelta
  <2>2. SuccessDelta(q, new, old) = SumFunctionOnSet(d, Successful(q))
    BY DEF SuccessDelta, Successful
  <2>3. /\ IsFiniteSet(Successful(q)) /\ Successful(q) \in SUBSET Successful(q)
        /\ Successful(q) \in SUBSET Counter
    BY ClassesFinite DEF Successful, Counter
  <2>4. SumFunctionOnSet(served, Successful(q)) \in Nat /\ SuccessDelta(q, new, old) \in Nat
    BY <2>3, CountTyped, DeltaTyped
  <2> HIDE DEF d
  <2>5. SumFunctionOnSet(served, Successful(q)) <= SumFunctionOnSet(d, Successful(q))
    BY <2>1, <2>3, SumGrows
  <2> QED BY <2>2, <2>4, <2>5
<1>3. NonNegDelta(new[Shed], old[Shed]) >= served[Shed]
  BY <1>0 DEF NonNegDelta, Counter
<1> QED BY <1>1, <1>2, <1>3

(* A pod that served no failure shows none, also if its counters went down *)
(* and up again meanwhile.                                                 *)
LEMMA DeltaWithoutFailure ==
    ASSUME NEW q, NEW new \in Counters, NEW old \in Counters,
           \A c \in Class \ Successful(q) : new[c] <= old[c]
    PROVE  Total(new) - Total(old) <= SuccessDelta(q, new, old)
<1> DEFINE d == [c \in Class |-> NonNegDelta(new[c], old[c])]
           e == [c \in Class |-> IF c \in Successful(q) THEN d[c] ELSE 0]
           both == [c \in Class |-> old[c] + e[c]]
<1>0. \A c \in Class : new[c] \in Nat /\ old[c] \in Nat
  BY DEF Counters, Counter
<1>1. \A c \in Class : /\ new[c] \in Nat /\ old[c] \in Nat /\ e[c] \in Nat
                        /\ both[c] = old[c] + e[c] /\ both[c] \in Nat /\ new[c] <= both[c]
  BY <1>0 DEF NonNegDelta
<1>2. /\ IsFiniteSet(Class) /\ Class \in SUBSET Class /\ Class \in SUBSET Counter
      /\ Successful(q) \in SUBSET Class
  BY ClassesFinite DEF Counter, Successful
<1>3. /\ \A c \in Successful(q) : e[c] = d[c]
      /\ \A c \in Class \ Successful(q) : e[c] = 0
  BY <1>2
<1>4. SuccessDelta(q, new, old) = SumFunctionOnSet(d, Successful(q))
  BY DEF SuccessDelta, Successful
<1> HIDE DEF d, e, both
<1>5. SumFunctionOnSet(new, Class) <= SumFunctionOnSet(both, Class)
  BY <1>1, <1>2, SumGrows
<1>6. SumFunctionOnSet(both, Class) = SumFunctionOnSet(old, Class) + SumFunctionOnSet(e, Class)
  BY <1>1, <1>2, SumAdds
<1>7. SumFunctionOnSet(d, Successful(q)) = SumFunctionOnSet(e, Class)
  BY <1>1, <1>2, <1>3, SumOfSupport
<1>8. /\ SumFunctionOnSet(new, Class) \in Nat /\ SumFunctionOnSet(old, Class) \in Nat
      /\ SuccessDelta(q, new, old) \in Nat
  BY <1>2, CountTyped, DeltaTyped
<1> QED BY <1>4, <1>5, <1>6, <1>7, <1>8 DEF Total

(* The failures among the deltas of a pod. *)
FailureDelta(q, new, old) ==
    SumFunctionOnSet([c \in Class |-> NonNegDelta(new[c], old[c])], Class \ Successful(q))

(* If no counter of a pod went down its requests are its successes and its *)
(* failures.                                                               *)
LEMMA DeltaSplits ==
    ASSUME NEW q, NEW new \in Counters, NEW old \in Counters,
           \A c \in Class : old[c] <= new[c]
    PROVE  /\ FailureDelta(q, new, old) \in Nat
           /\ Total(new) - Total(old) = SuccessDelta(q, new, old) + FailureDelta(q, new, old)
<1> DEFINE failing == Class \ Successful(q)
           d == [c \in Class |-> NonNegDelta(new[c], old[c])]
           e == [c \in Class |-> IF c \in Successful(q) THEN d[c] ELSE 0]
           f == [c \in Class |-> IF c \in Successful(q) THEN 0 ELSE d[c]]
<1>0. \A c \in Class : new[c] \in Nat /\ old[c] \in Nat
  BY DEF Counters, Counter
<1>1. \A c \in Class : /\ d[c] \in Nat /\ e[c] \in Nat /\ f[c] \in Nat
                        /\ new[c] = old[c] + d[c] /\ d[c] = e[c] + f[c]
  BY <1>0 DEF NonNegDelta
<1>2. /\ IsFiniteSet(Class) /\ Class \in SUBSET Counter /\ IsFiniteSet(failing)
      /\ Successful(q) \in SUBSET Class /\ failing \in SUBSET Class
  BY ClassesFinite DEF Counter, Successful
<1>3. /\ \A c \in Successful(q) : e[c] = d[c]
      /\ \A c \in Class \ Successful(q) : e[c] = 0
      /\ \A c \in failing : f[c] = d[c]
      /\ \A c \in Class \ failing : f[c] = 0
  BY <1>2
<1>4. /\ SuccessDelta(q, new, old) = SumFunctionOnSet(d, Successful(q))
      /\ FailureDelta(q, new, old) = SumFunctionOnSet(d, failing)
  BY DEF SuccessDelta, FailureDelta, Successful
<1> HIDE DEF d, e, f, failing
<1>5. SumFunctionOnSet(new, Class) = SumFunctionOnSet(old, Class) + SumFunctionOnSet(d, Class)
  BY <1>0, <1>1, <1>2, SumAdds
<1>6. SumFunctionOnSet(d, Class) = SumFunctionOnSet(e, Class) + SumFunctionOnSet(f, Class)
  BY <1>1, <1>2, SumAdds
<1>7. SumFunctionOnSet(d, Successful(q)) = SumFunctionOnSet(e, Class)
  BY <1>1, <1>2, <1>3, SumOfSupport
<1>8. SumFunctionOnSet(d, failing) = SumFunctionOnSet(f, Class)
  BY <1>1, <1>2, <1>3, SumOfSupport
<1>9. /\ SumFunctionOnSet(new, Class) \in Nat /\ SumFunctionOnSet(old, Class) \in Nat
      /\ SumFunctionOnSet(e, Class) \in Nat /\ SumFunctionOnSet(f, Class) \in Nat
  <2>1. /\ \A c \in Class : e[c] \in Nat
        /\ \A c \in Class : f[c] \in Nat
    BY <1>1
  <2> QED BY <1>2, <2>1, CountTyped, SumTyped
<1> QED BY <1>4, <1>5, <1>6, <1>7, <1>8, <1>9 DEF Total

(* A single counter is its own sum. *)
LEMMA SumOfOne ==
    ASSUME NEW k \in Counters, NEW c \in Counter
    PROVE  SumFunctionOnSet(k, {c}) = k[c]
<1>1. /\ IsFiniteSet({c}) /\ \A y \in {c} : k[y] \in Nat
      /\ IsFiniteSet({}) /\ \A y \in {} : k[y] \in Nat
      /\ c \in {c} /\ {c} \ {c} = {} /\ k[c] \in Nat
  BY FS_Singleton, FS_EmptySet DEF Counters
<1>2. SumFunctionOnSet(k, {c}) = k[c] + SumFunctionOnSet(k, {c} \ {c})
  BY <1>1, SumWithout
<1>3. SumFunctionOnSet(k, {}) = 0
  BY <1>1, SumTyped
<1> QED BY <1>1, <1>2, <1>3

-----------------------------------------------------------------------------
(* The inductive invariant. *)

Since == [seen: BOOLEAN, reset: BOOLEAN, crossed: BOOLEAN, served: Counters]

Typed ==
    /\ stats \in [Pod -> Counters]
    /\ previous \in [Pod -> Counters \cup {Absent}]
    /\ running \in SUBSET Pod /\ reachable \in SUBSET Pod
    /\ since \in [Policy -> [Pod -> Since]]

(* A counter has grown since the snapshot by no more than the pod served   *)
(* since a policy last scraped it, whoever took the snapshot and whether or *)
(* not the counter started again.                                          *)
CountersBounded ==
    \A q \in Policy, p \in Pod : previous[p] # Absent =>
        \A c \in Counter : stats[p][c] <= previous[p][c] + since[q][p].served[c]

(* The snapshot of a pod that stayed, and that no other policy's read came *)
(* across, is the policy's own, and the counters have grown by just that.  *)
SteadyExact ==
    \A q \in Policy, p \in Pod :
        since[q][p].seen /\ ~since[q][p].reset /\ ~since[q][p].crossed =>
            /\ previous[p] # Absent
            /\ \A c \in Counter : stats[p][c] = previous[p][c] + since[q][p].served[c]

(* The counters of a pod that stayed since a policy last scraped it are    *)
(* not below the snapshot, whichever policy took that.                     *)
NeverBelow ==
    \A q \in Policy, p \in Pod : previous[p] # Absent /\ ~since[q][p].reset =>
        \A c \in Counter : previous[p][c] <= stats[p][c]

ScraperInv == Typed /\ CountersBounded /\ SteadyExact /\ NeverBelow

(* The scraper starts without a snapshot. *)
LEMMA InitScraperInv ==
    ASSUME Init
    PROVE  ScraperInv
<1>1. Zero \in Counters
  BY DEF Zero, Counters
<1>2. NothingSeen \in Since /\ ~NothingSeen.seen
  BY <1>1 DEF NothingSeen, Since
<1>3. Typed
  BY <1>1, <1>2 DEF Init, Typed
<1>4. \A q \in Policy, p \in Pod : previous[p] = Absent /\ ~since[q][p].seen
  BY <1>2 DEF Init
<1> QED BY <1>3, <1>4 DEF ScraperInv, CountersBounded, SteadyExact, NeverBelow

(* A read replaces the snapshots of the pods that answered, which starts   *)
(* their account with this policy again, and marks that of all others.     *)
LEMMA ReadKeepsInv ==
    ASSUME ScraperInv, NEW q \in Policy, ReadSignals(q)
    PROVE  ScraperInv'
<1> USE DEF ScraperInv
<1> DEFINE pods == Selects[q] \cap running
           scraped == pods \cap reachable
<1>1. Zero \in Counters /\ \A c \in Counter : Zero[c] = 0
  BY DEF Zero, Counters
<1>2. /\ UNCHANGED <<stats, running, reachable>>
      /\ previous' = [p \in Pod |-> IF p \in scraped THEN stats[p]
                                    ELSE IF p \in pods THEN previous[p] ELSE Absent]
      /\ since' = Observed(q, pods, scraped)
  BY DEF ReadSignals, Pruned, Taken, world
<1> HIDE DEF pods, scraped
<1>3. ASSUME NEW r \in Policy, NEW p \in Pod
      PROVE  /\ since[r][p] \in Since
             /\ since'[r][p] = IF r # q THEN [since[r][p] EXCEPT !.crossed = TRUE]
                               ELSE IF p \in scraped THEN [NothingSeen EXCEPT !.seen = TRUE]
                               ELSE [since[r][p] EXCEPT !.seen = @ /\ p \in pods]
  BY <1>2 DEF Observed, Typed
<1>4. ASSUME NEW r \in Policy, NEW p \in Pod
      PROVE  /\ since'[r][p] \in Since
             /\ r # q => since'[r][p].crossed /\ since'[r][p].served = since[r][p].served
             /\ r # q => since'[r][p].reset = since[r][p].reset
             /\ r = q /\ p \in scraped => since'[r][p].served = Zero
             /\ r = q /\ p \notin scraped =>
                    /\ since'[r][p].served = since[r][p].served
                    /\ since'[r][p].reset = since[r][p].reset
                    /\ since'[r][p].crossed = since[r][p].crossed
                    /\ since'[r][p].seen => since[r][p].seen /\ p \in pods
  <2>1. since[r][p] \in Since
    BY <1>3
  <2>2. CASE r # q
    <3>1. since'[r][p] = [since[r][p] EXCEPT !.crossed = TRUE]
      BY <1>3, <2>2
    <3> QED BY <2>1, <2>2, <3>1 DEF Since
  <2>3. CASE r = q /\ p \in scraped
    <3>1. since'[r][p] = [NothingSeen EXCEPT !.seen = TRUE]
      BY <1>3, <2>3
    <3> QED BY <1>1, <2>3, <3>1 DEF Since, NothingSeen
  <2>4. CASE r = q /\ p \notin scraped
    <3>1. since'[r][p] = [since[r][p] EXCEPT !.seen = @ /\ p \in pods]
      BY <1>3, <2>4
    <3>2. (since[r][p].seen /\ p \in pods) \in BOOLEAN
      OBVIOUS
    <3> QED BY <2>1, <2>4, <3>1, <3>2 DEF Since
  <2> QED BY <2>2, <2>3, <2>4
<1>5. Typed'
  <2>1. since' \in [Policy -> [Pod -> Since]]
    BY <1>2, <1>4 DEF Observed
  <2>2. previous' \in [Pod -> Counters \cup {Absent}]
    BY <1>2 DEF Typed
  <2> QED BY <1>2, <2>1, <2>2 DEF Typed
<1>6. ASSUME NEW p \in Pod
      PROVE  /\ stats'[p] = stats[p] /\ stats[p] \in Counters /\ stats[p] # Absent
             /\ p \in scraped => previous'[p] = stats[p]
             /\ p \notin scraped /\ p \in pods => previous'[p] = previous[p]
             /\ p \notin scraped /\ p \notin pods => previous'[p] = Absent
  <2>1. Absent \notin Counters
    BY ScraperAssumption DEF Counters, Counter
  <2>2. stats[p] \in Counters
    BY DEF Typed
  <2> QED BY <1>2, <2>1, <2>2
<1>7. CountersBounded'
  <2> SUFFICES ASSUME NEW r \in Policy, NEW p \in Pod, previous'[p] # Absent,
                      NEW c \in Counter
               PROVE  stats'[p][c] <= previous'[p][c] + since'[r][p].served[c]
    BY DEF CountersBounded
  <2>1. stats[p][c] \in Nat /\ since'[r][p].served[c] \in Nat
    BY <1>4, <1>6 DEF Counters, Since
  <2>2. CASE p \in scraped
    BY <1>6, <2>1, <2>2
  <2>3. CASE p \notin scraped
    <3>1. previous'[p] = previous[p] /\ since'[r][p].served = since[r][p].served
      BY <1>4, <1>6, <2>3
    <3> QED BY <1>6, <3>1 DEF CountersBounded
  <2> QED BY <2>2, <2>3
<1>8. SteadyExact'
  <2> SUFFICES ASSUME NEW r \in Policy, NEW p \in Pod, since'[r][p].seen,
                      ~since'[r][p].reset, ~since'[r][p].crossed
               PROVE  /\ previous'[p] # Absent
                      /\ \A c \in Counter :
                            stats'[p][c] = previous'[p][c] + since'[r][p].served[c]
    BY DEF SteadyExact
  <2>1. r = q
    BY <1>4
  <2>2. CASE p \in scraped
    <3>1. \A c \in Counter : stats[p][c] \in Nat
      BY <1>6 DEF Counters
    <3> QED BY <1>1, <1>4, <1>6, <2>1, <2>2, <3>1
  <2>3. CASE p \notin scraped
    <3>1. /\ since'[r][p].served = since[r][p].served
          /\ since[r][p].seen /\ ~since[r][p].reset /\ ~since[r][p].crossed
          /\ previous'[p] = previous[p]
      BY <1>4, <1>6, <2>1, <2>3
    <3> QED BY <1>6, <3>1 DEF SteadyExact
  <2> QED BY <2>2, <2>3
<1>9. NeverBelow'
  <2> SUFFICES ASSUME NEW r \in Policy, NEW p \in Pod, previous'[p] # Absent,
                      ~since'[r][p].reset, NEW c \in Counter
               PROVE  previous'[p][c] <= stats'[p][c]
    BY DEF NeverBelow
  <2>1. CASE p \in scraped
    <3>1. stats[p][c] \in Nat
      BY <1>6 DEF Counters
    <3> QED BY <1>6, <2>1, <3>1
  <2>2. CASE p \notin scraped
    <3>1. previous'[p] = previous[p] /\ ~since[r][p].reset
      BY <1>4, <1>6, <2>2
    <3> QED BY <1>6, <3>1 DEF NeverBelow
  <2> QED BY <2>1, <2>2
<1> QED BY <1>5, <1>7, <1>8, <1>9

(* A request adds one to a counter and to each policy's account of it. *)
LEMMA ServeKeepsInv ==
    ASSUME ScraperInv, NEW p \in Pod, NEW c \in Counter, Serve(p, c)
    PROVE  ScraperInv'
<1> USE DEF ScraperInv
<1>1. UNCHANGED <<previous, running, reachable>>
  BY DEF Serve
<1>2. ASSUME NEW x \in Pod
      PROVE  /\ stats[x] \in Counters /\ stats'[x] \in Counters
             /\ \A d \in Counter :
                   stats'[x][d] = stats[x][d] + (IF x = p /\ d = c THEN 1 ELSE 0)
  <2>1. stats[x] \in Counters
    BY DEF Typed
  <2>2. stats'[x] = IF x = p THEN [stats[p] EXCEPT ![c] = @ + 1] ELSE stats[x]
    BY DEF Typed, Serve
  <2> QED BY <2>1, <2>2 DEF Counters
<1>3. ASSUME NEW r \in Policy, NEW x \in Pod
      PROVE  /\ since[r][x] \in Since /\ since'[r][x] \in Since
             /\ since'[r][x].seen = since[r][x].seen
             /\ since'[r][x].reset = since[r][x].reset
             /\ since'[r][x].crossed = since[r][x].crossed
             /\ \A d \in Counter : since'[r][x].served[d]
                    = since[r][x].served[d] + (IF x = p /\ d = c THEN 1 ELSE 0)
  <2>1. since[r][x] \in Since /\ since[r][p] \in Since
    BY DEF Typed
  <2> DEFINE more == [since[r][p].served EXCEPT ![c] = since[r][p].served[c] + 1]
  <2>2. since'[r][x] = IF x = p THEN [since[r][p] EXCEPT !.served = more] ELSE since[r][x]
    <3>1. since[r] \in [Pod -> Since]
      BY DEF Typed
    <3>2. since'[r] = [since[r] EXCEPT ![p].served[c] = @ + 1]
      BY DEF Serve
    <3>3. since'[r] = [since[r] EXCEPT ![p] = [since[r][p] EXCEPT !.served = more]]
      BY <3>2
    <3> HIDE DEF more
    <3> QED BY <3>1, <3>3
  <2>3. CASE x # p
    BY <2>1, <2>2, <2>3 DEF Since, Counters
  <2>4. CASE x = p
    <3>1. since[r][p].served \in Counters
      BY <2>1 DEF Since
    <3>2. more \in Counters /\ \A d \in Counter :
            more[d] = since[r][p].served[d] + (IF d = c THEN 1 ELSE 0)
      BY <3>1 DEF Counters
    <3>3. since'[r][x] = [since[r][p] EXCEPT !.served = more]
      BY <2>2, <2>4
    <3> HIDE DEF more
    <3>4. /\ since'[r][x] \in Since /\ since'[r][x].served = more
          /\ since'[r][x].seen = since[r][p].seen
          /\ since'[r][x].reset = since[r][p].reset
          /\ since'[r][x].crossed = since[r][p].crossed
      BY <2>1, <3>2, <3>3 DEF Since
    <3> QED BY <2>1, <2>4, <3>2, <3>4
  <2> QED BY <2>3, <2>4
<1>4. Typed'
  <2>1. DOMAIN stats' = Pod /\ stats' = [x \in Pod |-> stats'[x]]
    BY DEF Serve, Typed
  <2>2. since' = [r \in Policy |-> [x \in Pod |-> since'[r][x]]]
    BY DEF Serve, Typed
  <2>3. stats' \in [Pod -> Counters]
    BY <1>2, <2>1
  <2>4. since' \in [Policy -> [Pod -> Since]]
    BY <1>3, <2>2
  <2> QED BY <1>1, <2>3, <2>4 DEF Typed
<1>5. ASSUME NEW r \in Policy, NEW x \in Pod, NEW d \in Counter
      PROVE  /\ stats[x][d] \in Nat /\ since[r][x].served[d] \in Nat
             /\ previous[x] # Absent => previous[x][d] \in Nat
  BY <1>2, <1>3 DEF Since, Counters, Typed
<1>6. CountersBounded'
  BY <1>1, <1>2, <1>3, <1>5 DEF CountersBounded
<1>7. SteadyExact'
  BY <1>1, <1>2, <1>3, <1>5 DEF SteadyExact
<1>8. NeverBelow'
  BY <1>1, <1>2, <1>3, <1>5 DEF NeverBelow
<1> QED BY <1>4, <1>6, <1>7, <1>8

(* Counters that start again are below the snapshot, and each policy's     *)
(* account is marked.                                                      *)
LEMMA DisruptKeepsInv ==
    ASSUME ScraperInv, NEW p \in Pod, Disrupt(p), UNCHANGED <<previous, reachable>>,
           running' \in SUBSET Pod
    PROVE  ScraperInv'
<1> USE DEF ScraperInv
<1>1. Zero \in Counters /\ \A c \in Counter : Zero[c] = 0
  BY DEF Zero, Counters
<1>2. ASSUME NEW x \in Pod
      PROVE  stats[x] \in Counters /\ stats'[x] = IF x = p THEN Zero ELSE stats[x]
  BY DEF Typed, Disrupt
<1>3. ASSUME NEW r \in Policy, NEW x \in Pod
      PROVE  /\ since[r][x] \in Since /\ since'[r][x] \in Since
             /\ since'[r][x].served = since[r][x].served
             /\ x = p => since'[r][x].reset
             /\ x # p => since'[r][x] = since[r][x]
  <2>1. since[r][x] \in Since /\ since[r][p] \in Since
    BY DEF Typed
  <2>2. since'[r][x] = IF x = p THEN [since[r][p] EXCEPT !.reset = TRUE] ELSE since[r][x]
    BY DEF Typed, Disrupt
  <2> QED BY <2>1, <2>2 DEF Since
<1>4. Typed'
  <2>1. stats' = [x \in Pod |-> stats'[x]]
    BY DEF Disrupt, Typed
  <2>2. since' = [r \in Policy |-> [x \in Pod |-> since'[r][x]]]
    BY DEF Disrupt, Typed
  <2>3. stats' \in [Pod -> Counters]
    BY <1>1, <1>2, <2>1
  <2>4. since' \in [Policy -> [Pod -> Since]]
    BY <1>3, <2>2
  <2> QED BY <2>3, <2>4 DEF Typed
<1>5. ASSUME NEW r \in Policy, NEW x \in Pod, NEW d \in Counter
      PROVE  /\ stats[x][d] \in Nat /\ since[r][x].served[d] \in Nat
             /\ previous[x] # Absent => previous[x][d] \in Nat
  BY <1>2, <1>3 DEF Since, Counters, Typed
<1>6. CountersBounded'
  BY <1>1, <1>2, <1>3, <1>5 DEF CountersBounded
<1>7. SteadyExact'
  BY <1>2, <1>3 DEF SteadyExact
<1>8. NeverBelow'
  BY <1>2, <1>3 DEF NeverBelow
<1> QED BY <1>4, <1>6, <1>7, <1>8

(* Every step keeps the invariant. *)
LEMMA NextScraperInv ==
    ASSUME ScraperInv, [Next]_vars
    PROVE  ScraperInv'
<1>1. ASSUME UNCHANGED <<stats, previous, since>>,
             running' \in SUBSET Pod, reachable' \in SUBSET Pod
      PROVE  ScraperInv'
  BY <1>1 DEF ScraperInv, Typed, CountersBounded, SteadyExact, NeverBelow
<1>0. running \in SUBSET Pod /\ reachable \in SUBSET Pod
  BY DEF ScraperInv, Typed
<1>2. CASE \E q \in Policy : ReadSignals(q)
  BY <1>2, ReadKeepsInv
<1>3. CASE DiscoveryFails
  BY <1>0, <1>1, <1>3 DEF DiscoveryFails, world
<1>4. CASE \E p \in Pod, c \in Counter : Serve(p, c)
  BY <1>4, ServeKeepsInv
<1>5. ASSUME NEW p \in Pod, Restart(p)
      PROVE  ScraperInv'
  <2>1. Disrupt(p) /\ UNCHANGED <<previous, reachable>> /\ running' \in SUBSET Pod
    BY <1>0, <1>5 DEF Restart
  <2> QED BY <2>1, DisruptKeepsInv
<1>6. ASSUME NEW p \in Pod, Leave(p)
      PROVE  ScraperInv'
  <2>1. Disrupt(p) /\ UNCHANGED <<previous, reachable>> /\ running' \in SUBSET Pod
    BY <1>0, <1>6 DEF Leave
  <2> QED BY <2>1, DisruptKeepsInv
<1>7. ASSUME NEW p \in Pod, Return(p)
      PROVE  ScraperInv'
  BY <1>0, <1>1, <1>7 DEF Return
<1>8. ASSUME NEW p \in Pod, Toggle(p)
      PROVE  ScraperInv'
  BY <1>0, <1>1, <1>8 DEF Toggle
<1>9. CASE Age
  BY <1>0, <1>1, <1>9 DEF Age, world
<1>10. CASE UNCHANGED vars
  BY <1>0, <1>1, <1>10 DEF vars
<1> QED BY <1>2, <1>3, <1>4, <1>5, <1>6, <1>7, <1>8, <1>9, <1>10 DEF Next
-----------------------------------------------------------------------------
(* What a read shows, next to what the pods served since this policy last  *)
(* scraped them.                                                           *)

ServedTo(q, pods, C) ==
    SumFunction([p \in pods |-> SumFunctionOnSet(since[q][p].served, C)])

(* The pods served natural numbers of requests, of which the successes are *)
(* a part.                                                                 *)
LEMMA ServedTyped ==
    ASSUME Typed, NEW q \in Policy, NEW A \in SUBSET Pod, NEW C \in SUBSET Counter,
           NEW D \in SUBSET C
    PROVE  /\ IsFiniteSet(A)
           /\ \A p \in A : /\ since[q][p].served \in Counters
                            /\ SumFunctionOnSet(since[q][p].served, C) \in Nat
           /\ ServedTo(q, A, C) \in Nat
           /\ ServedTo(q, A, D) <= ServedTo(q, A, C)
           /\ A = {} => ServedTo(q, A, C) = 0
<1>1. IsFiniteSet(A) /\ IsFiniteSet(C) /\ D \in SUBSET Counter /\ A \in SUBSET A
  BY FS_Subset, ClassesFinite, ScraperAssumption
<1>2. \A p \in A : since[q][p].served \in Counters
  BY DEF Typed, Since
<1> DEFINE f == [p \in A |-> SumFunctionOnSet(since[q][p].served, C)]
           g == [p \in A |-> SumFunctionOnSet(since[q][p].served, D)]
<1>3. \A p \in A : /\ SumFunctionOnSet(since[q][p].served, C) \in Nat
                   /\ SumFunctionOnSet(since[q][p].served, D) \in Nat
  BY <1>1, <1>2, CountTyped
<1>4. ASSUME NEW p \in A
      PROVE  SumFunctionOnSet(since[q][p].served, D) <= SumFunctionOnSet(since[q][p].served, C)
  <2> PICK k : k = since[q][p].served
    OBVIOUS
  <2>1. /\ \A y \in D : k[y] \in Nat
        /\ \A y \in C : k[y] \in Nat
        /\ \A y \in D : k[y] <= k[y]
    BY <1>1, <1>2 DEF Counters
  <2>2. SumFunctionOnSet(k, D) <= SumFunctionOnSet(k, C)
    BY <1>1, <2>1, SumGrows
  <2> QED BY <2>2
<1>5. /\ \A p \in A : f[p] \in Nat
      /\ \A p \in A : g[p] \in Nat
      /\ \A p \in A : g[p] <= f[p]
  BY <1>3, <1>4
<1>6. ServedTo(q, A, C) = SumFunctionOnSet(f, A) /\ ServedTo(q, A, D) = SumFunctionOnSet(g, A)
  BY DEF ServedTo, SumFunction
<1> HIDE DEF f, g
<1>7. SumFunctionOnSet(f, A) \in Nat /\ (A = {} => SumFunctionOnSet(f, A) = 0)
  BY <1>1, <1>5, SumTyped
<1>8. SumFunctionOnSet(g, A) <= SumFunctionOnSet(f, A)
  BY <1>1, <1>5, SumGrows
<1> QED BY <1>1, <1>2, <1>3, <1>6, <1>7, <1>8

(* The pods M are counted: each has a snapshot, not above its counters. *)
Countable(M) ==
    \A p \in M : previous[p] # Absent /\ Total(stats[p]) >= Total(previous[p])

(* The three terms of a counted pod. *)
LEMMA PodCounted ==
    ASSUME ScraperInv, NEW q \in Policy, NEW M \in SUBSET Pod, Countable(M), NEW p \in M
    PROVE  /\ stats[p] \in Counters /\ previous[p] \in Counters
           /\ since[q][p].served \in Counters
           /\ \A c \in Counter : stats[p][c] <= previous[p][c] + since[q][p].served[c]
           /\ Total(stats[p]) - Total(previous[p]) \in Nat
           /\ SuccessDelta(q, stats[p], previous[p]) \in Nat
           /\ NonNegDelta(stats[p][Shed], previous[p][Shed]) \in Nat
<1>1. /\ stats[p] \in Counters /\ previous[p] \in Counters
      /\ since[q][p].served \in Counters
      /\ Total(stats[p]) >= Total(previous[p]) /\ previous[p] # Absent
  BY DEF ScraperInv, Typed, Since, Countable
<1>2. \A c \in Counter : stats[p][c] <= previous[p][c] + since[q][p].served[c]
  BY <1>1 DEF ScraperInv, CountersBounded
<1>3. /\ Total(stats[p]) \in Nat /\ Total(previous[p]) \in Nat
      /\ SuccessDelta(q, stats[p], previous[p]) \in Nat
      /\ NonNegDelta(stats[p][Shed], previous[p][Shed]) \in Nat
  BY <1>1, DeltaTyped DEF Counter
<1>4. Total(stats[p]) - Total(previous[p]) \in Nat
  BY <1>1, <1>3
<1> QED BY <1>1, <1>2, <1>3, <1>4

(* The three sums of a read are at most what the pods that answered served. *)
LEMMA ReadBounded ==
    ASSUME ScraperInv, NEW q \in Policy, NEW A \in SUBSET Pod, NEW M \in SUBSET A,
           Countable(M)
    PROVE  /\ TotalDelta(M) \in Nat /\ TotalDelta(M) <= ServedTo(q, A, Class)
           /\ SuccessSum(q, M) \in Nat /\ SuccessSum(q, M) <= ServedTo(q, A, Successful(q))
           /\ ShedSum(M) \in Nat /\ ShedSum(M) <= ServedTo(q, A, {Shed})
<1>1. /\ Typed /\ M \in SUBSET Pod /\ Class \in SUBSET Counter
      /\ Successful(q) \in SUBSET Counter /\ {Shed} \in SUBSET Counter
  BY DEF ScraperInv, Counter, Successful
<1>2. IsFiniteSet(A) /\ IsFiniteSet(M)
  BY FS_Subset, ScraperAssumption, <1>1
<1>3. ASSUME NEW C \in SUBSET Counter, NEW f,
             \A p \in M : f[p] \in Nat,
             \A p \in M : f[p] <= SumFunctionOnSet(since[q][p].served, C)
      PROVE  SumFunctionOnSet(f, M) \in Nat /\ SumFunctionOnSet(f, M) <= ServedTo(q, A, C)
  <2> DEFINE g == [p \in A |-> SumFunctionOnSet(since[q][p].served, C)]
  <2>1. /\ \A p \in A : g[p] \in Nat
        /\ \A p \in M : f[p] <= g[p]
    <3>1. C \in SUBSET C
      OBVIOUS
    <3> QED BY <1>1, <1>3, <3>1, ServedTyped
  <2>2. ServedTo(q, A, C) = SumFunctionOnSet(g, A)
    BY DEF ServedTo, SumFunction
  <2> HIDE DEF g
  <2>3. SumFunctionOnSet(f, M) <= SumFunctionOnSet(g, A)
    BY <1>2, <1>3, <2>1, SumGrows
  <2>4. SumFunctionOnSet(f, M) \in Nat
    BY <1>2, <1>3, SumTyped
  <2> QED BY <2>2, <2>3, <2>4
<1>4. ASSUME NEW p \in M
      PROVE  /\ Total(stats[p]) - Total(previous[p]) \in Nat
             /\ Total(stats[p]) - Total(previous[p])
                    <= SumFunctionOnSet(since[q][p].served, Class)
             /\ SuccessDelta(q, stats[p], previous[p]) \in Nat
             /\ SuccessDelta(q, stats[p], previous[p])
                    <= SumFunctionOnSet(since[q][p].served, Successful(q))
             /\ NonNegDelta(stats[p][Shed], previous[p][Shed]) \in Nat
             /\ NonNegDelta(stats[p][Shed], previous[p][Shed])
                    <= SumFunctionOnSet(since[q][p].served, {Shed})
  <2>1. /\ stats[p] \in Counters /\ previous[p] \in Counters
        /\ since[q][p].served \in Counters
        /\ \A c \in Counter : stats[p][c] <= previous[p][c] + since[q][p].served[c]
        /\ Total(stats[p]) - Total(previous[p]) \in Nat
        /\ SuccessDelta(q, stats[p], previous[p]) \in Nat
        /\ NonNegDelta(stats[p][Shed], previous[p][Shed]) \in Nat
    BY <1>1, PodCounted
  <2>2. /\ Total(stats[p]) - Total(previous[p]) <= SumFunctionOnSet(since[q][p].served, Class)
        /\ SuccessDelta(q, stats[p], previous[p])
                <= SumFunctionOnSet(since[q][p].served, Successful(q))
        /\ NonNegDelta(stats[p][Shed], previous[p][Shed]) <= since[q][p].served[Shed]
    BY <2>1, DeltaBounded
  <2>3. SumFunctionOnSet(since[q][p].served, {Shed}) = since[q][p].served[Shed]
    BY <2>1, SumOfOne DEF Counter
  <2> QED BY <2>1, <2>2, <2>3
<1> DEFINE t == [p \in M |-> Total(stats[p]) - Total(previous[p])]
           u == [p \in M |-> SuccessDelta(q, stats[p], previous[p])]
           v == [p \in M |-> NonNegDelta(stats[p][Shed], previous[p][Shed])]
<1>5. /\ TotalDelta(M) = SumFunctionOnSet(t, M)
      /\ SuccessSum(q, M) = SumFunctionOnSet(u, M)
      /\ ShedSum(M) = SumFunctionOnSet(v, M)
  BY DEF TotalDelta, SuccessSum, ShedSum, SumFunction
<1>6. /\ \A p \in M : t[p] \in Nat
      /\ \A p \in M : t[p] <= SumFunctionOnSet(since[q][p].served, Class)
      /\ \A p \in M : u[p] \in Nat
      /\ \A p \in M : u[p] <= SumFunctionOnSet(since[q][p].served, Successful(q))
      /\ \A p \in M : v[p] \in Nat
      /\ \A p \in M : v[p] <= SumFunctionOnSet(since[q][p].served, {Shed})
  BY <1>4
<1> HIDE DEF t, u, v
<1>7. SumFunctionOnSet(t, M) \in Nat /\ SumFunctionOnSet(t, M) <= ServedTo(q, A, Class)
  BY <1>1, <1>3, <1>6
<1>8. /\ SumFunctionOnSet(u, M) \in Nat
      /\ SumFunctionOnSet(u, M) <= ServedTo(q, A, Successful(q))
  BY <1>1, <1>3, <1>6
<1>9. SumFunctionOnSet(v, M) \in Nat /\ SumFunctionOnSet(v, M) <= ServedTo(q, A, {Shed})
  BY <1>1, <1>3, <1>6
<1> QED BY <1>5, <1>7, <1>8, <1>9

(* They are at least what the pods served that stayed. *)
LEMMA ReadComplete ==
    ASSUME ScraperInv, NEW q \in Policy, NEW M \in SUBSET Pod, Countable(M),
           NEW S \in SUBSET M,
           \A p \in S : \A c \in Counter :
               stats[p][c] = previous[p][c] + since[q][p].served[c]
    PROVE  /\ ServedTo(q, S, Class) <= TotalDelta(M)
           /\ ServedTo(q, S, Successful(q)) <= SuccessSum(q, M)
           /\ ServedTo(q, S, {Shed}) <= ShedSum(M)
<1>1. /\ Typed /\ S \in SUBSET Pod /\ Class \in SUBSET Counter
      /\ Successful(q) \in SUBSET Counter /\ {Shed} \in SUBSET Counter
  BY DEF ScraperInv, Counter, Successful
<1>2. IsFiniteSet(M)
  BY FS_Subset, ScraperAssumption
<1>3. ASSUME NEW C \in SUBSET Counter, NEW f,
             \A p \in M : f[p] \in Nat,
             \A p \in S : SumFunctionOnSet(since[q][p].served, C) <= f[p]
      PROVE  ServedTo(q, S, C) <= SumFunctionOnSet(f, M)
  <2> DEFINE g == [p \in S |-> SumFunctionOnSet(since[q][p].served, C)]
  <2>1. /\ \A p \in S : g[p] \in Nat
        /\ \A p \in S : g[p] <= f[p]
    <3>1. C \in SUBSET C
      OBVIOUS
    <3> QED BY <1>1, <1>3, <3>1, ServedTyped
  <2>2. ServedTo(q, S, C) = SumFunctionOnSet(g, S)
    BY DEF ServedTo, SumFunction
  <2> HIDE DEF g
  <2>3. SumFunctionOnSet(g, S) <= SumFunctionOnSet(f, M)
    BY <1>2, <1>3, <2>1, SumGrows
  <2> QED BY <2>2, <2>3
<1>4. ASSUME NEW p \in M
      PROVE  /\ stats[p] \in Counters /\ previous[p] \in Counters
             /\ since[q][p].served \in Counters
             /\ Total(stats[p]) - Total(previous[p]) \in Nat
             /\ SuccessDelta(q, stats[p], previous[p]) \in Nat
             /\ NonNegDelta(stats[p][Shed], previous[p][Shed]) \in Nat
  BY PodCounted
<1>5. ASSUME NEW p \in S
      PROVE  /\ SumFunctionOnSet(since[q][p].served, Class)
                    <= Total(stats[p]) - Total(previous[p])
             /\ SumFunctionOnSet(since[q][p].served, Successful(q))
                    <= SuccessDelta(q, stats[p], previous[p])
             /\ SumFunctionOnSet(since[q][p].served, {Shed})
                    <= NonNegDelta(stats[p][Shed], previous[p][Shed])
  <2>1. /\ stats[p] \in Counters /\ previous[p] \in Counters
        /\ since[q][p].served \in Counters
        /\ Total(stats[p]) - Total(previous[p]) \in Nat
        /\ SuccessDelta(q, stats[p], previous[p]) \in Nat
        /\ NonNegDelta(stats[p][Shed], previous[p][Shed]) \in Nat
        /\ \A c \in Counter : stats[p][c] = previous[p][c] + since[q][p].served[c]
    BY <1>4
  <2>2. /\ Total(stats[p]) - Total(previous[p]) = SumFunctionOnSet(since[q][p].served, Class)
        /\ SuccessDelta(q, stats[p], previous[p])
                >= SumFunctionOnSet(since[q][p].served, Successful(q))
        /\ NonNegDelta(stats[p][Shed], previous[p][Shed]) >= since[q][p].served[Shed]
    BY <2>1, DeltaExact
  <2>3. SumFunctionOnSet(since[q][p].served, {Shed}) = since[q][p].served[Shed]
    BY <2>1, SumOfOne DEF Counter
  <2>4. /\ SumFunctionOnSet(since[q][p].served, Successful(q)) \in Nat
        /\ SumFunctionOnSet(since[q][p].served, {Shed}) \in Nat
    BY <1>1, <2>1, CountTyped
  <2> QED BY <2>1, <2>2, <2>3, <2>4
<1> DEFINE t == [p \in M |-> Total(stats[p]) - Total(previous[p])]
           u == [p \in M |-> SuccessDelta(q, stats[p], previous[p])]
           v == [p \in M |-> NonNegDelta(stats[p][Shed], previous[p][Shed])]
<1>6. /\ TotalDelta(M) = SumFunctionOnSet(t, M)
      /\ SuccessSum(q, M) = SumFunctionOnSet(u, M)
      /\ ShedSum(M) = SumFunctionOnSet(v, M)
  BY DEF TotalDelta, SuccessSum, ShedSum, SumFunction
<1>7. /\ \A p \in M : t[p] \in Nat
      /\ \A p \in S : SumFunctionOnSet(since[q][p].served, Class) <= t[p]
      /\ \A p \in M : u[p] \in Nat
      /\ \A p \in S : SumFunctionOnSet(since[q][p].served, Successful(q)) <= u[p]
      /\ \A p \in M : v[p] \in Nat
      /\ \A p \in S : SumFunctionOnSet(since[q][p].served, {Shed}) <= v[p]
  BY <1>4, <1>5
<1> HIDE DEF t, u, v
<1>8. ServedTo(q, S, Class) <= SumFunctionOnSet(t, M)
  BY <1>1, <1>3, <1>7
<1>9. ServedTo(q, S, Successful(q)) <= SumFunctionOnSet(u, M)
  BY <1>1, <1>3, <1>7
<1>10. ServedTo(q, S, {Shed}) <= SumFunctionOnSet(v, M)
  BY <1>1, <1>3, <1>7
<1> QED BY <1>6, <1>8, <1>9, <1>10

(* If none of the counted pods restarted, the total exceeds the successes  *)
(* by the failures of the pods that stayed, or by more.                    *)
LEMMA ReadShowsFailures ==
    ASSUME ScraperInv, NEW q \in Policy, NEW M \in SUBSET Pod, Countable(M),
           \A p \in M : ~since[q][p].reset,
           NEW S \in SUBSET M,
           \A p \in S : \A c \in Counter :
               stats[p][c] = previous[p][c] + since[q][p].served[c]
    PROVE  ServedTo(q, S, Class \ Successful(q)) + SuccessSum(q, M) <= TotalDelta(M)
<1> DEFINE failing == Class \ Successful(q)
<1>1. /\ Typed /\ S \in SUBSET Pod /\ failing \in SUBSET Counter
      /\ failing \in SUBSET failing
  BY DEF ScraperInv, Counter
<1>2. IsFiniteSet(M) /\ IsFiniteSet(S) /\ IsFiniteSet(failing)
  BY <1>1, FS_Subset, ScraperAssumption, ClassesFinite
<1>3. ASSUME NEW p \in M
      PROVE  /\ stats[p] \in Counters /\ previous[p] \in Counters
             /\ since[q][p].served \in Counters
             /\ Total(stats[p]) - Total(previous[p]) \in Nat
             /\ SuccessDelta(q, stats[p], previous[p]) \in Nat
             /\ FailureDelta(q, stats[p], previous[p]) \in Nat
             /\ Total(stats[p]) - Total(previous[p])
                  = SuccessDelta(q, stats[p], previous[p])
                        + FailureDelta(q, stats[p], previous[p])
  <2>1. /\ stats[p] \in Counters /\ previous[p] \in Counters
        /\ since[q][p].served \in Counters
        /\ Total(stats[p]) - Total(previous[p]) \in Nat
        /\ SuccessDelta(q, stats[p], previous[p]) \in Nat
    BY PodCounted
  <2>2. previous[p] # Absent
    BY DEF Countable
  <2>3. \A c \in Class : previous[p][c] <= stats[p][c]
    BY <2>2 DEF ScraperInv, NeverBelow, Counter
  <2>4. /\ FailureDelta(q, stats[p], previous[p]) \in Nat
        /\ Total(stats[p]) - Total(previous[p])
             = SuccessDelta(q, stats[p], previous[p]) + FailureDelta(q, stats[p], previous[p])
    BY <2>1, <2>3, DeltaSplits
  <2> QED BY <2>1, <2>4
<1>4. ASSUME NEW p \in S
      PROVE  /\ SumFunctionOnSet(since[q][p].served, failing) \in Nat
             /\ SumFunctionOnSet(since[q][p].served, failing)
                    <= FailureDelta(q, stats[p], previous[p])
  <2> DEFINE d == [c \in Class |-> NonNegDelta(stats[p][c], previous[p][c])]
  <2> PICK k : k = since[q][p].served
    OBVIOUS
  <2>1. /\ stats[p] \in Counters /\ previous[p] \in Counters /\ k \in Counters
        /\ \A c \in Counter : stats[p][c] = previous[p][c] + k[c]
    BY <1>3
  <2>2. \A c \in failing : d[c] \in Nat /\ k[c] \in Nat /\ k[c] <= d[c]
    <3> SUFFICES ASSUME NEW c \in failing PROVE d[c] \in Nat /\ k[c] \in Nat /\ k[c] <= d[c]
      OBVIOUS
    <3>1. c \in Counter /\ c \in Class
      BY DEF Counter
    <3>2. stats[p][c] \in Nat /\ previous[p][c] \in Nat /\ k[c] \in Nat
      BY <2>1, <3>1 DEF Counters
    <3>3. stats[p][c] = previous[p][c] + k[c]
      BY <2>1, <3>1
    <3> QED BY <3>1, <3>2, <3>3 DEF NonNegDelta
  <2>3. FailureDelta(q, stats[p], previous[p]) = SumFunctionOnSet(d, failing)
    BY DEF FailureDelta
  <2> HIDE DEF d, failing
  <2>4. SumFunctionOnSet(k, failing) <= SumFunctionOnSet(d, failing)
    BY <1>1, <1>2, <2>2, SumGrows
  <2>5. SumFunctionOnSet(k, failing) \in Nat
    BY <1>1, <2>1, CountTyped
  <2> QED BY <2>3, <2>4, <2>5
<1> DEFINE t == [p \in M |-> Total(stats[p]) - Total(previous[p])]
           u == [p \in M |-> SuccessDelta(q, stats[p], previous[p])]
           w == [p \in M |-> FailureDelta(q, stats[p], previous[p])]
           g == [p \in S |-> SumFunctionOnSet(since[q][p].served, failing)]
<1>5. /\ TotalDelta(M) = SumFunctionOnSet(t, M)
      /\ SuccessSum(q, M) = SumFunctionOnSet(u, M)
      /\ ServedTo(q, S, failing) = SumFunctionOnSet(g, S)
  BY DEF TotalDelta, SuccessSum, ServedTo, SumFunction
<1>6. /\ \A p \in M : u[p] \in Nat /\ w[p] \in Nat /\ t[p] = u[p] + w[p]
      /\ \A p \in M : u[p] \in Nat
      /\ \A p \in M : w[p] \in Nat
      /\ \A p \in S : g[p] \in Nat
      /\ \A p \in S : g[p] <= w[p]
  BY <1>3, <1>4
<1> HIDE DEF t, u, w, g
<1>7. SumFunctionOnSet(t, M) = SumFunctionOnSet(u, M) + SumFunctionOnSet(w, M)
  BY <1>2, <1>6, SumAdds
<1>8. SumFunctionOnSet(g, S) <= SumFunctionOnSet(w, M)
  BY <1>2, <1>6, SumGrows
<1>9. /\ SumFunctionOnSet(u, M) \in Nat /\ SumFunctionOnSet(w, M) \in Nat
      /\ SumFunctionOnSet(g, S) \in Nat
  BY <1>2, <1>6, SumTyped
<1>10. SumFunctionOnSet(g, S) + SumFunctionOnSet(u, M) <= SumFunctionOnSet(t, M)
  BY <1>7, <1>8, <1>9
<1> QED BY <1>5, <1>10

(* When no request failed, the successes make up for the total: no class   *)
(* that fails has grown.                                                   *)
LEMMA ReadWithoutFailure ==
    ASSUME ScraperInv, NEW q \in Policy, NEW A \in SUBSET Pod, NEW M \in SUBSET A,
           Countable(M), ServedTo(q, A, Class \ Successful(q)) = 0
    PROVE  TotalDelta(M) <= SuccessSum(q, M)
<1> DEFINE failing == Class \ Successful(q)
           g == [p \in A |-> SumFunctionOnSet(since[q][p].served, failing)]
<1>1. /\ Typed /\ M \in SUBSET Pod /\ failing \in SUBSET Counter
      /\ failing \in SUBSET failing /\ M \in SUBSET M
  BY DEF ScraperInv, Counter
<1>2. IsFiniteSet(A) /\ IsFiniteSet(M) /\ IsFiniteSet(failing)
  BY FS_Subset, ScraperAssumption, <1>1, ClassesFinite
<1>3. ServedTo(q, A, failing) = SumFunctionOnSet(g, A)
  BY DEF ServedTo, SumFunction
<1>4. \A p \in A : g[p] \in Nat
  <2> HIDE DEF failing
  <2> QED BY <1>1, ServedTyped
<1>5. ASSUME NEW p \in M
      PROVE  Total(stats[p]) - Total(previous[p]) <= SuccessDelta(q, stats[p], previous[p])
  <2>1. g[p] = 0
    <3>1. SumFunctionOnSet(g, A) = 0
      BY <1>3
    <3> HIDE DEF g, failing
    <3> QED BY <1>2, <1>4, <3>1, SumZero
  <2>2. SumFunctionOnSet(since[q][p].served, failing) = 0
    BY <2>1
  <2>3. /\ stats[p] \in Counters /\ previous[p] \in Counters
        /\ since[q][p].served \in Counters
        /\ \A c \in Counter : stats[p][c] <= previous[p][c] + since[q][p].served[c]
    BY <1>1, PodCounted
  <2>4. ASSUME NEW c \in failing PROVE stats[p][c] <= previous[p][c]
    <3> PICK k : k = since[q][p].served
      OBVIOUS
    <3>1. \A y \in failing : k[y] \in Nat
      BY <1>1, <2>3 DEF Counters
    <3>2. k[c] = 0
      <4> HIDE DEF failing
      <4> QED BY <1>2, <2>2, <3>1, SumZero
    <3>3. c \in Counter /\ previous[p][c] \in Nat
      BY <1>1, <2>3 DEF Counters
    <3> QED BY <2>3, <3>2, <3>3
  <2> QED BY <2>3, <2>4, DeltaWithoutFailure
<1> DEFINE t == [p \in M |-> Total(stats[p]) - Total(previous[p])]
           u == [p \in M |-> SuccessDelta(q, stats[p], previous[p])]
<1>6. TotalDelta(M) = SumFunctionOnSet(t, M) /\ SuccessSum(q, M) = SumFunctionOnSet(u, M)
  BY DEF TotalDelta, SuccessSum, SumFunction
<1>7. /\ \A p \in M : t[p] \in Nat
      /\ \A p \in M : u[p] \in Nat
      /\ \A p \in M : t[p] <= u[p]
  BY <1>1, <1>5, PodCounted
<1> HIDE DEF t, u
<1>8. SumFunctionOnSet(t, M) <= SumFunctionOnSet(u, M)
  BY <1>1, <1>2, <1>7, SumGrows
<1> QED BY <1>6, <1>8
-----------------------------------------------------------------------------
(* The theorems. *)

Right == NothingInvented /\ SteadyPodsAreCounted /\ ExtremesAreHonest

(* When no read was just made there is nothing to be wrong about. *)
LEMMA NothingReadIsRight == result = NoResult => Right
<1> SUFFICES ASSUME result = NoResult PROVE Right
  OBVIOUS
<1>1. /\ result.samples = 0 /\ result.success = 0 /\ result.shed = 0
      /\ result.answered = {} /\ result.steady = {} /\ Successes = {}
  BY DEF NoResult, Successes
<1>2. \A C : Served({}, C) = 0
  <2> TAKE C
  <2> DEFINE f == [p \in {} |-> SumFunctionOnSet(result.served[p], C)]
  <2>1. IsFiniteSet({}) /\ \A y \in {} : f[y] \in Nat
    BY FS_EmptySet
  <2>2. SumFunctionOnSet(f, {}) = 0
    <3> HIDE DEF f
    <3> QED BY <2>1, SumTyped
  <2> QED BY <2>2 DEF Served, SumFunction
<1> QED BY <1>1, <1>2 DEF Right, NothingInvented, SteadyPodsAreCounted, Counted,
                          ExtremesAreHonest

(* What a read returns is right of the pods that answered and of the pods  *)
(* that stayed.                                                            *)
LEMMA ReadIsRight ==
    ASSUME ScraperInv, NEW q \in Policy, ReadSignals(q)
    PROVE  Right'
<1> DEFINE A == Selects[q] \cap running \cap reachable
           M == Measured(A)
           S == {p \in Kept(q, A) : ~since[q][p].crossed}
           total == TotalDelta(M)
           success == SuccessSum(q, M)
<1>1. /\ A \in SUBSET Pod /\ M \in SUBSET A /\ M \in SUBSET Pod /\ Countable(M)
  BY DEF ScraperInv, Typed, Measured, Countable
<1>2. ASSUME NEW p \in S
      PROVE  /\ p \in M
             /\ \A c \in Counter : stats[p][c] = previous[p][c] + since[q][p].served[c]
  <2>1. /\ p \in A /\ p \in Pod /\ p \notin recent
        /\ since[q][p].seen /\ ~since[q][p].reset /\ ~since[q][p].crossed
    BY <1>1 DEF Kept
  <2>2. /\ previous[p] # Absent
        /\ \A c \in Counter : stats[p][c] = previous[p][c] + since[q][p].served[c]
    BY <2>1 DEF ScraperInv, SteadyExact
  <2>3. /\ stats[p] \in Counters /\ previous[p] \in Counters
        /\ since[q][p].served \in Counters
    BY <2>1, <2>2 DEF ScraperInv, Typed, Since
  <2>4. Total(stats[p]) - Total(previous[p]) = SumFunctionOnSet(since[q][p].served, Class)
    BY <2>2, <2>3, DeltaExact
  <2>5. /\ Total(stats[p]) \in Nat /\ Total(previous[p]) \in Nat
        /\ SumFunctionOnSet(since[q][p].served, Class) \in Nat
    BY <2>3, CountTyped DEF Counter, Total
  <2>6. Total(stats[p]) >= Total(previous[p])
    BY <2>4, <2>5
  <2> QED BY <2>1, <2>2, <2>6 DEF Measured
<1>3. S \in SUBSET M /\ S \in SUBSET Pod
  BY <1>1, <1>2
<1>4. /\ result'.policy = q /\ result'.answered = A /\ result'.steady = S
      /\ result'.served = [p \in Pod |-> since[q][p].served]
      /\ result'.samples = IF total < 1 THEN 0 ELSE total
      /\ result'.success = IF total < 1 THEN 0
                           ELSE IF success > total THEN total ELSE success
      /\ result'.shed = IF total < 1 THEN 0 ELSE ShedSum(M)
  BY DEF ReadSignals, Signals
<1>4a. result'.restarted = {p \in M : since[q][p].reset}
  BY DEF ReadSignals
<1>5. Successes' = Successful(q)
  BY <1>4, ScraperAssumption DEF Successes, Successful, Succeeds
<1>6. \A B \in SUBSET Pod : \A C :
          SumFunction([p \in B |-> SumFunctionOnSet(result'.served[p], C)]) = ServedTo(q, B, C)
  <2> SUFFICES ASSUME NEW B \in SUBSET Pod, NEW C
               PROVE  [p \in B |-> SumFunctionOnSet(result'.served[p], C)]
                        = [p \in B |-> SumFunctionOnSet(since[q][p].served, C)]
    BY DEF ServedTo
  <2>1. \A p \in B : result'.served[p] = since[q][p].served
    BY <1>4
  <2> QED BY <2>1
<1> HIDE DEF A, M, S, total, success
<1>7. /\ total \in Nat /\ total <= ServedTo(q, A, Class)
      /\ success \in Nat /\ success <= ServedTo(q, A, Successful(q))
      /\ ShedSum(M) \in Nat /\ ShedSum(M) <= ServedTo(q, A, {Shed})
  BY <1>1, ReadBounded DEF total, success
<1>8. /\ ServedTo(q, S, Class) <= total
      /\ ServedTo(q, S, Successful(q)) <= success
      /\ ServedTo(q, S, {Shed}) <= ShedSum(M)
  BY <1>1, <1>2, <1>3, ReadComplete DEF total, success
<1>9. ServedTo(q, A, Class \ Successful(q)) = 0 => total <= success
  BY <1>1, ReadWithoutFailure DEF total, success
<1>10. /\ Typed /\ Class \in SUBSET Counter /\ Successful(q) \in SUBSET Class
       /\ {Shed} \in SUBSET Counter /\ Successful(q) \in SUBSET Counter
  BY DEF ScraperInv, Counter, Successful
<1>11. /\ ServedTo(q, A, Class) \in Nat /\ ServedTo(q, S, Class) \in Nat
       /\ ServedTo(q, A, Successful(q)) \in Nat /\ ServedTo(q, S, Successful(q)) \in Nat
       /\ ServedTo(q, A, {Shed}) \in Nat /\ ServedTo(q, S, {Shed}) \in Nat
       /\ ServedTo(q, S, Successful(q)) <= ServedTo(q, S, Class)
  BY <1>1, <1>3, <1>10, ServedTyped
<1>12. NothingInvented'
  <2>1. /\ Served(result.answered, Class)' = ServedTo(q, A, Class)
        /\ Served(result.answered, Successes)' = ServedTo(q, A, Successful(q))
        /\ Served(result.answered, {Shed})' = ServedTo(q, A, {Shed})
    BY <1>1, <1>4, <1>5, <1>6 DEF Served
  <2> QED BY <1>4, <1>7, <1>11, <2>1 DEF NothingInvented
<1>13. SteadyPodsAreCounted'
  <2>1. /\ Served(result.steady, Class)' = ServedTo(q, S, Class)
        /\ Served(result.steady, Successes)' = ServedTo(q, S, Successful(q))
        /\ Served(result.steady, {Shed})' = ServedTo(q, S, {Shed})
    BY <1>3, <1>4, <1>5, <1>6 DEF Served
  <2>2. Counted(result.steady)'
    BY <1>4, <1>7, <1>8, <1>11, <2>1 DEF Counted
  <2>3. Served(result.steady, Class \ Successes)' = ServedTo(q, S, Class \ Successful(q))
    <3>1. (Class \ Successes)' = Class \ Successful(q)
      BY <1>5
    <3>2. ServedTo(q, S, Class \ Successful(q))
            = SumFunction([p \in S |->
                  SumFunctionOnSet(result'.served[p], Class \ Successful(q))])
      BY <1>3, <1>6
    <3> QED BY <1>4, <3>1, <3>2 DEF Served
  <2>4. /\ ServedTo(q, S, Class \ Successful(q)) \in Nat
        /\ ServedTo(q, S, Class \ Successful(q)) <= ServedTo(q, S, Class)
    <3>1. /\ Class \ Successful(q) \in SUBSET Class
          /\ Class \ Successful(q) \in SUBSET Counter
          /\ Class \ Successful(q) \in SUBSET (Class \ Successful(q))
      BY <1>10
    <3> QED BY <1>3, <1>10, <3>1, ServedTyped
  <2>5. ASSUME result'.restarted = {}
        PROVE  ServedTo(q, S, Class \ Successful(q)) <= result'.samples - result'.success
    <3>1. \A p \in M : ~since[q][p].reset
      BY <1>4a, <2>5
    <3>2. ServedTo(q, S, Class \ Successful(q)) + success <= total
      BY <1>1, <1>2, <1>3, <3>1, ReadShowsFailures DEF total, success
    <3> QED BY <1>4, <1>7, <1>8, <1>11, <2>4, <3>2
  <2> QED BY <2>2, <2>3, <2>5 DEF SteadyPodsAreCounted
<1>14. ExtremesAreHonest'
  <2>1. /\ Served(result.answered, Class \ Successes)'
                = ServedTo(q, A, Class \ Successful(q))
        /\ Served(result.answered, Successes)' = ServedTo(q, A, Successful(q))
    <3>1. (Class \ Successes)' = Class \ Successful(q)
      BY <1>5
    <3>2. ServedTo(q, A, Class \ Successful(q))
            = SumFunction([p \in A |->
                  SumFunctionOnSet(result'.served[p], Class \ Successful(q))])
      BY <1>1, <1>6
    <3>3. ServedTo(q, A, Successful(q))
            = SumFunction([p \in A |-> SumFunctionOnSet(result'.served[p], Successful(q))])
      BY <1>1, <1>6
    <3> QED BY <1>4, <1>5, <3>1, <3>2, <3>3 DEF Served
  <2> QED BY <1>4, <1>7, <1>9, <1>11, <2>1 DEF ExtremesAreHonest
<1> QED BY <1>12, <1>13, <1>14 DEF Right

(* Every step keeps the signals right. *)
LEMMA NextRight ==
    ASSUME ScraperInv, Right, [Next]_vars
    PROVE  Right'
<1>1. result' = NoResult => Right'
  <2>1. (result = NoResult => Right)'
    BY NothingReadIsRight, PTL
  <2> QED BY <2>1
<1>2. CASE \E q \in Policy : ReadSignals(q)
  BY <1>2, ReadIsRight
<1>3. CASE DiscoveryFails \/ Age \/ \E p \in Pod, c \in Counter : Serve(p, c)
  BY <1>1, <1>3 DEF DiscoveryFails, Age, Serve
<1>4. CASE \E p \in Pod : Restart(p) \/ Leave(p) \/ Return(p) \/ Toggle(p)
  BY <1>1, <1>4 DEF Restart, Leave, Return, Toggle, Disrupt
<1>5. CASE UNCHANGED vars
  BY <1>5 DEF vars, Right, NothingInvented, SteadyPodsAreCounted, Counted,
              ExtremesAreHonest, Served, Successes
<1> QED BY <1>2, <1>3, <1>4, <1>5 DEF Next

(* The signals of every read are right. *)
LEMMA RightHolds == Spec => [](ScraperInv /\ Right)
<1>1. Init => ScraperInv /\ Right
  BY InitScraperInv, NothingReadIsRight DEF Init
<1>2. (ScraperInv /\ Right) /\ [Next]_vars => (ScraperInv /\ Right)'
  BY NextScraperInv, NextRight
<1> QED BY <1>1, <1>2, PTL DEF Spec

(* However the pods restart, leave, return or stop answering, and whichever *)
(* policies read, no read counts a request or a rejection twice or out of  *)
(* nothing, a failure as a success, or anything of a pod that did not      *)
(* answer (scraper.go:121-162, 185-188).                                   *)
THEOREM NothingIsInvented == Spec => []NothingInvented
<1>1. ScraperInv /\ Right => NothingInvented
  BY DEF Right
<1> QED BY <1>1, RightHolds, PTL

(* A read counts every request of the pods that stayed since this policy's *)
(* last read and that no other policy's read came across, whatever the     *)
(* other pods do (scraper.go:121-142), and shows each of their failures    *)
(* unless a pod that restarted is counted too (140-157).                   *)
THEOREM SteadyPodsCount == Spec => []SteadyPodsAreCounted
<1>1. ScraperInv /\ Right => SteadyPodsAreCounted
  BY DEF Right
<1> QED BY <1>1, RightHolds, PTL

(* No read shows a failure when all requests succeeded, or a success when  *)
(* all failed, also across a restart that the counters do not reveal       *)
(* (scraper.go:144-157, 185-188).                                          *)
THEOREM ExtremesShow == Spec => []ExtremesAreHonest
<1>1. ScraperInv /\ Right => ExtremesAreHonest
  BY DEF Right
<1> QED BY <1>1, RightHolds, PTL
=============================================================================
