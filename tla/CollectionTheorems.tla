------------------------- MODULE CollectionTheorems -------------------------
(***************************************************************************)
(* Facts about finite sets, sums and lists that the proofs of several      *)
(* components need: induction over finite sets and over the naturals with  *)
(* the property as a set, sums over finite sets, and sorted lists of all   *)
(* elements of a finite set.                                               *)
(***************************************************************************)
EXTENDS Integers, Sequences, SequencesExt, FiniteSetTheorems, WellFoundedInduction, TLAPS

-----------------------------------------------------------------------------
(* Induction *)

(* A family of sets that holds the empty set, and with a set also the set
   with one element more, holds every finite set. *)
LEMMA FiniteSetsReached ==
  ASSUME NEW S, IsFiniteSet(S), NEW P, {} \in P,
         \A T \in SUBSET S, x \in S : T \in P /\ x \notin T => T \cup {x} \in P
  PROVE  S \in P
<1> DEFINE Missed == {T \in FiniteSubsetsOf(S) : T \notin P}
<1>1. Missed = {}
  <2> SUFFICES ASSUME Missed # {} PROVE FALSE
    OBVIOUS
  <2>1. IsWellFoundedOn(StrictSubsetOrdering(S), FiniteSubsetsOf(S))
    BY FS_StrictSubsetOrderingWellFounded
  <2>2. Missed \subseteq FiniteSubsetsOf(S)
    OBVIOUS
  <2>3. PICK T \in Missed : \A U \in Missed : <<U, T>> \notin StrictSubsetOrdering(S)
    <3> HIDE DEF Missed
    <3> QED BY <2>1, <2>2, WFMin
  <2>4. T \in SUBSET S /\ IsFiniteSet(T) /\ T \notin P
    BY <2>3 DEF FiniteSubsetsOf
  <2>5. PICK x \in T : TRUE
    BY <2>4
  <2>6. T \ {x} \in FiniteSubsetsOf(S)
    BY <2>4, FS_Subset DEF FiniteSubsetsOf
  <2>7. <<T \ {x}, T>> \in StrictSubsetOrdering(S)
    BY <2>4, <2>5 DEF StrictSubsetOrdering
  <2>8. T \ {x} \in P
    BY <2>3, <2>6, <2>7
  <2>9. T \ {x} \in SUBSET S /\ x \in S /\ x \notin T \ {x} /\ (T \ {x}) \cup {x} = T
    BY <2>4, <2>5
  <2> QED BY <2>4, <2>8, <2>9
<1> QED BY <1>1 DEF FiniteSubsetsOf

LEMMA NaturalsReached ==
  ASSUME NEW P, 0 \in P, \A n \in Nat : n \in P => n + 1 \in P
  PROVE  Nat \subseteq P
<1> DEFINE Missed == Nat \ P
<1> SUFFICES ASSUME Missed # {} PROVE FALSE
  OBVIOUS
<1>1. Missed \subseteq Nat
  OBVIOUS
<1>2. PICK n \in Missed : \A m \in Missed : <<m, n>> \notin OpToRel(<, Nat)
  <2> HIDE DEF Missed
  <2> QED BY <1>1, NatLessThanWellFounded, WFMin
<1>3. n \in Nat /\ n \notin P
  BY <1>2
<1>4. n # 0
  BY <1>3
<1>5. n - 1 \in Nat /\ n - 1 < n /\ (n - 1) + 1 = n
  BY <1>3, <1>4
<1>6. n - 1 \notin Missed
  BY <1>2, <1>3, <1>5 DEF OpToRel
<1>7. n - 1 \in P
  BY <1>5, <1>6
<1> QED BY <1>3, <1>5, <1>7

-----------------------------------------------------------------------------
(* Sums *)

(* One step of a sum: f at some element of s, and the sum g of the others *)
Some(s) == CHOOSE x \in s : TRUE
SumOnce(f, g, s) == IF s = {} THEN 0 ELSE f[Some(s)] + g[s \ {Some(s)}]
Sums(f, g, S) == g = [s \in SUBSET S |-> SumOnce(f, g, s)]

LEMMA SumIsChosen ==
  ASSUME NEW f, NEW S
  PROVE  SumFunctionOnSet(f, S) = (CHOOSE g : Sums(f, g, S))[S]
BY DEF SumFunctionOnSet, FoldFunctionOnSet, MapThenFoldSet, Sums, SumOnce, Some

LEMMA SomeMember ==
  ASSUME NEW s, s # {}
  PROVE  Some(s) \in s
BY DEF Some

(* There are sums of all subsets: for subsets of n elements one after the
   other. *)
LEMMA SumsExist ==
  ASSUME NEW f, NEW S, IsFiniteSet(S)
  PROVE  \E g : Sums(f, g, S)
<1> DEFINE Upto(g, n) == \A s \in SUBSET S : Cardinality(s) <= n => g[s] = SumOnce(f, g, s)
           P == {n \in Nat : \E g : g = [s \in SUBSET S |-> g[s]] /\ Upto(g, n)}
<1>0. \A s \in SUBSET S : IsFiniteSet(s) /\ Cardinality(s) \in Nat /\ (Cardinality(s) = 0 <=> s = {})
  BY FS_Subset, FS_CardinalityType, FS_EmptySet
<1>1. 0 \in P
  <2> DEFINE g == [s \in SUBSET S |-> 0]
  <2>1. Upto(g, 0)
    BY <1>0 DEF SumOnce
  <2>2. g = [s \in SUBSET S |-> g[s]]
    OBVIOUS
  <2> HIDE DEF g
  <2> QED BY <2>1, <2>2
<1>2. ASSUME NEW n \in Nat, n \in P PROVE n + 1 \in P
  <2>1. PICK g : g = [s \in SUBSET S |-> g[s]] /\ Upto(g, n)
    BY <1>2
  <2> DEFINE h == [s \in SUBSET S |-> IF Cardinality(s) <= n THEN g[s] ELSE SumOnce(f, g, s)]
  <2>2. ASSUME NEW s \in SUBSET S, Cardinality(s) <= n + 1 PROVE h[s] = SumOnce(f, h, s)
    <3>1. h[s] = SumOnce(f, g, s)
      BY <2>1, <2>2
    <3>2. CASE s = {}
      BY <3>1, <3>2 DEF SumOnce
    <3>3. CASE s # {}
      <4>1. Some(s) \in s
        BY <3>3, SomeMember
      <4>2. s \ {Some(s)} \in SUBSET S
        OBVIOUS
      <4>3. IsFiniteSet(s) /\ Cardinality(s) \in Nat
        BY <1>0
      <4>4. Cardinality(s \ {Some(s)}) = Cardinality(s) - 1
        BY <4>1, <4>3, FS_RemoveElement
      <4>5. h[s \ {Some(s)}] = g[s \ {Some(s)}]
        BY <2>2, <4>2, <4>3, <4>4
      <4> QED BY <3>1, <3>3, <4>5 DEF SumOnce
    <3> QED BY <3>2, <3>3
  <2>3. h = [s \in SUBSET S |-> h[s]]
    OBVIOUS
  <2>4. Upto(h, n + 1)
    BY <2>2
  <2>5. n + 1 \in Nat
    OBVIOUS
  <2> HIDE DEF h, Upto
  <2> QED BY <2>3, <2>4, <2>5
<1>3. Cardinality(S) \in P
  <2> HIDE DEF P
  <2>1. \A n \in Nat : n \in P => n + 1 \in P
    BY <1>2
  <2> QED BY <1>0, <1>1, <2>1, NaturalsReached
<1>4. PICK g : g = [s \in SUBSET S |-> g[s]] /\ Upto(g, Cardinality(S))
  BY <1>3
<1>5. \A s \in SUBSET S : Cardinality(s) <= Cardinality(S)
  BY FS_Subset
<1>6. \A s \in SUBSET S : g[s] = SumOnce(f, g, s)
  BY <1>4, <1>5
<1>7. [s \in SUBSET S |-> g[s]] = [s \in SUBSET S |-> SumOnce(f, g, s)]
  BY <1>6
<1> QED BY <1>4, <1>7 DEF Sums

(* Sums of subsets do not depend on the set they are subsets of. *)
LEMMA SumsAgree ==
  ASSUME NEW f, NEW S, IsFiniteSet(S), NEW T \in SUBSET S, NEW g, NEW h,
         Sums(f, g, S), Sums(f, h, T)
  PROVE  g[T] = h[T]
<1> DEFINE P == {n \in Nat : \A s \in SUBSET T : Cardinality(s) <= n => g[s] = h[s]}
<1>0. \A s \in SUBSET T : IsFiniteSet(s) /\ Cardinality(s) \in Nat /\ (Cardinality(s) = 0 <=> s = {})
  BY FS_Subset, FS_CardinalityType, FS_EmptySet
<1>1. \A s \in SUBSET T : g[s] = SumOnce(f, g, s) /\ h[s] = SumOnce(f, h, s)
  <2>1. g = [s \in SUBSET S |-> SumOnce(f, g, s)] /\ h = [s \in SUBSET T |-> SumOnce(f, h, s)]
    BY DEF Sums
  <2> QED BY <2>1
<1>2. 0 \in P
  BY <1>0, <1>1 DEF SumOnce
<1>3. ASSUME NEW n \in Nat, n \in P PROVE n + 1 \in P
  <2> SUFFICES ASSUME NEW s \in SUBSET T, Cardinality(s) <= n + 1 PROVE g[s] = h[s]
    OBVIOUS
  <2>1. CASE s = {}
    BY <1>1, <2>1 DEF SumOnce
  <2>2. CASE s # {}
    <3>1. Some(s) \in s /\ IsFiniteSet(s) /\ Cardinality(s) \in Nat
      BY <1>0, <2>2, SomeMember
    <3>2. s \ {Some(s)} \in SUBSET T /\ Cardinality(s \ {Some(s)}) = Cardinality(s) - 1
      BY <3>1, FS_RemoveElement
    <3>3. g[s \ {Some(s)}] = h[s \ {Some(s)}]
      BY <1>3, <3>1, <3>2
    <3> QED BY <1>1, <2>2, <3>3 DEF SumOnce
  <2> QED BY <2>1, <2>2
<1>4. Cardinality(T) \in P
  <2> HIDE DEF P
  <2>1. \A n \in Nat : n \in P => n + 1 \in P
    BY <1>3
  <2> QED BY <1>0, <1>2, <2>1, NaturalsReached
<1> QED BY <1>0, <1>4

LEMMA SumUnfolds ==
  ASSUME NEW f, NEW S, IsFiniteSet(S)
  PROVE  SumFunctionOnSet(f, S) =
           IF S = {} THEN 0 ELSE f[Some(S)] + SumFunctionOnSet(f, S \ {Some(S)})
<1>1. PICK g : g = (CHOOSE h : Sums(f, h, S)) /\ Sums(f, g, S)
  BY SumsExist
<1>2. SumFunctionOnSet(f, S) = g[S] /\ g[S] = SumOnce(f, g, S)
  <2>1. g = [s \in SUBSET S |-> SumOnce(f, g, s)]
    BY <1>1 DEF Sums
  <2>2. g[S] = SumOnce(f, g, S)
    BY <2>1
  <2> QED BY <1>1, <2>2, SumIsChosen
<1>3. CASE S = {}
  BY <1>2, <1>3 DEF SumOnce
<1>4. CASE S # {}
  <2>1. PICK T : T = S \ {Some(S)} /\ T \in SUBSET S
    OBVIOUS
  <2>2. PICK k : k = (CHOOSE h : Sums(f, h, T)) /\ Sums(f, k, T)
    BY <2>1, FS_Subset, SumsExist
  <2>3. SumFunctionOnSet(f, T) = k[T]
    BY <2>2, SumIsChosen
  <2>4. g[T] = k[T]
    BY <1>1, <2>1, <2>2, SumsAgree
  <2> QED BY <1>2, <1>4, <2>1, <2>3, <2>4 DEF SumOnce
<1> QED BY <1>3, <1>4

LEMMA SumEmpty ==
  ASSUME NEW f
  PROVE  SumFunctionOnSet(f, {}) = 0
BY SumUnfolds, FS_EmptySet

(* A sum of naturals is one, and any element may be taken out of it. *)
LEMMA SumRemoves ==
  ASSUME NEW f, NEW S, IsFiniteSet(S), \A x \in S : f[x] \in Nat
  PROVE  /\ SumFunctionOnSet(f, S) \in Nat
         /\ \A x \in S : SumFunctionOnSet(f, S) = f[x] + SumFunctionOnSet(f, S \ {x})
<1> DEFINE Total(T) == SumFunctionOnSet(f, T)
           Good(T) == Total(T) \in Nat /\ \A x \in T : Total(T) = f[x] + Total(T \ {x})
           P == {n \in Nat : \A T \in SUBSET S : Cardinality(T) <= n => Good(T)}
<1>0. \A T \in SUBSET S : IsFiniteSet(T) /\ Cardinality(T) \in Nat /\ (Cardinality(T) = 0 <=> T = {})
  BY FS_Subset, FS_CardinalityType, FS_EmptySet
<1>1. \A T \in SUBSET S : Total(T) = IF T = {} THEN 0 ELSE f[Some(T)] + Total(T \ {Some(T)})
  BY <1>0, SumUnfolds
<1> HIDE DEF Total
<1>2. 0 \in P
  BY <1>0, <1>1
<1>3. ASSUME NEW n \in Nat, n \in P PROVE n + 1 \in P
  <2> SUFFICES ASSUME NEW T \in SUBSET S, Cardinality(T) <= n + 1 PROVE Good(T)
    OBVIOUS
  <2>1. CASE T = {}
    <3>1. Total(T) = 0
      BY <1>1, <2>1
    <3> QED BY <2>1, <3>1
  <2>2. CASE T # {}
    <3>1. PICK c : c = Some(T) /\ c \in T
      BY <2>2, SomeMember
    <3>2. \A x \in T : T \ {x} \in SUBSET S /\ Cardinality(T \ {x}) = Cardinality(T) - 1
      BY <1>0, FS_RemoveElement
    <3>3. \A x \in T : Cardinality(T \ {x}) <= n
      BY <1>0, <3>2
    <3>4. \A x \in T : Good(T \ {x})
      BY <1>3, <3>2, <3>3
    <3>5. Total(T) = f[c] + Total(T \ {c})
      BY <1>1, <2>2, <3>1
    <3>6. f[c] \in Nat /\ Total(T \ {c}) \in Nat
      BY <3>1, <3>4
    <3>7. ASSUME NEW x \in T, x # c PROVE Total(T) = f[x] + Total(T \ {x})
      <4>1. x \in T \ {c} /\ c \in T \ {x}
        BY <3>1, <3>7
      <4>2. PICK U : U = (T \ {c}) \ {x} /\ U = (T \ {x}) \ {c} /\ U \in SUBSET S
        OBVIOUS
      <4>3. Total(T \ {c}) = f[x] + Total(U) /\ Total(T \ {x}) = f[c] + Total(U)
        BY <3>1, <3>4, <4>1, <4>2
      <4>4. Total(U) \in Nat /\ f[x] \in Nat
        <5>1. Cardinality(U) <= n
          <6>1. Cardinality(U) <= Cardinality(T \ {x})
            BY <1>0, <3>2, <4>2, FS_Subset
          <6> QED BY <1>0, <3>2, <3>3, <4>2, <6>1
        <5> QED BY <1>3, <4>2, <5>1
      <4> QED BY <3>5, <3>6, <4>3, <4>4
    <3> QED BY <3>1, <3>5, <3>6, <3>7
  <2> QED BY <2>1, <2>2
<1>4. Cardinality(S) \in P
  <2> HIDE DEF P
  <2>1. \A n \in Nat : n \in P => n + 1 \in P
    BY <1>3
  <2> QED BY <1>0, <1>2, <2>1, NaturalsReached
<1>5. Good(S)
  BY <1>0, <1>4
<1> QED BY <1>5 DEF Total

LEMMA SumAdds ==
  ASSUME NEW f, NEW S, IsFiniteSet(S), NEW x, x \notin S, \A y \in S \cup {x} : f[y] \in Nat
  PROVE  SumFunctionOnSet(f, S \cup {x}) = f[x] + SumFunctionOnSet(f, S)
<1>1. IsFiniteSet(S \cup {x}) /\ (S \cup {x}) \ {x} = S /\ x \in S \cup {x}
  BY FS_AddElement
<1> QED BY <1>1, SumRemoves

(* Fewer and smaller summands *)
LEMMA SumGrows ==
  ASSUME NEW f, NEW g, NEW S, IsFiniteSet(S), NEW T \in SUBSET S,
         \A x \in S : g[x] \in Nat, \A x \in T : f[x] \in Nat /\ f[x] <= g[x]
  PROVE  SumFunctionOnSet(f, T) <= SumFunctionOnSet(g, S)
<1> DEFINE P == {U \in SUBSET S : SumFunctionOnSet(f, U \cap T) <= SumFunctionOnSet(g, U)}
<1>1. {} \in P
  <2>1. {} \cap T = {}
    OBVIOUS
  <2> QED BY <2>1, SumEmpty
<1>2. ASSUME NEW U \in SUBSET S, NEW x \in S, U \in P, x \notin U PROVE U \cup {x} \in P
  <2>1. IsFiniteSet(U) /\ IsFiniteSet(U \cap T)
    BY FS_Subset
  <2>2. PICK a, b : a = SumFunctionOnSet(f, U \cap T) /\ b = SumFunctionOnSet(g, U)
    OBVIOUS
  <2>3. a \in Nat /\ b \in Nat /\ a <= b
    BY <1>2, <2>1, <2>2, SumRemoves
  <2>4. SumFunctionOnSet(g, U \cup {x}) = g[x] + b
    BY <1>2, <2>1, <2>2, SumAdds
  <2>5. CASE x \in T
    <3>1. (U \cup {x}) \cap T = (U \cap T) \cup {x} /\ x \notin U \cap T
      BY <1>2, <2>5
    <3>2. SumFunctionOnSet(f, (U \cup {x}) \cap T) = f[x] + a
      BY <2>1, <2>2, <2>5, <3>1, SumAdds
    <3> QED BY <2>3, <2>4, <2>5, <3>2
  <2>6. CASE x \notin T
    <3>1. (U \cup {x}) \cap T = U \cap T
      BY <2>6
    <3>2. SumFunctionOnSet(f, (U \cup {x}) \cap T) = a /\ a <= g[x] + b
      BY <2>2, <2>3, <3>1
    <3> QED BY <2>4, <3>2
  <2> QED BY <2>5, <2>6
<1>3. S \in P
  <2> HIDE DEF P
  <2> QED BY <1>1, <1>2, FiniteSetsReached
<1>4. S \cap T = T
  OBVIOUS
<1> QED BY <1>3, <1>4

LEMMA SumSame ==
  ASSUME NEW f, NEW g, NEW S, IsFiniteSet(S), \A x \in S : f[x] \in Nat /\ g[x] = f[x]
  PROVE  SumFunctionOnSet(g, S) = SumFunctionOnSet(f, S)
<1>1. S \in SUBSET S /\ \A x \in S : g[x] \in Nat /\ f[x] \in Nat /\ f[x] <= g[x] /\ g[x] <= f[x]
  OBVIOUS
<1>2. SumFunctionOnSet(f, S) <= SumFunctionOnSet(g, S) /\ SumFunctionOnSet(g, S) <= SumFunctionOnSet(f, S)
  BY <1>1, SumGrows
<1>3. SumFunctionOnSet(f, S) \in Nat /\ SumFunctionOnSet(g, S) \in Nat
  BY <1>1, SumRemoves
<1> QED BY <1>2, <1>3

(* One summand grows by one. *)
LEMMA SumBumped ==
  ASSUME NEW f, NEW g, NEW S, IsFiniteSet(S), NEW x \in S, \A y \in S : f[y] \in Nat,
         \A y \in S : g[y] = IF y = x THEN f[y] + 1 ELSE f[y]
  PROVE  SumFunctionOnSet(g, S) = SumFunctionOnSet(f, S) + 1
<1>1. \A y \in S : g[y] \in Nat
  OBVIOUS
<1>2. /\ SumFunctionOnSet(f, S) = f[x] + SumFunctionOnSet(f, S \ {x})
      /\ SumFunctionOnSet(g, S) = g[x] + SumFunctionOnSet(g, S \ {x})
  BY <1>1, SumRemoves
<1>3. IsFiniteSet(S \ {x}) /\ \A y \in S \ {x} : f[y] \in Nat /\ g[y] = f[y]
  BY FS_Subset
<1>4. SumFunctionOnSet(g, S \ {x}) = SumFunctionOnSet(f, S \ {x}) /\ SumFunctionOnSet(f, S \ {x}) \in Nat
  BY <1>3, SumSame, SumRemoves
<1>5. g[x] = f[x] + 1 /\ f[x] \in Nat
  OBVIOUS
<1> QED BY <1>2, <1>4, <1>5

LEMMA DisjointUnion ==
  ASSUME NEW A, NEW B, IsFiniteSet(A), IsFiniteSet(B), A \cap B = {}
  PROVE  /\ IsFiniteSet(A \cup B) /\ Cardinality(A) \in Nat /\ Cardinality(B) \in Nat
         /\ Cardinality(A \cup B) = Cardinality(A) + Cardinality(B)
<1>1. IsFiniteSet(A \cup B) /\ Cardinality(A \cup B) = Cardinality(A) + Cardinality(B) - Cardinality(A \cap B)
  BY FS_Union
<1>2. Cardinality(A \cap B) = 0
  BY FS_EmptySet
<1>3. Cardinality(A) \in Nat /\ Cardinality(B) \in Nat
  BY FS_CardinalityType
<1> QED BY <1>1, <1>2, <1>3

(* The parts of a set that is sorted by kind are as large as the set. *)
LEMMA SumOfParts ==
  ASSUME NEW K, IsFiniteSet(K), NEW V, IsFiniteSet(V), NEW r, \A v \in V : r[v] \in K,
         NEW part, \A k \in K : part[k] = {v \in V : r[v] = k},
         NEW f, \A k \in K : f[k] = Cardinality(part[k])
  PROVE  SumFunctionOnSet(f, K) = Cardinality(V)
<1> DEFINE Of(U) == {v \in V : r[v] \in U}
           P == {U \in SUBSET K : SumFunctionOnSet(f, U) = Cardinality(Of(U))}
<1>0. \A U \in SUBSET K : IsFiniteSet(Of(U)) /\ Cardinality(Of(U)) \in Nat
  <2>1. \A U \in SUBSET K : Of(U) \in SUBSET Of(K)
    OBVIOUS
  <2>2. Of(K) = V
    OBVIOUS
  <2> HIDE DEF Of
  <2> QED BY <2>1, <2>2, FS_Subset, FS_CardinalityType
<1>1. ASSUME NEW k \in K PROVE f[k] = Cardinality(Of({k})) /\ f[k] \in Nat
  <2>1. Of({k}) = part[k] /\ {k} \in SUBSET K
    OBVIOUS
  <2> HIDE DEF Of
  <2> QED BY <1>0, <2>1
<1>2. {} \in P
  <2>1. Of({}) = {}
    OBVIOUS
  <2> QED BY <2>1, SumEmpty, FS_EmptySet
<1>3. ASSUME NEW U \in SUBSET K, NEW k \in K, U \in P, k \notin U PROVE U \cup {k} \in P
  <2>1. Of(U \cup {k}) = Of(U) \cup Of({k}) /\ Of(U) \cap Of({k}) = {} /\ {k} \in SUBSET K
    BY <1>3
  <2>2. SumFunctionOnSet(f, U) = Cardinality(Of(U))
    BY <1>3
  <2>3. SumFunctionOnSet(f, U \cup {k}) = f[k] + SumFunctionOnSet(f, U)
    BY <1>1, <1>3, FS_Subset, SumAdds
  <2> HIDE DEF Of
  <2>4. Cardinality(Of(U \cup {k})) = Cardinality(Of(U)) + Cardinality(Of({k}))
    <3>1. PICK A, B : A = Of(U) /\ B = Of({k}) /\ IsFiniteSet(A) /\ IsFiniteSet(B) /\ A \cap B = {}
      BY <1>0, <2>1
    <3>2. Cardinality(A \cup B) = Cardinality(A) + Cardinality(B)
      BY <3>1, DisjointUnion
    <3> QED BY <2>1, <3>1, <3>2
  <2>5. Cardinality(Of(U)) \in Nat /\ Cardinality(Of({k})) \in Nat
    BY <1>0, <2>1
  <2> QED BY <1>1, <2>2, <2>3, <2>4, <2>5
<1>4. K \in P
  <2> HIDE DEF P
  <2> QED BY <1>2, <1>3, FiniteSetsReached
<1>5. Of(K) = V
  OBVIOUS
<1> QED BY <1>4, <1>5

-----------------------------------------------------------------------------
(* Lists of the elements of a set *)

(* A finite set has an element that none is greater than. *)
LEMMA MaximalExists ==
  ASSUME NEW S, IsFiniteSet(S), S # {}, NEW R,
         \A x \in S : <<x, x>> \notin R,
         \A x, y, z \in S : <<x, y>> \in R /\ <<y, z>> \in R => <<x, z>> \in R
  PROVE  \E m \in S : \A x \in S : <<m, x>> \notin R
<1> DEFINE Topped(T) == \E m \in T : \A x \in T : <<m, x>> \notin R
           P == {T \in SUBSET S : T # {} => Topped(T)}
<1>1. {} \in P
  OBVIOUS
<1>2. ASSUME NEW T \in SUBSET S, NEW x \in S, T \in P, x \notin T PROVE T \cup {x} \in P
  <2>1. CASE T = {}
    <3>1. x \in T \cup {x} /\ \A y \in T \cup {x} : <<x, y>> \notin R
      BY <2>1
    <3> QED BY <3>1
  <2>2. CASE T # {}
    <3>1. PICK m \in T : \A y \in T : <<m, y>> \notin R
      BY <1>2, <2>2
    <3>2. CASE <<m, x>> \in R
      <4>1. \A y \in T \cup {x} : <<x, y>> \notin R
        BY <3>1, <3>2
      <4> QED BY <4>1
    <3>3. CASE <<m, x>> \notin R
      <4>1. \A y \in T \cup {x} : <<m, y>> \notin R
        BY <3>1, <3>3
      <4> QED BY <4>1
    <3> QED BY <3>2, <3>3
  <2> QED BY <2>1, <2>2
<1>3. S \in P
  <2> HIDE DEF P
  <2> QED BY <1>1, <1>2, FiniteSetsReached
<1> QED BY <1>3

LEMMA LargestExists ==
  ASSUME NEW S, S \subseteq Nat, IsFiniteSet(S), S # {}
  PROVE  \E m \in S : \A n \in S : n <= m
<1> DEFINE R == {p \in Nat \X Nat : p[1] < p[2]}
<1>1. \A x, y \in S : <<x, y>> \in R <=> x < y
  OBVIOUS
<1>2. \A x \in S : <<x, x>> \notin R
  BY <1>1
<1>3. \A x, y, z \in S : <<x, y>> \in R /\ <<y, z>> \in R => <<x, z>> \in R
  BY <1>1
<1> HIDE DEF R
<1>4. PICK m \in S : \A x \in S : <<m, x>> \notin R
  BY <1>2, <1>3, MaximalExists
<1>5. \A n \in S : ~(m < n) /\ m \in Nat /\ n \in Nat
  BY <1>1, <1>4
<1> QED BY <1>5

LEMMA LeastExists ==
  ASSUME NEW S, S \subseteq Nat, IsFiniteSet(S), S # {}
  PROVE  \E m \in S : \A n \in S : m <= n
<1> DEFINE R == {p \in Nat \X Nat : p[2] < p[1]}
<1>1. \A x, y \in S : <<x, y>> \in R <=> y < x
  OBVIOUS
<1>2. \A x \in S : <<x, x>> \notin R
  BY <1>1
<1>3. \A x, y, z \in S : <<x, y>> \in R /\ <<y, z>> \in R => <<x, z>> \in R
  BY <1>1
<1> HIDE DEF R
<1>4. PICK m \in S : \A x \in S : <<m, x>> \notin R
  BY <1>2, <1>3, MaximalExists
<1>5. \A n \in S : ~(n < m) /\ m \in Nat /\ n \in Nat
  BY <1>1, <1>4
<1> QED BY <1>5

(* A list of SetToSeqs has every element, once. *)
LEMMA ListsAll ==
  ASSUME NEW S, IsFiniteSet(S), NEW s \in SetToSeqs(S)
  PROVE  /\ s \in Seq(S) /\ Len(s) = Cardinality(S) /\ Cardinality(S) \in Nat
         /\ s \in [1 .. Cardinality(S) -> S] /\ DOMAIN s = 1 .. Cardinality(S)
         /\ IsInjective(s) /\ \A n \in DOMAIN s : s[n] \in S
         /\ \A m, n \in DOMAIN s : s[m] = s[n] => m = n
         /\ \A x \in S : \E n \in DOMAIN s : s[n] = x
<1>1. Cardinality(S) \in Nat
  BY FS_CardinalityType
<1>2. PICK k : k = Cardinality(S)
  OBVIOUS
<1>3. s \in [1 .. k -> S] /\ \A i, j \in 1 .. k : i # j => s[i] # s[j]
  BY <1>2 DEF SetToSeqs
<1>4. s \in Injection(1 .. k, S)
  BY <1>3 DEF Injection, IsInjective
<1>5. Cardinality(1 .. k) = k
  BY <1>1, <1>2, FS_Interval
<1>6. s \in Surjection(1 .. k, S)
  BY <1>2, <1>4, <1>5, FS_Injection
<1>7. \A x \in S : \E n \in 1 .. k : s[n] = x
  BY <1>6 DEF Surjection
<1>8. s \in Seq(S) /\ Len(s) = k /\ DOMAIN s = 1 .. k
  BY <1>1, <1>2, <1>3
<1>9. IsInjective(s) /\ \A m, n \in DOMAIN s : s[m] = s[n] => m = n
  BY <1>3, <1>8 DEF IsInjective
<1> QED BY <1>1, <1>2, <1>3, <1>7, <1>8, <1>9

(* s lists the elements of S so that none follows a greater one. *)
SortedBy(s, R) == \A m, n \in DOMAIN s : m < n => <<s[n], s[m]>> \notin R

LEMMA SortedExists ==
  ASSUME NEW S, IsFiniteSet(S), NEW R,
         \A x \in S : <<x, x>> \notin R,
         \A x, y, z \in S : <<x, y>> \in R /\ <<y, z>> \in R => <<x, z>> \in R
  PROVE  \E s \in SetToSeqs(S) : SortedBy(s, R)
<1> DEFINE P == {n \in Nat : \A T \in SUBSET S :
                   Cardinality(T) = n => \E s \in SetToSeqs(T) : SortedBy(s, R)}
<1>0. \A T \in SUBSET S : IsFiniteSet(T) /\ Cardinality(T) \in Nat /\ (Cardinality(T) = 0 <=> T = {})
  BY FS_Subset, FS_CardinalityType, FS_EmptySet
<1>1. 0 \in P
  <2> SUFFICES ASSUME NEW T \in SUBSET S, Cardinality(T) = 0
               PROVE  \E s \in SetToSeqs(T) : SortedBy(s, R)
    OBVIOUS
  <2> DEFINE s == [i \in 1 .. 0 |-> i]
  <2>1. s \in SetToSeqs(T)
    BY DEF SetToSeqs
  <2>2. SortedBy(s, R)
    BY DEF SortedBy
  <2> QED BY <2>1, <2>2
<1>2. ASSUME NEW n \in Nat, n \in P PROVE n + 1 \in P
  <2> SUFFICES ASSUME NEW T \in SUBSET S, Cardinality(T) = n + 1
               PROVE  \E s \in SetToSeqs(T) : SortedBy(s, R)
    OBVIOUS
  <2>1. IsFiniteSet(T) /\ T # {}
    BY <1>0
  <2>2. PICK m \in T : \A x \in T : <<m, x>> \notin R
    <3>1. \A x \in T : <<x, x>> \notin R
      OBVIOUS
    <3>2. \A x, y, z \in T : <<x, y>> \in R /\ <<y, z>> \in R => <<x, z>> \in R
      OBVIOUS
    <3> QED BY <2>1, <3>1, <3>2, MaximalExists
  <2>0. T \ {m} \in SUBSET S
    OBVIOUS
  <2>3. PICK U : U = T \ {m} /\ U \in SUBSET S
    BY <2>0
  <2>4. Cardinality(U) = n
    <3>1. Cardinality(T \ {m}) = Cardinality(T) - 1
      BY <2>1, <2>2, FS_RemoveElement
    <3> QED BY <2>3, <3>1
  <2>5. PICK s \in SetToSeqs(U) : SortedBy(s, R)
    BY <1>2, <2>3, <2>4
  <2>6. s \in [1 .. n -> U] /\ \A i, j \in 1 .. n : i # j => s[i] # s[j]
    BY <2>4, <2>5 DEF SetToSeqs
  <2> DEFINE r == [i \in 1 .. n + 1 |-> IF i = n + 1 THEN m ELSE s[i]]
  <2>7. \A i \in 1 .. n + 1 : i # n + 1 => i \in 1 .. n
    OBVIOUS
  <2>8. r \in [1 .. n + 1 -> T] /\ r[n + 1] = m /\ \A i \in 1 .. n : r[i] = s[i] /\ s[i] \in T \ {m}
    BY <2>3, <2>6, <2>7
  <2> HIDE DEF r
  <2>9. \A i, j \in 1 .. n + 1 : i # j => r[i] # r[j]
    BY <2>6, <2>7, <2>8
  <2>10. r \in SetToSeqs(T)
    BY <2>8, <2>9 DEF SetToSeqs
  <2>11. ASSUME NEW i \in 1 .. n + 1, NEW j \in 1 .. n + 1, i < j PROVE <<r[j], r[i]>> \notin R
    <3>1. i \in 1 .. n
      BY <2>11
    <3>2. CASE j = n + 1
      BY <2>2, <2>8, <3>1, <3>2
    <3>3. CASE j \in 1 .. n
      <4>1. DOMAIN s = 1 .. n
        BY <2>6
      <4>2. <<s[j], s[i]>> \notin R
        BY <2>5, <2>11, <3>1, <3>3, <4>1 DEF SortedBy
      <4> QED BY <2>8, <3>1, <3>3, <4>2
    <3> QED BY <2>7, <3>2, <3>3
  <2>12. SortedBy(r, R)
    <3>1. DOMAIN r = 1 .. n + 1
      BY <2>8
    <3> QED BY <2>11, <3>1 DEF SortedBy
  <2> QED BY <2>10, <2>12
<1>3. Cardinality(S) \in P
  <2> HIDE DEF P
  <2>1. \A n \in Nat : n \in P => n + 1 \in P
    BY <1>2
  <2> QED BY <1>0, <1>1, <2>1, NaturalsReached
<1> QED BY <1>3

(* If no two elements tie, the element at n has the n - 1 smaller ones before
   it. *)
LEMMA SortedRank ==
  ASSUME NEW S, IsFiniteSet(S), NEW R, NEW s \in SetToSeqs(S), SortedBy(s, R), NEW n \in DOMAIN s,
         \A x \in S : <<x, x>> \notin R,
         \A x, y \in S : <<x, y>> \in R => <<y, x>> \notin R,
         \A x, y \in S : x # y => <<x, y>> \in R \/ <<y, x>> \in R
  PROVE  /\ \A m \in DOMAIN s : m < n <=> <<s[m], s[n]>> \in R
         /\ IsFiniteSet({x \in S : <<x, s[n]>> \in R})
         /\ Cardinality({x \in S : <<x, s[n]>> \in R}) = n - 1
<1>1. PICK k : k = Cardinality(S) /\ k \in Nat
  BY ListsAll
<1>2. /\ s \in [1 .. k -> S] /\ DOMAIN s = 1 .. k
      /\ \A i, j \in 1 .. k : s[i] = s[j] => i = j
      /\ \A x \in S : \E i \in 1 .. k : s[i] = x
  BY <1>1, ListsAll
<1>3. ASSUME NEW m \in 1 .. k PROVE m < n <=> <<s[m], s[n]>> \in R
  <2>1. s[m] \in S /\ s[n] \in S /\ n \in 1 .. k
    BY <1>2
  <2>2. CASE m < n
    <3>1. <<s[n], s[m]>> \notin R /\ s[m] # s[n]
      BY <1>2, <2>1, <2>2 DEF SortedBy
    <3> QED BY <2>1, <2>2, <3>1
  <2>3. CASE m = n
    BY <2>1, <2>3
  <2>4. CASE n < m
    <3>1. <<s[m], s[n]>> \notin R
      BY <1>2, <2>1, <2>4 DEF SortedBy
    <3> QED BY <2>1, <2>4, <3>1
  <2> QED BY <2>1, <2>2, <2>3, <2>4
<1> DEFINE Before == {x \in S : <<x, s[n]>> \in R}
           f == [i \in 1 .. n - 1 |-> s[i]]
<1>4. n \in 1 .. k /\ n - 1 \in Nat /\ 1 .. n - 1 \subseteq 1 .. k
  BY <1>1, <1>2
<1>5. f \in [1 .. n - 1 -> Before]
  <2> SUFFICES ASSUME NEW i \in 1 .. n - 1 PROVE s[i] \in Before
    OBVIOUS
  <2> QED BY <1>1, <1>2, <1>3, <1>4
<1>6. \A x \in Before : \E i \in 1 .. n - 1 : f[i] = x
  <2> SUFFICES ASSUME NEW x \in Before PROVE \E i \in 1 .. n - 1 : f[i] = x
    OBVIOUS
  <2>1. PICK i \in 1 .. k : s[i] = x
    BY <1>2
  <2>2. i < n
    BY <1>3, <2>1
  <2> QED BY <1>4, <2>1, <2>2
<1>7. \A i, j \in 1 .. n - 1 : f[i] = f[j] => i = j
  BY <1>2, <1>4
<1>8. DOMAIN f = 1 .. n - 1
  OBVIOUS
<1> HIDE DEF f, Before
<1>9. f \in Surjection(1 .. n - 1, Before) /\ f \in Injection(1 .. n - 1, Before)
  BY <1>5, <1>6, <1>7, <1>8 DEF Surjection, Injection, IsInjective
<1>10. IsFiniteSet(1 .. n - 1) /\ Cardinality(1 .. n - 1) = n - 1
  BY <1>4, FS_Interval
<1>11. IsFiniteSet(Before) /\ Cardinality(Before) = n - 1
  BY <1>9, <1>10, FS_Surjection
<1> QED BY <1>2, <1>3, <1>11 DEF Before
=============================================================================
