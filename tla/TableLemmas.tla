---------------------------- MODULE TableLemmas -----------------------------
(***************************************************************************)
(* Lemmas about the ways the program keeps things in tables: the scan of   *)
(* RoundRobin for a free entry; the order of the slots, which the          *)
(* enumeration of a finite set of numbers in ascending order stands for;   *)
(* and rings.                                                              *)
(***************************************************************************)
EXTENDS RoundRobin, Ascending, Sequences, SequencesExt,
        FiniteSetTheorems, FunctionTheorems, SequenceTheorems, TLAPS

-----------------------------------------------------------------------------
(* The scan for a free entry.                                              *)

(* The first hit of a scanning loop is well defined: a non-empty set of    *)
(* integers between two bounds has a least element.                        *)
LEMMA LeastElement ==
  ASSUME NEW a \in Int, NEW b \in Int, NEW S \in SUBSET (a .. b), S # {}
  PROVE  /\ Least(S) \in S
         /\ \A m \in S : Least(S) <= m
  <1> DEFINE Upto(k) == { m \in S : m <= k }
             R == StrictSubsetOrdering(S)
             T == { Upto(k) : k \in S }
  <1>1. IsFiniteSet(S)
    <2>1. IsFiniteSet(a .. b) /\ S \subseteq a .. b
      BY FS_Interval
    <2> QED BY <2>1, FS_Subset
  <1>2. IsWellFoundedOn(R, SUBSET S)
    BY <1>1, FS_StrictSubsetOrderingWellFounded, FS_FiniteSubsetsOfFinite 
  <1>3. T \subseteq SUBSET S /\ T # {}
    OBVIOUS
  <1>4. PICK x \in T : \A y \in T : << y, x >> \notin R
    <2> HIDE DEF R, T
    <2> QED BY <1>2, <1>3, WFMin
  <1>5. PICK k \in S : x = Upto(k)
    OBVIOUS
  <1>6. \A m \in S : k <= m
    <2> SUFFICES ASSUME NEW m \in S, m < k PROVE FALSE
      OBVIOUS
    <2>0. m \in Int /\ k \in Int /\ \A j \in S : j \in Int
      OBVIOUS
    <2>1. /\ Upto(m) \subseteq Upto(k)
          /\ k \in Upto(k)
          /\ k \notin Upto(m)
      <3>1. \A j \in S : j <= m => j <= k
        BY <2>0
      <3>2. k <= k /\ ~ (k <= m)
        BY <2>0
      <3> QED BY <3>1, <3>2
    <2>2. << Upto(m), Upto(k) >> \in R
      BY <2>1 DEF StrictSubsetOrdering
    <2> QED BY <1>4, <1>5, <2>2
  <1> QED BY <1>6 DEF Least

(* What the two loops of app_portGetFree and session_idGetNext return: the *)
(* first free index at or above the cursor; failing that the first free    *)
(* one below it; failing that NoEntry, and then the whole range is taken.     *)
LEMMA NextFreeCases ==
  ASSUME NEW used, NEW lo \in Nat, NEW hi \in Nat, NEW cursor \in lo .. hi,
         NEW k, k = NextFree(used, cursor, lo, hi)
  PROVE  \/ /\ k \in (cursor .. hi - 1) \ used
            /\ \A m \in cursor .. k - 1 : m \in used
         \/ /\ cursor .. hi - 1 \subseteq used
            /\ k \in (lo .. cursor - 1) \ used
            /\ \A m \in lo .. k - 1 : m \in used
         \/ /\ lo .. hi - 1 \subseteq used
            /\ k = NoEntry
  <1> DEFINE above == FreeIn(used, cursor, hi)
             below == FreeIn(used, lo, cursor)
  <1>0. /\ above \in SUBSET (cursor .. hi - 1)
        /\ below \in SUBSET (lo .. cursor - 1)
        /\ cursor \in Int /\ hi - 1 \in Int /\ lo \in Int /\ cursor - 1 \in Int
    BY DEF FreeIn
  <1>1. CASE above # {}
    <2>1. k = Least(above)
      BY <1>1 DEF NextFree
    <2>2. k \in above /\ \A m \in above : k <= m
      <3> HIDE DEF above
      <3>1. Least(above) \in above /\ \A m \in above : Least(above) <= m
        BY <1>0, <1>1, LeastElement
      <3> QED BY <2>1, <3>1
    <2>3. \A m \in cursor .. k - 1 : m \in used
      BY <2>2 DEF FreeIn
    <2> QED BY <2>2, <2>3 DEF FreeIn
  <1>2. CASE above = {} /\ below # {}
    <2>1. k = Least(below)
      BY <1>2 DEF NextFree
    <2>2. k \in below /\ \A m \in below : k <= m
      <3> HIDE DEF below
      <3>1. Least(below) \in below /\ \A m \in below : Least(below) <= m
        BY <1>0, <1>2, LeastElement
      <3> QED BY <2>1, <3>1
    <2>3. \A m \in lo .. k - 1 : m \in used
      BY <2>2 DEF FreeIn
    <2>4. cursor .. hi - 1 \subseteq used
      BY <1>2 DEF FreeIn
    <2> QED BY <2>2, <2>3, <2>4 DEF FreeIn
  <1>3. CASE above = {} /\ below = {}
    BY <1>3 DEF NextFree, FreeIn
  <1> QED BY <1>1, <1>2, <1>3

(* The weaker form most proofs need: an index is handed out only if it was *)
(* free, and none is handed out only if none was.                          *)
LEMMA NextFreeSound ==
  ASSUME NEW used, NEW lo \in Nat, NEW hi \in Nat, NEW cursor \in lo .. hi
  PROVE  /\ \/ NextFree(used, cursor, lo, hi) \in (lo .. hi - 1) \ used
            \/ /\ NextFree(used, cursor, lo, hi) = NoEntry
               /\ lo .. hi - 1 \subseteq used
         /\ CursorAfter(cursor, NextFree(used, cursor, lo, hi)) \in lo .. hi
  <1> SUFFICES ASSUME NEW k, k = NextFree(used, cursor, lo, hi)
               PROVE  /\ \/ k \in (lo .. hi - 1) \ used
                         \/ k = NoEntry /\ lo .. hi - 1 \subseteq used
                      /\ CursorAfter(cursor, k) \in lo .. hi
    OBVIOUS
  <1>0. \/ /\ k \in (cursor .. hi - 1) \ used
           /\ \A m \in cursor .. k - 1 : m \in used
        \/ /\ cursor .. hi - 1 \subseteq used
           /\ k \in (lo .. cursor - 1) \ used
           /\ \A m \in lo .. k - 1 : m \in used
        \/ /\ lo .. hi - 1 \subseteq used
           /\ k = NoEntry
    <2>1. k = NextFree(used, cursor, lo, hi) /\ cursor \in lo .. hi
      OBVIOUS
    <2> QED BY <2>1, NextFreeCases, Zenon
  <1>1. \/ k \in (lo .. hi - 1) \ used
        \/ k = NoEntry /\ lo .. hi - 1 \subseteq used
    <2>1. k \in (cursor .. hi - 1) \ used => k \in (lo .. hi - 1) \ used
      OBVIOUS
    <2>2. k \in (lo .. cursor - 1) \ used => k \in (lo .. hi - 1) \ used
      OBVIOUS
    <2> QED BY <1>0, <2>1, <2>2
  <1>2. CursorAfter(cursor, k) \in lo .. hi
    BY <1>1 DEF CursorAfter
  <1> QED BY <1>1, <1>2

-----------------------------------------------------------------------------
(***************************************************************************)
(* What happens to the ascending enumeration of a finite set of numbers    *)
(* when the set gains an element above all others, loses one, or has one   *)
(* replaced by a number with the same neighbours; and that every set of    *)
(* numbers below a bound has one.                                          *)
(***************************************************************************)

(* Every set of natural numbers that is not empty has a least element.     *)
LEMMA LeastMember ==
  ASSUME NEW T \in SUBSET Nat, T # {}
  PROVE  \E x \in T : \A y \in T : x <= y
  <1> DEFINE R == OpToRel(<, Nat)
  <1>1. IsWellFoundedOn(R, Nat)
    BY NatLessThanWellFounded
  <1>2. \A x, y \in Nat : << y, x >> \in R <=> y < x
    BY DEF OpToRel
  <1>3. \E x \in T : \A y \in T : << y, x >> \notin R
    <2> HIDE DEF R
    <2> QED BY <1>1, WFMin
  <1> HIDE DEF R
  <1>4. PICK x \in T : \A y \in T : << y, x >> \notin R
    BY <1>3
  <1>5. \A y \in T : y \in Nat /\ x \in Nat /\ ~ (y < x)
    BY <1>2, <1>4
  <1>6. \A y \in T : x <= y
    BY <1>5
  <1> QED BY <1>6

(* An element's place in an enumeration tells how many elements are below  *)
(* it, and that tells the element.                                         *)
LEMMA TheEnumeration ==
  ASSUME NEW S \in SUBSET Nat, IsFiniteSet(S), NEW q, Enumerates(q, S)
  PROVE  Ascending(S) = q
  <1> DEFINE n == Cardinality(S)
             Below(x) == { y \in S : y < x }
  <1>0. n \in Nat
    BY FS_CardinalityType
  <1>1. /\ q \in [1 .. n -> S]
        /\ \A y \in S : \E k \in 1 .. n : q[k] = y
        /\ \A j, k \in 1 .. n : j < k => q[j] < q[k]
    BY DEF Enumerates
  <1> HIDE DEF n
  <1>2. \A j, k \in 1 .. n : j < k <=> q[j] < q[k]
    <2> SUFFICES ASSUME NEW j \in 1 .. n, NEW k \in 1 .. n, ~ (j < k)
                 PROVE  ~ (q[j] < q[k])
      BY <1>1
    <2>1. q[j] \in Nat /\ q[k] \in Nat
      BY <1>1
    <2>2. j = k \/ k < j
      OBVIOUS
    <2>3. k < j => q[k] < q[j]
      BY <1>1
    <2> QED BY <2>1, <2>2, <2>3
  <1>3. \A k \in 1 .. n : Cardinality(Below(q[k])) = k - 1
    <2> SUFFICES ASSUME NEW k \in 1 .. n PROVE Cardinality(Below(q[k])) = k - 1
      OBVIOUS
    <2> DEFINE f == [j \in 1 .. k - 1 |-> q[j]]
    <2>0. \A j \in 1 .. k - 1 : j \in 1 .. n /\ j < k
      BY <1>0
    <2>1. f \in [1 .. k - 1 -> Below(q[k])]
      <3>1. \A j \in 1 .. k - 1 : q[j] \in S /\ q[j] < q[k]
        BY <1>1, <1>2, <2>0
      <3> QED BY <3>1
    <2>2. \A i, j \in 1 .. k - 1 : f[i] = f[j] => i = j
      <3> SUFFICES ASSUME NEW i \in 1 .. k - 1, NEW j \in 1 .. k - 1, q[i] = q[j]
                   PROVE  i = j
        OBVIOUS
      <3>1. i \in 1 .. n /\ j \in 1 .. n /\ q[i] \in Nat /\ q[j] \in Nat
        BY <1>1, <2>0
      <3>2. ~ (i < j) /\ ~ (j < i)
        BY <1>2, <3>1
      <3> QED BY <3>1, <3>2
    <2>3. \A y \in Below(q[k]) : \E j \in 1 .. k - 1 : f[j] = y
      <3> SUFFICES ASSUME NEW y \in S, y < q[k] PROVE \E j \in 1 .. k - 1 : q[j] = y
        OBVIOUS
      <3>1. PICK j \in 1 .. n : q[j] = y
        BY <1>1
      <3>2. j \in 1 .. k - 1
        BY <1>2, <3>1
      <3> QED BY <3>1, <3>2
    <2>4. f \in Bijection(1 .. k - 1, Below(q[k]))
      <3> HIDE DEF f, Below
      <3> QED BY <2>1, <2>2, <2>3, Fun_IsBij
    <2>5. ExistsBijection(1 .. k - 1, Below(q[k]))
      BY <2>4 DEF ExistsBijection
    <2>6. IsFiniteSet(1 .. k - 1) /\ Cardinality(1 .. k - 1) = k - 1
      <3>1. 1 \in Int /\ k - 1 \in Int
        OBVIOUS
      <3>2. /\ IsFiniteSet(1 .. k - 1)
            /\ Cardinality(1 .. k - 1) = IF 1 > k - 1 THEN 0 ELSE (k - 1) - 1 + 1
        BY <3>1, FS_Interval
      <3> QED BY <3>2
    <2> HIDE DEF Below
    <2> QED BY <2>5, <2>6, FS_Bijection
  <1> HIDE DEF Below
  <1>4. \A k \in 1 .. n : (CHOOSE x \in S : Cardinality(Below(x)) = k - 1) = q[k]
    <2> SUFFICES ASSUME NEW k \in 1 .. n
                 PROVE  (CHOOSE x \in S : Cardinality(Below(x)) = k - 1) = q[k]
      OBVIOUS
    <2>1. q[k] \in S /\ Cardinality(Below(q[k])) = k - 1
      BY <1>1, <1>3
    <2>2. ASSUME NEW x \in S, Cardinality(Below(x)) = k - 1
          PROVE  x = q[k]
      <3>1. PICK j \in 1 .. n : q[j] = x
        BY <1>1
      <3>2. j - 1 = k - 1
        BY <1>3, <2>2, <3>1
      <3> QED BY <3>1, <3>2
    <2> QED BY <2>1, <2>2
  <1>5. Ascending(S) = [k \in 1 .. n |-> CHOOSE x \in S : Cardinality(Below(x)) = k - 1]
    BY DEF Ascending, Below, n
  <1> QED BY <1>1, <1>4, <1>5

LEMMA EmptyEnumeration == Enumerates(<< >>, {})
  <1>1. Cardinality({}) = 0
    BY FS_EmptySet
  <1> QED BY <1>1 DEF Enumerates

(* An element above all others goes to the end. *)
LEMMA AppendEnumeration ==
  ASSUME NEW S \in SUBSET Nat, IsFiniteSet(S), NEW q, Enumerates(q, S),
         NEW x \in Nat, \A y \in S : y < x
  PROVE  /\ Enumerates([k \in 1 .. Cardinality(S) + 1 |->
                          IF k = Cardinality(S) + 1 THEN x ELSE q[k]], S \union {x})
         /\ Cardinality(S \union {x}) = Cardinality(S) + 1
         /\ IsFiniteSet(S \union {x})
  <1> DEFINE n == Cardinality(S)
             m == Cardinality(S \union {x})
             r == [k \in 1 .. n + 1 |-> IF k = n + 1 THEN x ELSE q[k]]
  <1>0. n \in Nat
    BY FS_CardinalityType
  <1>1. x \notin S
    OBVIOUS
  <1>2. m = n + 1 /\ IsFiniteSet(S \union {x})
    BY <1>1, FS_AddElement
  <1>3. /\ q \in [1 .. n -> S]
        /\ \A y \in S : \E k \in 1 .. n : q[k] = y
        /\ \A j, k \in 1 .. n : j < k => q[j] < q[k]
    BY DEF Enumerates
  <1> HIDE DEF n, m
  <1>4. r \in [1 .. m -> S \union {x}]
    BY <1>0, <1>2, <1>3
  <1>5. \A y \in S \union {x} : \E k \in 1 .. m : r[k] = y
    BY <1>0, <1>2, <1>3
  <1>6. \A j, k \in 1 .. m : j < k => r[j] < r[k]
    <2> SUFFICES ASSUME NEW j \in 1 .. m, NEW k \in 1 .. m, j < k
                 PROVE  r[j] < r[k]
      OBVIOUS
    <2>1. j \in 1 .. n /\ r[j] = q[j] /\ q[j] \in S
      BY <1>0, <1>2, <1>3
    <2>2. CASE k = n + 1
      <3>1. r[k] = x
        BY <1>0, <1>2, <2>2
      <3> QED BY <2>1, <3>1
    <2>3. CASE k # n + 1
      <3>1. k \in 1 .. n /\ r[k] = q[k]
        BY <1>0, <1>2, <2>3
      <3> QED BY <1>3, <2>1, <3>1
    <2> QED BY <2>2, <2>3
  <1> QED BY <1>2, <1>4, <1>5, <1>6 DEF Enumerates, m, n

(* The elements above one that is taken out move down by one place. *)
LEMMA RemoveEnumeration ==
  ASSUME NEW S \in SUBSET Nat, IsFiniteSet(S), NEW q, Enumerates(q, S),
         NEW p \in 1 .. Cardinality(S)
  PROVE  /\ Enumerates([k \in 1 .. Cardinality(S) - 1 |->
                          IF k < p THEN q[k] ELSE q[k + 1]], S \ {q[p]})
         /\ Cardinality(S \ {q[p]}) = Cardinality(S) - 1
         /\ IsFiniteSet(S \ {q[p]})
  <1> DEFINE n == Cardinality(S)
             m == Cardinality(S \ {q[p]})
             r == [k \in 1 .. n - 1 |-> IF k < p THEN q[k] ELSE q[k + 1]]
  <1>0. n \in Nat /\ p \in 1 .. n
    BY FS_CardinalityType
  <1>1. /\ q \in [1 .. n -> S]
        /\ \A y \in S : \E k \in 1 .. n : q[k] = y
        /\ \A j, k \in 1 .. n : j < k => q[j] < q[k]
    BY DEF Enumerates
  <1>2. m = n - 1 /\ IsFiniteSet(S \ {q[p]})
    BY <1>0, <1>1, FS_RemoveElement
  <1> HIDE DEF n, m
  <1>3. \A k \in 1 .. n : q[k] \in Nat
    BY <1>1
  <1>4. \A k \in 1 .. n : k # p => q[k] # q[p]
    <2> SUFFICES ASSUME NEW k \in 1 .. n, k # p PROVE q[k] # q[p]
      OBVIOUS
    <2>1. (k < p => q[k] < q[p]) /\ (p < k => q[p] < q[k])
      BY <1>0, <1>1
    <2> QED BY <1>0, <1>3, <2>1
  <1>5. \A k \in 1 .. m :
          /\ k < p => k \in 1 .. n /\ r[k] = q[k]
          /\ ~ (k < p) => k + 1 \in 1 .. n /\ k + 1 # p /\ r[k] = q[k + 1]
    BY <1>0, <1>2
  <1>6. r \in [1 .. m -> S \ {q[p]}]
    <2>1. \A k \in 1 .. m : r[k] \in S \ {q[p]}
      BY <1>0, <1>1, <1>4, <1>5
    <2> QED BY <1>2, <2>1
  <1>7. \A y \in S \ {q[p]} : \E k \in 1 .. m : r[k] = y
    <2> SUFFICES ASSUME NEW y \in S \ {q[p]}
                 PROVE  \E k \in 1 .. m : r[k] = y
      OBVIOUS
    <2>1. PICK k \in 1 .. n : q[k] = y
      BY <1>1
    <2>2. k # p
      BY <2>1
    <2>3. CASE k < p
      BY <1>0, <1>2, <1>5, <2>1, <2>3
    <2>4. CASE k > p
      <3>1. k - 1 \in 1 .. m /\ ~ (k - 1 < p) /\ (k - 1) + 1 = k
        BY <1>0, <1>2, <2>4
      <3> QED BY <1>5, <2>1, <3>1
    <2> QED BY <1>0, <2>2, <2>3, <2>4
  <1>8. \A j, k \in 1 .. m : j < k => r[j] < r[k]
    <2> SUFFICES ASSUME NEW j \in 1 .. m, NEW k \in 1 .. m, j < k
                 PROVE  r[j] < r[k]
      OBVIOUS
    <2> HIDE DEF r
    <2>1. CASE k < p
      <3>1. j < p
        BY <1>0, <2>1
      <3> QED BY <1>1, <1>5, <2>1, <3>1
    <2>2. CASE j < p /\ ~ (k < p)
      <3>1. j < k + 1
        BY <1>0
      <3> QED BY <1>1, <1>5, <2>2, <3>1
    <2>3. CASE ~ (j < p)
      <3>1. ~ (k < p) /\ j + 1 < k + 1
        BY <1>0, <2>3
      <3> QED BY <1>1, <1>5, <2>3, <3>1
    <2> QED BY <1>0, <2>1, <2>2, <2>3
  <1> QED BY <1>2, <1>6, <1>7, <1>8 DEF Enumerates, m, n

(* A number takes the place of one with the same neighbours. *)
LEMMA ReplaceEnumeration ==
  ASSUME NEW S \in SUBSET Nat, IsFiniteSet(S), NEW q, Enumerates(q, S),
         NEW x \in S, NEW y \in Nat \ S,
         \A z \in S \ {x} : z < x <=> z < y
  PROVE  /\ Enumerates([k \in 1 .. Cardinality(S) |->
                          IF q[k] = x THEN y ELSE q[k]], (S \ {x}) \union {y})
         /\ Cardinality((S \ {x}) \union {y}) = Cardinality(S)
         /\ IsFiniteSet((S \ {x}) \union {y})
  <1> DEFINE n == Cardinality(S)
             T == (S \ {x}) \union {y}
             r == [k \in 1 .. n |-> IF q[k] = x THEN y ELSE q[k]]
  <1>0. n \in Nat
    BY FS_CardinalityType
  <1>1. /\ q \in [1 .. n -> S]
        /\ \A z \in S : \E k \in 1 .. n : q[k] = z
        /\ \A j, k \in 1 .. n : j < k => q[j] < q[k]
    BY DEF Enumerates
  <1>2. Cardinality(T) = n /\ IsFiniteSet(T)
    <2>1. IsFiniteSet(S \ {x}) /\ Cardinality(S \ {x}) = n - 1
      BY FS_RemoveElement
    <2>2. y \notin S \ {x}
      OBVIOUS
    <2>3. IsFiniteSet(T) /\ Cardinality(T) = (n - 1) + 1
      BY <2>1, <2>2, FS_AddElement
    <2> QED BY <1>0, <2>3
  <1> HIDE DEF n
  <1>3. /\ \A k \in 1 .. n : q[k] \in S /\ q[k] \in Nat
        /\ \A k \in 1 .. n : q[k] = x => r[k] = y
        /\ \A k \in 1 .. n : q[k] # x => r[k] = q[k]
    BY <1>1
  <1>4. r \in [1 .. n -> T]
    BY <1>1
  <1>5. \A z \in T : \E k \in 1 .. n : r[k] = z
    <2>1. \E k \in 1 .. n : r[k] = y
      BY <1>1, <1>3
    <2>2. \A z \in S \ {x} : \E k \in 1 .. n : r[k] = z
      BY <1>1, <1>3
    <2> QED BY <2>1, <2>2
  <1>6. \A j, k \in 1 .. n : j < k => r[j] < r[k]
    <2> SUFFICES ASSUME NEW j \in 1 .. n, NEW k \in 1 .. n, j < k
                 PROVE  r[j] < r[k]
      OBVIOUS
    <2>1. q[j] < q[k] /\ q[j] \in Nat /\ q[k] \in Nat /\ x \in Nat /\ y \in Nat
      BY <1>1, <1>3
    <2> HIDE DEF r
    <2>2. CASE q[j] = x
      <3>1. q[k] # x /\ q[k] \in S \ {x} /\ ~ (q[k] < x)
        BY <1>3, <2>1, <2>2
      <3>2. ~ (q[k] < y) /\ q[k] # y
        BY <3>1
      <3> QED BY <1>3, <2>1, <2>2, <3>1, <3>2
    <2>3. CASE q[k] = x
      <3>1. q[j] # x /\ q[j] \in S \ {x} /\ q[j] < x
        BY <1>3, <2>1, <2>3
      <3> QED BY <1>3, <2>3, <3>1
    <2>4. CASE q[j] # x /\ q[k] # x
      BY <1>3, <2>1, <2>4
    <2> QED BY <2>2, <2>3, <2>4
  <1> QED BY <1>2, <1>4, <1>5, <1>6 DEF Enumerates, n

(* Every set of numbers below a bound has an ascending enumeration: the    *)
(* least bound for which it had none would not be 0, and the enumeration   *)
(* below the number before, with that number or without, is one.           *)
LEMMA EnumerationExists ==
  ASSUME NEW n \in Nat, NEW S \in SUBSET (0 .. n)
  PROVE  IsFiniteSet(S) /\ Enumerates(Ascending(S), S)
  <1> DEFINE Below(m) == { x \in S : x < m }
             D == { m \in Nat : ~ \E q : Enumerates(q, Below(m)) }
  <1>0. S \in SUBSET Nat /\ IsFiniteSet(S)
    <2>1. IsFiniteSet(0 .. n)
      <3>1. 0 \in Int /\ n \in Int
        OBVIOUS
      <3> QED BY <3>1, FS_Interval
    <2>2. \A x \in S : x \in 0 .. n /\ x \in Nat
      OBVIOUS
    <2> QED BY <2>1, <2>2, FS_Subset
  <1>1. \A m \in Nat : IsFiniteSet(Below(m)) /\ Below(m) \in SUBSET Nat
    BY <1>0, FS_Subset
  <1>2. D = {}
    <2> SUFFICES ASSUME D # {} PROVE FALSE
      OBVIOUS
    <2>1. PICK m \in D : \A k \in D : m <= k
      BY LeastMember
    <2>2. m \in Nat /\ ~ \E q : Enumerates(q, Below(m))
      OBVIOUS
    <2>3. m # 0
      <3>1. \A x \in S : ~ (x < 0)
        BY <1>0
      <3>2. Below(0) = {}
        BY <3>1
      <3> QED BY <2>2, <3>2, EmptyEnumeration
    <2>4. m - 1 \in Nat /\ m - 1 \notin D
      BY <2>1, <2>2, <2>3
    <2>5. PICK q : Enumerates(q, Below(m - 1))
      BY <2>4
    <2>6. CASE m - 1 \in S
      <3>1. Below(m) = Below(m - 1) \union {m - 1}
        <4>1. \A x \in S : x < m <=> x < m - 1 \/ x = m - 1
          BY <1>0, <2>2
        <4>2. m - 1 < m
          BY <2>2
        <4> QED BY <2>6, <4>1, <4>2
      <3>2. \A y \in Below(m - 1) : y < m - 1
        OBVIOUS
      <3>3. IsFiniteSet(Below(m - 1)) /\ Below(m - 1) \in SUBSET Nat
        BY <1>1, <2>4
      <3>4. \E r : Enumerates(r, Below(m - 1) \union {m - 1})
        <4> HIDE DEF Below, D
        <4> QED BY <2>4, <2>5, <3>2, <3>3, AppendEnumeration
      <3> QED BY <2>2, <3>1, <3>4
    <2>7. CASE m - 1 \notin S
      <3>1. Below(m) = Below(m - 1)
        <4>1. \A x \in S : x < m <=> x < m - 1
          BY <1>0, <2>2, <2>7
        <4> QED BY <4>1
      <3> QED BY <2>2, <2>5, <3>1
    <2> QED BY <2>6, <2>7
  <1>3. Below(n + 1) = S
    <2>1. \A x \in S : x < n + 1
      OBVIOUS
    <2> QED BY <2>1
  <1>4. \E q : Enumerates(q, S)
    BY <1>2, <1>3
  <1> QED BY <1>0, <1>4, TheEnumeration

(* Append and RemoveAt, place by place. *)
LEMMA AppendIs ==
  ASSUME NEW V, NEW s \in Seq(V), NEW e
  PROVE  Append(s, e)
           = [k \in 1 .. Len(s) + 1 |-> IF k = Len(s) + 1 THEN e ELSE s[k]]
  <1> DEFINE W == V \union {e}
  <1>1. s \in Seq(W) /\ e \in W
    BY SeqMonotonic
  <1> HIDE DEF W
  <1>2. /\ Append(s, e) \in Seq(W) /\ Len(Append(s, e)) = Len(s) + 1
        /\ Len(s) \in Nat
        /\ \A k \in 1 .. Len(s) + 1 :
             Append(s, e)[k] = IF k = Len(s) + 1 THEN e ELSE s[k]
    BY <1>1, AppendProperties, LenProperties
  <1>3. Append(s, e) = [k \in 1 .. Len(s) + 1 |-> Append(s, e)[k]]
    BY <1>2, LenProperties
  <1> QED BY <1>2, <1>3

LEMMA RemoveAtIs ==
  ASSUME NEW V, NEW s \in Seq(V), NEW p \in 1 .. Len(s)
  PROVE  RemoveAt(s, p)
           = [k \in 1 .. Len(s) - 1 |-> IF k < p THEN s[k] ELSE s[k + 1]]
  <1> DEFINE n == Len(s)
             a == SubSeq(s, 1, p - 1)
             b == SubSeq(s, p + 1, n)
             r == [k \in 1 .. n - 1 |-> IF k < p THEN s[k] ELSE s[k + 1]]
  <1>0. n \in Nat /\ p \in 1 .. n /\ \A k \in 1 .. n : s[k] \in V
    BY LenProperties
  <1>1. /\ a \in Seq(V) /\ Len(a) = p - 1
        /\ \A k \in 1 .. p - 1 : a[k] = s[k]
    <2>1. p - 1 \in Int /\ 1 \in Int /\ \A k \in 1 .. p - 1 : s[k] \in V
      BY <1>0
    <2>2. /\ a \in Seq(V) /\ Len(a) = IF 1 <= p - 1 THEN (p - 1) - 1 + 1 ELSE 0
          /\ \A k \in 1 .. (p - 1) - 1 + 1 : a[k] = s[1 + k - 1]
      BY <2>1, SubSeqProperties
    <2> HIDE DEF a
    <2> QED BY <1>0, <2>2
  <1>2. /\ b \in Seq(V) /\ Len(b) = n - p
        /\ \A k \in 1 .. n - p : b[k] = s[p + k]
    <2>1. p + 1 \in Int /\ n \in Int /\ \A k \in p + 1 .. n : s[k] \in V
      BY <1>0
    <2>2. /\ b \in Seq(V) /\ Len(b) = IF p + 1 <= n THEN n - (p + 1) + 1 ELSE 0
          /\ \A k \in 1 .. n - (p + 1) + 1 : b[k] = s[(p + 1) + k - 1]
      <3> HIDE DEF n
      <3> QED BY <2>1, SubSeqProperties
    <2> HIDE DEF b, n
    <2>3. n - (p + 1) + 1 = n - p /\ \A k \in 1 .. n - p : (p + 1) + k - 1 = p + k
      BY <1>0
    <2> QED BY <1>0, <2>2, <2>3
  <1> HIDE DEF a, b
  <1>3. /\ a \o b \in Seq(V) /\ Len(a \o b) = n - 1
        /\ \A k \in 1 .. n - 1 : (a \o b)[k] = IF k <= p - 1 THEN a[k] ELSE b[k - (p - 1)]
    <2>1. /\ a \o b \in Seq(V) /\ Len(a \o b) = Len(a) + Len(b)
          /\ \A k \in 1 .. Len(a) + Len(b) :
               (a \o b)[k] = IF k <= Len(a) THEN a[k] ELSE b[k - Len(a)]
      BY <1>1, <1>2, ConcatProperties
    <2>2. Len(a) + Len(b) = n - 1
      BY <1>0, <1>1, <1>2
    <2> QED BY <1>1, <2>1, <2>2
  <1>4. \A k \in 1 .. n - 1 : (a \o b)[k] = r[k]
    <2> SUFFICES ASSUME NEW k \in 1 .. n - 1 PROVE (a \o b)[k] = r[k]
      OBVIOUS
    <2>1. CASE k < p
      BY <1>0, <1>1, <1>3, <2>1
    <2>2. CASE ~ (k < p)
      <3>1. k - (p - 1) \in 1 .. n - p /\ p + (k - (p - 1)) = k + 1 /\ ~ (k <= p - 1)
        BY <1>0, <2>2
      <3>2. (a \o b)[k] = b[k - (p - 1)] /\ b[k - (p - 1)] = s[k + 1]
        BY <1>2, <1>3, <3>1
      <3> QED BY <2>2, <3>2
    <2> QED BY <2>1, <2>2
  <1>5. a \o b = [k \in 1 .. n - 1 |-> (a \o b)[k]]
    BY <1>3, LenProperties
  <1>6. a \o b = r
    BY <1>4, <1>5
  <1> QED BY <1>6 DEF RemoveAt, a, b

-----------------------------------------------------------------------------
(* Remainders.  A pointer into a ring is a count that is reduced; UDPTL     *)
(* reduces twice, to the width of a number and to the ring.                *)

LEMMA Remainder ==
  ASSUME NEW a \in Int, NEW b \in Nat, b > 0
  PROVE  /\ a % b \in Int /\ 0 <= a % b /\ a % b < b
         /\ a \div b \in Int /\ a = b * (a \div b) + (a % b)
  <1>1. a % b \in Int /\ 0 <= a % b /\ a % b < b
    OBVIOUS
  <1>2. a \div b \in Int
    OBVIOUS
  <1>3. a = b * (a \div b) + (a % b)
    BY Z3
  <1> QED BY <1>1, <1>2, <1>3

LEMMA RemainderOf ==
  ASSUME NEW b \in Nat, b > 0, NEW q \in Int, NEW r \in Int, 0 <= r, r < b
  PROVE  (b * q + r) % b = r
  OBVIOUS

(* A sum that does not leave the range needs no reduction. *)
LEMMA RemainderShift ==
  ASSUME NEW a \in Int, NEW b \in Nat, b > 0, NEW i \in Int,
         0 <= (a % b) + i, (a % b) + i < b
  PROVE  (a + i) % b = (a % b) + i
  OBVIOUS

(* Numbers less than b apart have different remainders. *)
LEMMA RemainderNear ==
  ASSUME NEW a \in Int, NEW c \in Int, NEW b \in Nat, b > 0,
         a % b = c % b, a - c < b, c - a < b
  PROVE  a = c
  <1>1. PICK q \in Int : a = b * q + (a % b)
    BY Remainder
  <1>2. PICK s \in Int : c = b * s + (c % b)
    BY Remainder
  <1>3. a - c = b * (q - s)
    BY <1>1, <1>2, Remainder
  <1>4. q - s < 1
    BY <1>3
  <1>5. s - q < 1
    BY <1>3
  <1> QED BY <1>3, <1>4, <1>5

(* Reducing to a multiple of b first makes no difference. *)
LEMMA RemainderTwice ==
  ASSUME NEW a \in Int, NEW w \in Nat, w > 0, NEW b \in Nat, b > 0, w % b = 0,
         NEW i \in Int
  PROVE  ((a % w) + i) % b = (a + i) % b
  <1> DEFINE q == a \div w
             d == w \div b
             u == (a % w) + i
             v == u \div b
  <1>1. a = w * q + (a % w) /\ q \in Int /\ a % w \in Int
    BY Remainder
  <1>2. w = b * d /\ d \in Int
    <2>1. w = b * d + (w % b) /\ d \in Int
      BY Remainder
    <2> QED BY <2>1
  <1>3. u = b * v + (u % b) /\ v \in Int /\ u % b \in Int /\ 0 <= u % b /\ u % b < b
    <2>1. u \in Int
      BY <1>1
    <2> HIDE DEF u
    <2> QED BY <2>1, Remainder
  <1>4. a + i = w * q + u
    BY <1>1
  <1> HIDE DEF q, d, u, v
  <1>5. w * q = b * (d * q)
    BY <1>1, <1>2
  <1>6. b * (d * q) + b * v = b * (d * q + v)
    BY <1>1, <1>2, <1>3
  <1>7. a + i = b * (d * q + v) + (u % b)
    <2>1. /\ w * q \in Int /\ b * (d * q) \in Int
          /\ b * v \in Int /\ b * (d * q + v) \in Int
      BY <1>1, <1>2, <1>3
    <2> QED BY <1>3, <1>4, <1>5, <1>6, <2>1
  <1>8. d * q + v \in Int
    BY <1>1, <1>2, <1>3
  <1>9. (b * (d * q + v) + (u % b)) % b = u % b
    BY <1>3, <1>8, RemainderOf
  <1> QED BY <1>7, <1>9 DEF u

(* A pointer that moves on, and how far one pointer is behind another,     *)
(* when the counts they stand for are less than a round apart.             *)
LEMMA RingAdvance ==
  ASSUME NEW b \in Nat, b > 0, NEW s \in Int, NEW k \in Int
  PROVE  ((s % b) + k) % b = (s + k) % b
  <1>1. b % b = 0
    OBVIOUS
  <1> QED BY <1>1, RemainderTwice

LEMMA RingDistance ==
  ASSUME NEW b \in Nat, b > 0, NEW s \in Int, NEW n \in Int, n - s < b, s - n < b
  PROVE  ((n % b) - (s % b)) % b = IF n >= s THEN n - s ELSE n - s + b
  <1>1. PICK q \in Int : s = b * q + (s % b)
    BY Remainder
  <1>2. PICK r \in Int : n = b * r + (n % b)
    BY Remainder
  <1> DEFINE d  == IF n >= s THEN n - s ELSE n - s + b
             t  == IF n >= s THEN q - r ELSE q - r - 1
             ms == s % b
             mn == n % b
  <1>3. ms \in Int /\ mn \in Int /\ s = b * q + ms /\ n = b * r + mn
    BY <1>1, <1>2
  <1>4. d \in Int /\ 0 <= d /\ d < b /\ t \in Int
    OBVIOUS
  <1> HIDE DEF ms, mn
  <1>5. mn - ms = b * t + d
    <2>1. b * q \in Int /\ b * r \in Int
      OBVIOUS
    <2>2. b * (q - r) = b * q - b * r
      OBVIOUS
    <2>3. b * (q - r - 1) = b * q - b * r - b
      OBVIOUS
    <2>4. mn - ms = b * q - b * r + (n - s)
      BY ONLY <1>3, <2>1, s \in Int, n \in Int
    <2>5. CASE n >= s
      <3>1. d = n - s /\ t = q - r
        BY <2>5
      <3> HIDE DEF d, t
      <3> QED BY <2>1, <2>2, <2>4, <3>1
    <2>6. CASE ~(n >= s)
      <3>1. d = n - s + b /\ t = q - r - 1
        BY <2>6
      <3> HIDE DEF d, t
      <3> QED BY <2>1, <2>3, <2>4, <3>1
    <2> QED BY <2>5, <2>6
  <1> HIDE DEF d, t
  <1>6. (b * t + d) % b = d
    BY <1>4, RemainderOf
  <1> QED BY <1>5, <1>6 DEF d, mn, ms

=============================================================================
