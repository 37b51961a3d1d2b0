------------------------- MODULE SubsequenceProofs --------------------------
(***************************************************************************)
(* Facts about indices and lists that the other proofs cite: the least     *)
(* element of a set of numbers, the order in which a finite set is listed, *)
(* and what Kept keeps.  None of them needs induction: the least element   *)
(* comes from the well-foundedness of <, and a listing is onto because an  *)
(* injection between finite sets of one size is.                           *)
(***************************************************************************)
EXTENDS Subsequences, FiniteSetsExt, FiniteSetTheorems, FunctionTheorems,
        WellFoundedInduction, TLAPS

(* A set of numbers that is not empty has a least element: Min picks it.   *)
LEMMA LeastExists ==
    ASSUME NEW T, T \subseteq Nat, T # {}
    PROVE  Min(T) \in T /\ \A j \in T : Min(T) <= j
<1> DEFINE R == OpToRel(<, Nat)
<1>1. IsWellFoundedOn(R, Nat)
  BY NatLessThanWellFounded
<1>2. \A y, m \in T : (<<y, m>> \in R) <=> y < m
  BY DEF OpToRel
<1> HIDE DEF R
<1>3. PICK m \in T : \A y \in T : ~(<<y, m>> \in R)
  BY <1>1, WFMin
<1>4. \A y \in T : ~(y < m)
  BY <1>2, <1>3
<1>5. \E x \in T : \A y \in T : x <= y
  BY <1>4
<1>6. QED
  BY <1>5 DEF Min

-----------------------------------------------------------------------------
(* What comes before i in a set ordered by R.                              *)
Before(I, R, i) == {j \in I : <<j, i>> \in R}

(* A strict total order.                                                   *)
Orders(R, I) ==
    /\ \A i \in I : <<i, i>> \notin R
    /\ \A i, j \in I : i # j => <<i, j>> \in R \/ <<j, i>> \in R
    /\ \A i, j, k \in I : <<i, j>> \in R /\ <<j, k>> \in R => <<i, k>> \in R

(* The k-th element is the one with k - 1 before it.                       *)
Listing(I, R) ==
    [k \in 1..Cardinality(I) |-> CHOOSE i \in I : Cardinality(Before(I, R, i)) = k - 1]

(* In a finite ordered set, the numbers of elements that come before each  *)
(* are different, grow with the order, and take every value below the size.*)
LEMMA RanksAreTaken ==
    ASSUME NEW I, IsFiniteSet(I), NEW R, Orders(R, I)
    PROVE  /\ Cardinality(I) \in Nat
           /\ \A i \in I : Cardinality(Before(I, R, i)) \in 0..(Cardinality(I) - 1)
           /\ \A i, j \in I : <<i, j>> \in R =>
                Cardinality(Before(I, R, i)) < Cardinality(Before(I, R, j))
           /\ \A k \in 1..Cardinality(I) :
                \E i \in I : Cardinality(Before(I, R, i)) = k - 1
<1> DEFINE n == Cardinality(I)
           T == 0..(n - 1)
           rank == [i \in I |-> Cardinality(Before(I, R, i))]
<1>1. n \in Nat
  BY FS_CardinalityType
<1>2. ASSUME NEW i \in I
      PROVE  IsFiniteSet(Before(I, R, i)) /\ Cardinality(Before(I, R, i)) \in T
  <2>1. Before(I, R, i) \subseteq I \ {i}
    BY DEF Before, Orders
  <2>2. IsFiniteSet(I \ {i}) /\ Cardinality(I \ {i}) = n - 1
    BY FS_RemoveElement
  <2>3. /\ IsFiniteSet(Before(I, R, i)) /\ Cardinality(Before(I, R, i)) <= n - 1
    BY <2>1, <2>2, FS_Subset
  <2> QED
    BY <1>1, <2>3, FS_CardinalityType
<1>3. ASSUME NEW i \in I, NEW j \in I, <<i, j>> \in R
      PROVE  Cardinality(Before(I, R, i)) < Cardinality(Before(I, R, j))
  <2>1. Before(I, R, i) \subseteq Before(I, R, j)
    BY <1>3 DEF Before, Orders
  <2>2. i \in Before(I, R, j) /\ i \notin Before(I, R, i)
    BY <1>3 DEF Before, Orders
  <2>3. /\ Cardinality(Before(I, R, i)) <= Cardinality(Before(I, R, j))
        /\ Cardinality(Before(I, R, i)) # Cardinality(Before(I, R, j))
    BY <1>2, <2>1, <2>2, FS_Subset
  <2> QED
    BY <1>1, <1>2, <2>3
<1>4. rank \in Injection(I, T)
  <2>1. rank \in [I -> T]
    BY <1>2
  <2>2. ASSUME NEW i \in I, NEW j \in I, i # j
        PROVE  rank[i] # rank[j]
    <3>1. rank[i] < rank[j] \/ rank[j] < rank[i]
      BY <1>3, <2>2 DEF Orders
    <3>2. rank[i] \in Int /\ rank[j] \in Int
      BY <1>1, <1>2
    <3> QED
      BY <3>1, <3>2
  <2> HIDE DEF rank
  <2> QED
    BY <2>1, <2>2 DEF Injection, IsInjective
<1>5. IsFiniteSet(T) /\ Cardinality(T) = n
  BY <1>1, FS_Interval
<1>6. rank \in Surjection(I, T)
  <2> HIDE DEF rank, T
  <2> QED
    BY <1>4, <1>5, FS_Injection
<1>7. ASSUME NEW k \in 1..n
      PROVE  \E i \in I : Cardinality(Before(I, R, i)) = k - 1
  <2>1. k - 1 \in T
    BY <1>1
  <2>2. PICK i \in I : rank[i] = k - 1
    <3> HIDE DEF rank, T
    <3> QED
      BY <1>6, <2>1 DEF Surjection
  <2> QED
    BY <2>2
<1> QED
  BY <1>1, <1>2, <1>3, <1>7

(* A listing takes every element, in the order.                            *)
THEOREM ListingIsInOrder ==
    ASSUME NEW I, IsFiniteSet(I), NEW R, Orders(R, I)
    PROVE  /\ Cardinality(I) \in Nat
           /\ Listing(I, R) \in [1..Cardinality(I) -> I]
           /\ \A k, m \in 1..Cardinality(I) :
                k < m => <<Listing(I, R)[k], Listing(I, R)[m]>> \in R
           /\ \A i \in I : \E k \in 1..Cardinality(I) : Listing(I, R)[k] = i
<1> DEFINE n == Cardinality(I)
           f == Listing(I, R)
           rank(i) == Cardinality(Before(I, R, i))
<1>1. /\ n \in Nat
      /\ \A i \in I : rank(i) \in 0..(n - 1)
      /\ \A i, j \in I : <<i, j>> \in R => rank(i) < rank(j)
      /\ \A k \in 1..n : \E i \in I : rank(i) = k - 1
  BY RanksAreTaken
<1>2. ASSUME NEW i \in I, NEW j \in I, rank(i) = rank(j)
      PROVE  i = j
  <2> HIDE DEF rank
  <2>1. ~(rank(i) < rank(j)) /\ ~(rank(j) < rank(i))
    BY <1>1, <1>2
  <2> QED
    BY <1>1, <2>1 DEF Orders
<1>3. ASSUME NEW k \in 1..n
      PROVE  f[k] \in I /\ rank(f[k]) = k - 1
  <2>1. f[k] = CHOOSE i \in I : rank(i) = k - 1
    BY DEF Listing
  <2>2. \E i \in I : rank(i) = k - 1
    BY <1>1
  <2> HIDE DEF rank, f
  <2> QED
    BY <2>1, <2>2
<1>4. f \in [1..n -> I]
  BY <1>3 DEF Listing
<1>5. ASSUME NEW k \in 1..n, NEW m \in 1..n, k < m
      PROVE  <<f[k], f[m]>> \in R
  <2>1. /\ f[k] \in I /\ f[m] \in I /\ rank(f[k]) = k - 1 /\ rank(f[m]) = m - 1
    BY <1>3
  <2>2. f[k] # f[m]
    BY <1>1, <1>5, <2>1
  <2>3. ~(<<f[m], f[k]>> \in R)
    <3> HIDE DEF rank, f
    <3> QED
      BY <1>1, <1>5, <2>1
  <2> QED
    BY <2>1, <2>2, <2>3 DEF Orders
<1>6. ASSUME NEW i \in I
      PROVE  \E k \in 1..n : f[k] = i
  <2>1. rank(i) + 1 \in 1..n
    BY <1>1
  <2>2. rank(f[rank(i) + 1]) = rank(i) /\ f[rank(i) + 1] \in I
    <3> HIDE DEF rank, f
    <3> QED
      BY <1>1, <1>3, <2>1
  <2>3. f[rank(i) + 1] = i
    BY <1>2, <2>2
  <2> QED
    BY <2>1, <2>3
<1> QED
  BY <1>1, <1>4, <1>5, <1>6

(* The order of numbers.                                                   *)
Ascending(I) == {p \in I \X I : p[1] < p[2]}

(* What is kept of a list: elements of it, in their order, all of those    *)
(* whose indices are given.                                                *)
LEMMA KeptInOrder ==
    ASSUME NEW s, Len(s) \in Nat, NEW I, I \subseteq 1..Len(s)
    PROVE  /\ Cardinality(I) \in Nat
           /\ Listing(I, Ascending(I)) \in [1..Cardinality(I) -> I]
           /\ Kept(s, I) = [k \in 1..Cardinality(I) |-> Kept(s, I)[k]]
           /\ \A k \in 1..Cardinality(I) : Kept(s, I)[k] = s[Listing(I, Ascending(I))[k]]
           /\ \A k, m \in 1..Cardinality(I) :
                k < m => Listing(I, Ascending(I))[k] < Listing(I, Ascending(I))[m]
           /\ \A i \in I : \E k \in 1..Cardinality(I) : Listing(I, Ascending(I))[k] = i
<1> DEFINE R == Ascending(I)
<1>1. IsFiniteSet(I)
  <2>1. IsFiniteSet(1..Len(s))
    BY FS_Interval
  <2> QED
    BY <2>1, FS_Subset
<1>2. Orders(R, I)
  BY DEF Orders, Ascending
<1>3. /\ Cardinality(I) \in Nat
      /\ Listing(I, R) \in [1..Cardinality(I) -> I]
      /\ \A k, m \in 1..Cardinality(I) : k < m => <<Listing(I, R)[k], Listing(I, R)[m]>> \in R
      /\ \A i \in I : \E k \in 1..Cardinality(I) : Listing(I, R)[k] = i
  BY <1>1, <1>2, ListingIsInOrder
<1>4. \A i \in I : Before(I, R, i) = {j \in I : j < i}
  BY DEF Before, Ascending
<1>5. \A k \in 1..Cardinality(I) :
        Listing(I, R)[k] = CHOOSE i \in I : Cardinality({j \in I : j < i}) = k - 1
  BY <1>4 DEF Listing
<1>6. /\ Kept(s, I) = [k \in 1..Cardinality(I) |-> Kept(s, I)[k]]
      /\ \A k \in 1..Cardinality(I) : Kept(s, I)[k] = s[Listing(I, R)[k]]
  <2> DEFINE n == Cardinality(I)
             nth(k) == CHOOSE i \in I : Cardinality({j \in I : j < i}) = k - 1
             f == Listing(I, R)
  <2>1. Kept(s, I) = [k \in 1..n |-> s[nth(k)]]
    BY DEF Kept
  <2>2. \A k \in 1..n : f[k] = nth(k)
    BY <1>5
  <2> HIDE DEF n, nth, f
  <2>3. /\ Kept(s, I) = [k \in 1..n |-> Kept(s, I)[k]]
        /\ \A k \in 1..n : Kept(s, I)[k] = s[f[k]]
    BY <2>1, <2>2
  <2> QED
    BY <2>3 DEF n, f
<1>7. \A i, j \in I : <<i, j>> \in R => i < j
  BY DEF Ascending
<1> QED
  BY <1>3, <1>6, <1>7

LEMMA KeptIsList ==
    ASSUME NEW T, NEW s \in Seq(T), NEW I, I \subseteq 1..Len(s)
    PROVE  Kept(s, I) \in Seq(T)
<1> DEFINE n == Cardinality(I)
           f == Listing(I, Ascending(I))
<1>1. Len(s) \in Nat /\ I \subseteq 1..Len(s) /\ \A i \in 1..Len(s) : s[i] \in T
  OBVIOUS
<1>2. /\ n \in Nat /\ f \in [1..n -> I] /\ \A k \in 1..n : Kept(s, I)[k] = s[f[k]]
      /\ Kept(s, I) = [k \in 1..n |-> Kept(s, I)[k]]
  BY <1>1, KeptInOrder
<1> HIDE DEF n, f
<1>3. \A k \in 1..n : Kept(s, I)[k] \in T
  BY <1>1, <1>2
<1>4. Kept(s, I) \in [1..n -> T]
  BY <1>2, <1>3
<1> QED
  BY <1>2, <1>4
=============================================================================
