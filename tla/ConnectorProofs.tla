---------------------------- MODULE ConnectorProofs ----------------------------
(***************************************************************************)
(* Theorems about the source connectors: the walk over a tree              *)
(* (FileDiscovery), the loop over the pages of a source (Listing) and the  *)
(* contents and changes that the filesystem connector hands out            *)
(* (Retrieval), each by itself and as the parts of Parts.                  *)
(***************************************************************************)
EXTENDS Parts, FiniteSetTheorems, SequenceTheorems, WellFoundedInduction, TLAPS
-------------------------------------------------------------------------------
(* Sequences, as Cuts takes them apart. *)

(* In a chain of sets, one for each member, every member has a place, the  *)
(* number of members up to it: different members have different places,    *)
(* and one has each place.                                                 *)
LEMMA EveryPlaceIsTaken ==
    ASSUME NEW S, IsFiniteSet(S), NEW upTo \in [S -> SUBSET S],
           \A x \in S : x \in upTo[x],
           \A x, y \in S : x # y => \/ upTo[x] \subseteq upTo[y] /\ upTo[x] # upTo[y]
                                    \/ upTo[y] \subseteq upTo[x] /\ upTo[x] # upTo[y]
    PROVE  /\ Cardinality(S) \in Nat
           /\ \A x \in S : Cardinality(upTo[x]) \in 1..Cardinality(S)
           /\ \A x, y \in S : Cardinality(upTo[x]) = Cardinality(upTo[y]) => x = y
           /\ \A i \in 1..Cardinality(S) : \E x \in S : Cardinality(upTo[x]) = i
<1>2. Cardinality(S) \in Nat
  BY FS_CardinalityType
<1>3. ASSUME NEW x \in S
      PROVE  /\ IsFiniteSet(upTo[x]) /\ Cardinality(upTo[x]) \in Nat /\ Cardinality(upTo[x]) <= Cardinality(S)
             /\ Cardinality(upTo[x]) # 0
  <2>1. upTo[x] \subseteq S /\ x \in upTo[x]
    OBVIOUS
  <2>2. IsFiniteSet(upTo[x]) /\ Cardinality(upTo[x]) <= Cardinality(S)
    BY <2>1, FS_Subset
  <2>3. Cardinality(upTo[x]) \in Nat
    BY <2>2, FS_CardinalityType
  <2>4. Cardinality(upTo[x]) # 0
    BY <2>1, <2>2, FS_EmptySet
  <2> QED
    BY <2>2, <2>3, <2>4
<1>4. \A x \in S : Cardinality(upTo[x]) \in 1..Cardinality(S)
  BY <1>2, <1>3
<1>5. ASSUME NEW x \in S, NEW y \in S, upTo[x] \subseteq upTo[y], upTo[x] # upTo[y]
      PROVE  Cardinality(upTo[x]) # Cardinality(upTo[y])
  BY <1>3, <1>5, FS_Subset
<1>6. ASSUME NEW x \in S, NEW y \in S, Cardinality(upTo[x]) = Cardinality(upTo[y])
      PROVE  x = y
  BY <1>5, <1>6
<1> DEFINE place == [x \in S |-> Cardinality(upTo[x])]
<1>7. place \in Injection(S, 1..Cardinality(S))
  BY <1>4, <1>6 DEF Injection, IsInjective
<1>8. place \in Surjection(S, 1..Cardinality(S))
  <2>1. IsFiniteSet(1..Cardinality(S)) /\ Cardinality(1..Cardinality(S)) = Cardinality(S)
    BY <1>2, FS_Interval
  <2> QED
    BY <1>7, <2>1, FS_Injection
<1>9. \A i \in 1..Cardinality(S) : \E x \in S : Cardinality(upTo[x]) = i
  BY <1>8 DEF Surjection
<1> QED
  BY <1>2, <1>4, <1>6, <1>9

(* A sequence has no more of its places than its length. *)
LEMMA PlacesCounted ==
    ASSUME NEW T, NEW s \in Seq(T), NEW slots \in SUBSET DOMAIN s
    PROVE  IsFiniteSet(slots) /\ Cardinality(slots) \in Nat /\ Cardinality(slots) <= Len(s)
<1>1. Len(s) \in Nat /\ DOMAIN s = 1..Len(s)
  OBVIOUS
<1> DEFINE n == Len(s)
<1>2. IsFiniteSet(1..n) /\ Cardinality(1..n) = n
  <2>1. n \in Nat
    BY <1>1
  <2> HIDE DEF n
  <2> QED
    BY <2>1, FS_Interval
<1> QED
  BY <1>1, <1>2, FS_Subset, FS_CardinalityType

(* order has a value for each of the places up to n, and for no other. *)
Fills(order, n) == order = [k \in 1..n |-> order[k]]

(* Members put at their places make a sequence of all of them. *)
LEMMA PlacedKeeps ==
    ASSUME NEW S, IsFiniteSet(S), NEW upTo \in [S -> SUBSET S],
           \A x \in S : x \in upTo[x],
           \A x, y \in S : x # y => \/ upTo[x] \subseteq upTo[y] /\ upTo[x] # upTo[y]
                                    \/ upTo[y] \subseteq upTo[x] /\ upTo[x] # upTo[y],
           NEW order, Fills(order, Cardinality(S)),
           \A k \in 1..Cardinality(S) : (\E x \in S : Cardinality(upTo[x]) = k)
                                        => order[k] \in S /\ Cardinality(upTo[order[k]]) = k
    PROVE  /\ Cardinality(S) \in Nat /\ order \in Seq(S) /\ Len(order) = Cardinality(S)
           /\ \A x \in S : \E k \in 1..Len(order) : order[k] = x
           /\ \A k \in 1..Len(order) : order[k] \in S /\ Cardinality(upTo[order[k]]) = k
<1>1. /\ Cardinality(S) \in Nat
      /\ \A x \in S : Cardinality(upTo[x]) \in 1..Cardinality(S)
      /\ \A x, y \in S : Cardinality(upTo[x]) = Cardinality(upTo[y]) => x = y
      /\ \A k \in 1..Cardinality(S) : \E x \in S : Cardinality(upTo[x]) = k
  BY EveryPlaceIsTaken
<1>2. \A k \in 1..Cardinality(S) : order[k] \in S /\ Cardinality(upTo[order[k]]) = k
  BY <1>1
<1>3. order \in Seq(S) /\ Len(order) = Cardinality(S)
  BY <1>1, <1>2 DEF Fills
<1>4. ASSUME NEW x \in S
      PROVE  \E k \in 1..Len(order) : order[k] = x
  <2>1. PICK k \in 1..Cardinality(S) : k = Cardinality(upTo[x])
    BY <1>1
  <2>2. order[k] = x
    BY <1>1, <1>2, <2>1
  <2> QED
    BY <1>3, <2>2
<1> QED
  BY <1>1, <1>2, <1>3, <1>4

Numbers(S) == \A x \in S : x \in Int

(* Numbers in turn are those numbers, each once, from the smallest on. *)
LEMMA InTurnKeeps ==
    ASSUME NEW S, IsFiniteSet(S), Numbers(S)
    PROVE  /\ Cardinality(S) \in Nat /\ InTurn(S) \in Seq(S) /\ Len(InTurn(S)) = Cardinality(S)
           /\ \A x \in S : \E k \in 1..Len(InTurn(S)) : InTurn(S)[k] = x
           /\ \A k, l \in 1..Len(InTurn(S)) : k < l => InTurn(S)[k] < InTurn(S)[l]
<1>0. PICK order : order = InTurn(S)
  OBVIOUS
<1> DEFINE upTo == [x \in S |-> {y \in S : y <= x}]
<1>1. \A x \in S : x \in Int
  BY DEF Numbers
<1>2. upTo \in [S -> SUBSET S] /\ \A x \in S : x \in upTo[x]
  BY <1>1
<1>3. \A x \in S : \A y : y \in upTo[x] <=> y \in S /\ y <= x
  OBVIOUS
<1> DEFINE StandsAt(k, x) == Cardinality({y \in S : y <= x}) = k
<1>4. order = [k \in 1..Cardinality(S) |-> CHOOSE x \in S : StandsAt(k, x)]
  BY <1>0 DEF Ordered, InTurn
<1>5. \A x \in S : \A k : StandsAt(k, x) <=> Cardinality(upTo[x]) = k
  <2>1. \A x \in S : upTo[x] = {y \in S : y <= x}
    OBVIOUS
  <2> QED
    BY <2>1
<1> HIDE DEF upTo, StandsAt
<1>6. ASSUME NEW x \in S, NEW y \in S, x < y
      PROVE  upTo[x] \subseteq upTo[y] /\ upTo[x] # upTo[y]
  <2>1. ASSUME NEW z \in S, z <= x
        PROVE  z <= y
    BY <1>1, <1>6, <2>1
  <2>2. upTo[x] \subseteq upTo[y]
    BY <1>3, <2>1
  <2>3. y \in upTo[y] /\ y \notin upTo[x]
    BY <1>1, <1>3, <1>6
  <2> QED
    BY <2>2, <2>3
<1>7. ASSUME NEW x \in S, NEW y \in S, x # y
      PROVE  \/ upTo[x] \subseteq upTo[y] /\ upTo[x] # upTo[y]
             \/ upTo[y] \subseteq upTo[x] /\ upTo[x] # upTo[y]
  <2>1. x < y \/ y < x
    BY <1>1, <1>7
  <2> QED
    BY <1>6, <2>1
<1>8. Fills(order, Cardinality(S))
  BY <1>4 DEF Fills
<1>9. ASSUME NEW k \in 1..Cardinality(S), NEW x \in S, Cardinality(upTo[x]) = k
      PROVE  order[k] \in S /\ Cardinality(upTo[order[k]]) = k
  <2>1. order[k] = CHOOSE y \in S : StandsAt(k, y)
    BY <1>4
  <2>2. StandsAt(k, x)
    BY <1>5, <1>9
  <2>3. order[k] \in S /\ StandsAt(k, order[k])
    BY <2>1, <2>2
  <2> QED
    BY <1>5, <2>3
<1>10. /\ Cardinality(S) \in Nat /\ order \in Seq(S) /\ Len(order) = Cardinality(S)
       /\ \A x \in S : \E k \in 1..Len(order) : order[k] = x
       /\ \A k \in 1..Len(order) : order[k] \in S /\ Cardinality(upTo[order[k]]) = k
  BY <1>2, <1>7, <1>8, <1>9, PlacedKeeps
<1>11. ASSUME NEW k \in 1..Len(order), NEW l \in 1..Len(order), k < l
       PROVE  order[k] < order[l]
  <2>1. order[k] \in S /\ order[l] \in S /\ Cardinality(upTo[order[k]]) = k /\ Cardinality(upTo[order[l]]) = l
    BY <1>10
  <2>2. order[k] \in Int /\ order[l] \in Int
    BY <1>1, <2>1
  <2>3. ASSUME order[l] <= order[k]
        PROVE  FALSE
    <3>1. upTo[order[l]] \subseteq upTo[order[k]]
      <4>1. ASSUME NEW x \in S, x <= order[l]
            PROVE  x <= order[k]
        BY <1>1, <2>2, <2>3, <4>1
      <4> QED
        BY <1>3, <2>1, <4>1
    <3>2. IsFiniteSet(upTo[order[k]])
      BY <1>2, <2>1, FS_Subset
    <3>3. Cardinality(upTo[order[l]]) <= Cardinality(upTo[order[k]])
      BY <3>1, <3>2, FS_Subset
    <3> QED
      BY <1>10, <1>11, <2>1, <3>3
  <2> QED
    BY <2>2, <2>3
<1> QED
  BY <1>0, <1>10, <1>11

(* What is picked from a sequence is what stands at those places, and      *)
(* nothing twice that stands at one of them.                               *)
LEMMA PickedKeeps ==
    ASSUME NEW T, NEW s \in Seq(T), NEW slots \in SUBSET DOMAIN s,
           NEW picked, picked = Picked(s, slots)
    PROVE  /\ picked \in Seq(T) /\ Len(picked) \in Nat /\ Len(picked) <= Len(s)
           /\ ToSet(picked) = {s[i] : i \in slots}
           /\ (\A i, j \in slots : s[i] = s[j] => i = j) => IsInjective(picked)
<1>1. IsFiniteSet(slots) /\ Cardinality(slots) \in Nat /\ Cardinality(slots) <= Len(s)
  BY PlacesCounted
<1>2. DOMAIN s = 1..Len(s) /\ slots \subseteq Nat
  OBVIOUS
<1>3. PICK order : order = InTurn(slots)
  OBVIOUS
<1>4. /\ order \in Seq(slots) /\ Len(order) = Cardinality(slots)
      /\ \A x \in slots : \E k \in 1..Len(order) : order[k] = x
      /\ \A k, l \in 1..Len(order) : order[k] = order[l] => k = l
  <2>1. /\ order \in Seq(slots) /\ Len(order) = Cardinality(slots)
        /\ \A x \in slots : \E k \in 1..Len(order) : order[k] = x
        /\ \A k, l \in 1..Len(order) : k < l => order[k] < order[l]
    <3>1. Numbers(slots)
      BY <1>2 DEF Numbers
    <3> QED
      BY <1>1, <1>3, <3>1, InTurnKeeps
  <2>2. ASSUME NEW k \in 1..Len(order), NEW l \in 1..Len(order), order[k] = order[l]
        PROVE  k = l
    <3>1. order[k] \in Nat /\ order[l] \in Nat
      BY <1>2, <2>1
    <3> QED
      BY <1>1, <2>1, <2>2, <3>1
  <2> QED
    BY <2>1, <2>2
<1>5. picked = [k \in DOMAIN order |-> s[order[k]]]
  BY <1>3 DEF Picked
<1>6. DOMAIN order = 1..Len(order) /\ \A k \in 1..Len(order) : order[k] \in slots
  BY <1>4
<1>7. picked \in Seq(T) /\ Len(picked) = Len(order) /\ DOMAIN picked = 1..Len(order)
  BY <1>1, <1>2, <1>4, <1>5, <1>6
<1>8. ToSet(picked) = {s[i] : i \in slots}
  <2>1. \A k \in 1..Len(order) : picked[k] = s[order[k]]
    BY <1>5, <1>6
  <2>2. ToSet(picked) = {picked[k] : k \in 1..Len(order)}
    BY <1>7 DEF ToSet
  <2>3. ASSUME NEW i \in slots
        PROVE  s[i] \in ToSet(picked)
    BY <1>4, <2>1, <2>2
  <2>4. ASSUME NEW k \in 1..Len(order)
        PROVE  picked[k] \in {s[i] : i \in slots}
    BY <1>6, <2>1
  <2> QED
    BY <2>2, <2>3, <2>4
<1>9. ASSUME \A i, j \in slots : s[i] = s[j] => i = j
       PROVE  IsInjective(picked)
  BY <1>4, <1>5, <1>6, <1>7, <1>9 DEF IsInjective
<1> QED
  BY <1>1, <1>4, <1>7, <1>8, <1>9

(* Dropping the repetitions keeps every member, once. *)
LEMMA DistinctKeeps ==
    ASSUME NEW s \in Seq(Nat)
    PROVE  /\ Distinct(s) \in Seq(Nat) /\ Len(Distinct(s)) \in Nat /\ Len(Distinct(s)) <= Len(s)
           /\ ToSet(Distinct(s)) = ToSet(s)
           /\ IsInjective(Distinct(s))
<1> DEFINE firsts == {i \in DOMAIN s : \A j \in 1..i - 1 : s[j] # s[i]}
<1>1. DOMAIN s = 1..Len(s) /\ Len(s) \in Nat
  OBVIOUS
<1>2. \A i, j \in firsts : s[i] = s[j] => i = j
  BY <1>1
<1>3. ASSUME NEW i \in DOMAIN s
      PROVE  \E j \in firsts : s[j] = s[i]
  <2> DEFINE same == {j \in Nat : j \in DOMAIN s /\ s[j] = s[i]}
  <2>1. i \in same
    BY <1>1
  <2>2. PICK j \in same : \A k \in Nat : k < j => k \notin same
    <3>1. \E j \in same : \A k \in same : ~(<<k, j>> \in OpToRel(<, Nat))
      BY <2>1, NatLessThanWellFounded, WFMin
    <3> QED
      BY <3>1 DEF OpToRel
  <2>3. j \in firsts
    BY <1>1, <2>2
  <2> QED
    BY <2>2, <2>3
<1>4. Distinct(s) = Picked(s, firsts)
  BY DEF Distinct
<1>5. firsts \subseteq DOMAIN s
  OBVIOUS
<1>6. ToSet(s) = {s[i] : i \in firsts}
  BY <1>3, <1>5 DEF ToSet
<1> HIDE DEF firsts
<1>7. /\ Distinct(s) \in Seq(Nat) /\ Len(Distinct(s)) \in Nat /\ Len(Distinct(s)) <= Len(s)
      /\ ToSet(Distinct(s)) = {s[i] : i \in firsts}
      /\ (\A i, j \in firsts : s[i] = s[j] => i = j) => IsInjective(Distinct(s))
  BY <1>4, <1>5, PickedKeeps
<1> QED
  BY <1>2, <1>6, <1>7

(* Sorting keeps every member, and nothing twice that was there once.      *)
LEMMA SortedKeeps ==
    ASSUME NEW s \in Seq(Nat), IsInjective(s)
    PROVE  /\ Sorted(s) \in Seq(Nat) /\ Len(Sorted(s)) = Len(s)
           /\ ToSet(Sorted(s)) = ToSet(s)
           /\ IsInjective(Sorted(s))
<1> DEFINE slots == DOMAIN s
           upTo == [i \in slots |-> {j \in slots : s[j] < s[i] \/ (s[j] = s[i] /\ j <= i)}]
           StandsAt(k, i) == Cardinality({j \in slots : s[j] < s[i] \/ (s[j] = s[i] /\ j <= i)}) = k
           order == [k \in 1..Len(s) |-> CHOOSE i \in slots : StandsAt(k, i)]
<1>1. slots = 1..Len(s) /\ Len(s) \in Nat /\ \A i \in slots : s[i] \in Nat
  OBVIOUS
<1>2. IsFiniteSet(slots) /\ Cardinality(slots) = Len(s)
  <2> DEFINE n == Len(s)
  <2>1. n \in Nat /\ slots = 1..n
    BY <1>1
  <2> HIDE DEF n, slots
  <2>2. IsFiniteSet(1..n) /\ Cardinality(1..n) = n
    BY <2>1, FS_Interval
  <2> QED
    BY <2>1, <2>2 DEF n
<1>3. upTo \in [slots -> SUBSET slots] /\ \A i \in slots : i \in upTo[i]
  BY <1>1
<1>4. ASSUME NEW i \in slots, NEW j \in slots, s[i] < s[j]
      PROVE  upTo[i] \subseteq upTo[j] /\ upTo[i] # upTo[j]
  <2>1. upTo[i] \subseteq upTo[j]
    BY <1>1, <1>4
  <2>2. j \in upTo[j] /\ j \notin upTo[i]
    BY <1>1, <1>4
  <2> QED
    BY <2>1, <2>2
<1>5. \A i, j \in slots : i # j => \/ upTo[i] \subseteq upTo[j] /\ upTo[i] # upTo[j]
                                   \/ upTo[j] \subseteq upTo[i] /\ upTo[i] # upTo[j]
  <2> SUFFICES ASSUME NEW i \in slots, NEW j \in slots, i # j
               PROVE  \/ (upTo[i] \subseteq upTo[j] /\ upTo[i] # upTo[j])
                      \/ (upTo[j] \subseteq upTo[i] /\ upTo[i] # upTo[j])
    OBVIOUS
  <2>1. s[i] # s[j]
    BY DEF IsInjective
  <2>2. s[i] < s[j] \/ s[j] < s[i]
    BY <1>1, <2>1
  <2> HIDE DEF upTo
  <2> QED
    BY <1>4, <2>2
<1>6. Sorted(s) = [k \in 1..Len(s) |-> s[order[k]]]
  BY DEF Sorted
<1>7. \A i \in slots : \A k : StandsAt(k, i) <=> Cardinality(upTo[i]) = k
  OBVIOUS
<1>8. order = [k \in 1..Len(s) |-> CHOOSE i \in slots : StandsAt(k, i)]
  OBVIOUS
<1> HIDE DEF upTo, order, StandsAt, slots
<1>9. /\ \A i \in slots : Cardinality(upTo[i]) \in 1..Len(s)
      /\ \A i, j \in slots : Cardinality(upTo[i]) = Cardinality(upTo[j]) => i = j
      /\ \A k \in 1..Len(s) : \E i \in slots : Cardinality(upTo[i]) = k
  BY <1>2, <1>3, <1>5, EveryPlaceIsTaken
<1>10. ASSUME NEW k \in 1..Len(s)
       PROVE  order[k] \in slots /\ Cardinality(upTo[order[k]]) = k
  <2>1. PICK i \in slots : StandsAt(k, i)
    BY <1>7, <1>9
  <2>2. order[k] = CHOOSE x \in slots : StandsAt(k, x)
    BY <1>8
  <2>3. order[k] \in slots /\ StandsAt(k, order[k])
    BY <2>1, <2>2
  <2> QED
    BY <1>7, <2>3
<1>11. Sorted(s) \in Seq(Nat) /\ Len(Sorted(s)) = Len(s) /\ DOMAIN Sorted(s) = 1..Len(s)
  BY <1>1, <1>6, <1>10
<1>12. ASSUME NEW k \in 1..Len(s)
       PROVE  Sorted(s)[k] \in ToSet(s)
  BY <1>6, <1>10, <1>12 DEF ToSet, slots
<1>13. ASSUME NEW i \in slots
       PROVE  s[i] \in ToSet(Sorted(s))
  <2> DEFINE k == Cardinality(upTo[i])
  <2>1. k \in 1..Len(s)
    BY <1>9
  <2>2. order[k] \in slots /\ Cardinality(upTo[order[k]]) = k
    BY <1>10, <2>1
  <2>3. order[k] = i
    BY <1>9, <2>2
  <2>4. Sorted(s)[k] = s[i]
    BY <1>6, <2>1, <2>3
  <2> QED
    BY <1>11, <2>1, <2>4 DEF ToSet
<1>14. ToSet(Sorted(s)) = ToSet(s)
  BY <1>11, <1>12, <1>13 DEF ToSet, slots
<1>15. ASSUME NEW k \in 1..Len(s), NEW l \in 1..Len(s), Sorted(s)[k] = Sorted(s)[l]
       PROVE  k = l
  <2>1. s[order[k]] = s[order[l]] /\ order[k] \in slots /\ order[l] \in slots
    BY <1>6, <1>10, <1>15
  <2>2. order[k] = order[l]
    BY <2>1 DEF IsInjective, slots
  <2> QED
    BY <1>10, <2>2
<1> QED
  BY <1>11, <1>14, <1>15 DEF IsInjective

(* s[:n] *)
LEMMA TakeKeeps ==
    ASSUME NEW T, NEW s \in Seq(T), NEW n \in Nat
    PROVE  /\ Take(s, n) \in Seq(T) /\ Len(Take(s, n)) = Least(n, Len(s))
           /\ \A k \in 1..Least(n, Len(s)) : Take(s, n)[k] = s[k]
           /\ Len(s) <= n => Take(s, n) = s
           /\ ToSet(Take(s, n)) \subseteq ToSet(s)
           /\ IsInjective(s) => IsInjective(Take(s, n))
<1> DEFINE taken == Take(s, n)
<1>1. taken \in Seq(T) /\ Len(taken) = Least(n, Len(s)) /\ \A k \in 1..Least(n, Len(s)) : taken[k] = s[k]
  BY DEF Take, Least
<1>2. DOMAIN taken = 1..Len(taken) /\ DOMAIN s = 1..Len(s) /\ Len(s) \in Nat /\ Len(taken) <= Len(s)
  BY <1>1 DEF Least
<1>3. ASSUME Len(s) <= n PROVE taken = s
  <2> HIDE DEF taken
  <2>1. Least(n, Len(s)) = Len(s)
    <3>1. Len(s) \in Nat /\ n \in Nat
      OBVIOUS
    <3>2. ~(n < Len(s)) \/ n = Len(s)
      BY <1>3, <3>1
    <3> QED
      BY <3>2 DEF Least
  <2>2. Len(taken) = Len(s) /\ \A k \in 1..Len(s) : taken[k] = s[k]
    BY <1>1, <2>1
  <2> QED
    BY <1>1, <2>2, SeqEqual
<1>4. ToSet(taken) \subseteq ToSet(s)
  BY <1>1, <1>2 DEF ToSet
<1>5. IsInjective(s) => IsInjective(taken)
  BY <1>1, <1>2 DEF IsInjective
<1> QED
  BY <1>1, <1>3, <1>4, <1>5

(* s[b:][:n] *)
LEMMA SliceKeeps ==
    ASSUME NEW T, NEW s \in Seq(T), NEW b \in Nat, NEW n \in Nat
    PROVE  /\ Take(Drop(s, b), n) \in Seq(T) /\ Len(Take(Drop(s, b), n)) \in Nat
           /\ b >= Len(s) => Len(Take(Drop(s, b), n)) = 0
           /\ b < Len(s) => Len(Take(Drop(s, b), n)) = Least(n, Len(s) - b)
<1> DEFINE rest == Drop(s, b)
<1>1. rest \in Seq(T) /\ Len(rest) = IF b >= Len(s) THEN 0 ELSE Len(s) - b
  BY DEF Drop
<1> HIDE DEF rest
<1>2. Take(rest, n) \in Seq(T) /\ Len(Take(rest, n)) = Least(n, Len(rest))
  BY <1>1, TakeKeeps
<1> QED
  BY <1>1, <1>2 DEF Least, rest

LEMMA SliceAt ==
    ASSUME NEW T, NEW s \in Seq(T), NEW b \in Nat, NEW n \in Nat
    PROVE  \A k \in 1..Len(Take(Drop(s, b), n)) : b + k \in 1..Len(s) /\ Take(Drop(s, b), n)[k] = s[b + k]
<1> DEFINE rest == Drop(s, b)
<1>1. /\ rest \in Seq(T) /\ Len(rest) = IF b >= Len(s) THEN 0 ELSE Len(s) - b
      /\ \A k \in 1..Len(rest) : rest[k] = s[b + k]
  BY DEF Drop
<1> HIDE DEF rest
<1>2. /\ Len(Take(rest, n)) = Least(n, Len(rest))
      /\ \A k \in 1..Least(n, Len(rest)) : Take(rest, n)[k] = rest[k]
  BY <1>1, TakeKeeps
<1>3. \A k \in 1..Len(Take(rest, n)) : b + k \in 1..Len(s) /\ Take(rest, n)[k] = s[b + k]
  BY <1>1, <1>2 DEF Least
<1> QED
  BY <1>3 DEF rest

(* A sequence is its first member and the others. *)
LEMMA HeadTailKeeps ==
    ASSUME NEW s \in Seq(Nat), s # <<>>
    PROVE  Tail(s) \in Seq(Nat) /\ ToSet(s) = {Head(s)} \cup ToSet(Tail(s))
<1>1. PICK n \in Nat : n = Len(s)
  OBVIOUS
<1>2. n # 0 /\ DOMAIN s = 1..n /\ Head(s) = s[1]
  BY <1>1
<1>3. Tail(s) \in Seq(Nat) /\ Len(Tail(s)) = n - 1 /\ \A i \in 1..n - 1 : Tail(s)[i] = s[i + 1]
  BY <1>1, <1>2
<1>4. DOMAIN Tail(s) = 1..n - 1
  BY <1>1, <1>2, <1>3
<1>5. ASSUME NEW i \in 1..n
      PROVE  s[i] \in {Head(s)} \cup ToSet(Tail(s))
  <2>1. CASE i = 1
    BY <1>2, <2>1
  <2>2. CASE i # 1
    <3>1. i - 1 \in 1..n - 1 /\ (i - 1) + 1 = i
      BY <2>2
    <3>2. Tail(s)[i - 1] = s[i]
      BY <1>3, <3>1
    <3> QED
      BY <1>4, <3>1, <3>2 DEF ToSet
  <2> QED
    BY <2>1, <2>2
<1>6. ASSUME NEW i \in 1..n - 1
      PROVE  Tail(s)[i] \in ToSet(s)
  <2>1. i + 1 \in 1..n /\ Tail(s)[i] = s[i + 1]
    BY <1>3
  <2> QED
    BY <1>2, <2>1 DEF ToSet
<1>7. ToSet(s) \subseteq {Head(s)} \cup ToSet(Tail(s))
  BY <1>2, <1>5 DEF ToSet
<1>8. ToSet(Tail(s)) \subseteq ToSet(s)
  BY <1>4, <1>6 DEF ToSet
<1>9. Head(s) \in ToSet(s)
  <2>1. 1 \in 1..n
    BY <1>2
  <2> QED
    BY <1>2, <2>1 DEF ToSet
<1> QED
  BY <1>3, <1>7, <1>8, <1>9

(* One sequence after another has the members of both. *)
LEMMA ConcatKeeps ==
    ASSUME NEW g \in Seq(Nat), NEW items \in Seq(Nat)
    PROVE  /\ g \o items \in Seq(Nat) /\ Len(g \o items) = Len(g) + Len(items)
           /\ ToSet(g \o items) = ToSet(g) \cup ToSet(items)
<1> DEFINE got == g \o items
<1>0. PICK m \in Nat, n \in Nat : m = Len(g) /\ n = Len(items)
  OBVIOUS
<1>1. /\ got \in Seq(Nat) /\ Len(got) = m + n
      /\ \A i \in 1..m + n : got[i] = IF i <= m THEN g[i] ELSE items[i - m]
  BY <1>0, ConcatProperties
<1>2. DOMAIN got = 1..Len(got) /\ DOMAIN g = 1..m /\ DOMAIN items = 1..n
  BY <1>0, <1>1
<1> HIDE DEF got
<1>3. ToSet(got) = ToSet(g) \cup ToSet(items)
  <2>1. ASSUME NEW i \in 1..Len(got)
        PROVE  got[i] \in ToSet(g) \cup ToSet(items)
    <3>1. i <= m => i \in 1..m /\ got[i] = g[i]
      BY <1>1
    <3>2. ~(i <= m) => i - m \in 1..n /\ got[i] = items[i - m]
      BY <1>1
    <3> QED
      BY <1>2, <3>1, <3>2 DEF ToSet
  <2>2. ASSUME NEW i \in 1..m
        PROVE  g[i] \in ToSet(got)
    <3>1. i \in 1..Len(got) /\ got[i] = g[i]
      BY <1>1
    <3> QED
      BY <1>2, <3>1 DEF ToSet
  <2>3. ASSUME NEW j \in 1..n
        PROVE  items[j] \in ToSet(got)
    <3>1. m + j \in 1..m + n /\ ~(m + j <= m) /\ (m + j) - m = j
      OBVIOUS
    <3>2. m + j \in 1..Len(got) /\ got[m + j] = items[(m + j) - m]
      BY <1>1, <3>1
    <3> QED
      BY <1>2, <3>1, <3>2 DEF ToSet
  <2>4. ToSet(got) \subseteq ToSet(g) \cup ToSet(items)
    BY <1>2, <2>1 DEF ToSet
  <2>5. ToSet(g) \subseteq ToSet(got) /\ ToSet(items) \subseteq ToSet(got)
    BY <1>2, <2>2, <2>3 DEF ToSet
  <2> QED
    BY <2>4, <2>5
<1> QED
  BY <1>0, <1>1, <1>3 DEF got

(* What a sequence has from one place to another. *)
Part(s, p, q) == {s[i] : i \in p..q}

(* g has what comes before one place of s, and items what comes from there *)
(* to another place, but for what is left out.                             *)
Continues(s, out, p, q, g, items) ==
    /\ s \in Seq(Nat) /\ IsInjective(s) /\ p \in 0..Len(s) /\ q \in 0..Len(s) /\ p <= q
    /\ g \in Seq(Nat) /\ IsInjective(g) /\ ToSet(g) = Part(s, 1, p) \ out
    /\ items \in Seq(Nat) /\ IsInjective(items) /\ ToSet(items) = Part(s, p + 1, q) \ out

(* The loop goes on where it was: what it has, and what follows, is all    *)
(* that comes before the place where that ends.                            *)
LEMMA GatheringGrows ==
    ASSUME NEW s, NEW out, NEW p, NEW q, NEW g, NEW items, Continues(s, out, p, q, g, items)
    PROVE  /\ g \o items \in Seq(Nat) /\ Len(g \o items) = Len(g) + Len(items)
           /\ IsInjective(g \o items)
           /\ ToSet(g \o items) = Part(s, 1, q) \ out
<1> USE DEF Continues
<1> DEFINE got == g \o items
<1>0. PICK m \in Nat, n \in Nat : m = Len(g) /\ n = Len(items)
  OBVIOUS
<1>1. /\ got \in Seq(Nat) /\ Len(got) = m + n 
      /\ \A i \in 1..m + n : got[i] = IF i <= m THEN g[i] ELSE items[i - m]
  BY <1>0, ConcatProperties
<1>2. DOMAIN got = 1..Len(got) /\ DOMAIN g = 1..m /\ DOMAIN items = 1..n /\ DOMAIN s = 1..Len(s)
  BY <1>0, <1>1
<1> HIDE DEF got
<1>3. ASSUME NEW i \in 1..m, NEW j \in 1..n
      PROVE  g[i] # items[j]
  <2>1. PICK k \in 1..p : g[i] = s[k]
    BY <1>2 DEF ToSet, Part
  <2>2. PICK l \in p + 1..q : items[j] = s[l]
    BY <1>2 DEF ToSet, Part
  <2>3. k \in DOMAIN s /\ l \in DOMAIN s /\ k # l
    BY <1>2, <2>1, <2>2
  <2> QED
    BY <2>1, <2>2, <2>3 DEF IsInjective
<1>4. ASSUME NEW i \in 1..Len(got), NEW j \in 1..Len(got), got[i] = got[j]
      PROVE  i = j
  <2>1. CASE i <= m /\ j <= m
    <3>1. i \in DOMAIN g /\ j \in DOMAIN g /\ g[i] = g[j]
      BY <1>1, <1>2, <1>4, <2>1
    <3> QED
      BY <3>1 DEF IsInjective
  <2>2. CASE i > m /\ j > m
    <3>1. i - m \in DOMAIN items /\ j - m \in DOMAIN items /\ items[i - m] = items[j - m]
      BY <1>1, <1>2, <1>4, <2>2
    <3>2. i - m = j - m
      BY <3>1 DEF IsInjective
    <3> QED
      BY <1>1, <3>2
  <2>3. CASE i <= m /\ j > m
    <3>1. i \in 1..m /\ j - m \in 1..n /\ g[i] = items[j - m]
      BY <1>1, <1>4, <2>3, SMTT(30)
    <3> QED
      BY <1>3, <3>1
  <2>4. CASE i > m /\ j <= m
    <3>1. j \in 1..m /\ i - m \in 1..n /\ g[j] = items[i - m]
      BY <1>1, <1>4, <2>4, SMTT(30)
    <3> QED
      BY <1>3, <3>1
  <2> QED
    BY <1>1, <2>1, <2>2, <2>3, <2>4
<1>5. ToSet(got) = ToSet(g) \cup ToSet(items)
  BY ConcatKeeps DEF got
<1>6. Part(s, 1, q) = Part(s, 1, p) \cup Part(s, p + 1, q)
  <2>1. \A i \in 1..q : i \in 1..p \/ i \in p + 1..q
    OBVIOUS
  <2>2. \A i \in 1..p : i \in 1..q
    OBVIOUS
  <2>3. \A i \in p + 1..q : i \in 1..q
    OBVIOUS
  <2> QED
    BY <2>1, <2>2, <2>3 DEF Part
<1>7. ToSet(got) = Part(s, 1, q) \ out
  BY <1>5, <1>6
<1>8. IsInjective(got)
  BY <1>2, <1>4 DEF IsInjective
<1> QED
  BY <1>0, <1>1, <1>7, <1>8 DEF got

(* A page is what follows in the sequence. *)
LEMMA PageFollows ==
    ASSUME NEW s \in Seq(Nat), IsInjective(s), NEW p \in 0..Len(s), NEW n \in Nat
    PROVE  LET piece == Take(Drop(s, p), n)
           IN  /\ piece \in Seq(Nat) /\ Len(piece) \in Nat /\ p + Len(piece) \in 0..Len(s)
               /\ Len(piece) = Least(n, Len(s) - p)
               /\ \A k \in 1..Len(piece) : piece[k] = s[p + k]
               /\ IsInjective(piece) /\ ToSet(piece) = Part(s, p + 1, p + Len(piece))
<1> DEFINE piece == Take(Drop(s, p), n)
<1>1. PICK size \in Nat : size = Len(s)
  OBVIOUS
<1>2. /\ piece \in Seq(Nat) /\ Len(piece) \in Nat
      /\ p >= size => Len(piece) = 0
      /\ p < size => Len(piece) = Least(n, size - p)
      /\ \A k \in 1..Len(piece) : p + k \in 1..size /\ piece[k] = s[p + k]
  <2>1. p \in Nat
    BY <1>1
  <2>2. piece \in Seq(Nat) /\ Len(piece) \in Nat
    BY <2>1, SliceKeeps
  <2>3. p >= Len(s) => Len(piece) = 0
    BY <2>1, SliceKeeps
  <2>4. p < Len(s) => Len(piece) = Least(n, Len(s) - p)
    BY <2>1, SliceKeeps, ZenonT(60)
  <2>5. \A k \in 1..Len(piece) : p + k \in 1..Len(s) /\ piece[k] = s[p + k]
    BY <2>1, SliceAt
  <2> HIDE DEF piece
  <2> QED
    BY <1>1, <2>2, <2>3, <2>4, <2>5
<1> HIDE DEF piece
<1>3. PICK m \in Nat : m = Len(piece)
  BY <1>2
<1>4. DOMAIN piece = 1..m /\ DOMAIN s = 1..size
  BY <1>1, <1>2, <1>3
<1>5. m = Least(n, size - p) /\ p + m \in 0..size
  BY <1>1, <1>2, <1>3 DEF Least
<1>6. ASSUME NEW k \in 1..m, NEW l \in 1..m, piece[k] = piece[l]
      PROVE  k = l
  <2>1. p + k \in DOMAIN s /\ p + l \in DOMAIN s /\ s[p + k] = s[p + l]
    BY <1>2, <1>3, <1>4, <1>6
  <2>2. p + k = p + l
    BY <2>1 DEF IsInjective
  <2> QED
    BY <2>2
<1>7. ToSet(piece) = Part(s, p + 1, p + m)
  <2>1. ASSUME NEW k \in 1..m
        PROVE  piece[k] \in Part(s, p + 1, p + m)
    <3>1. p + k \in p + 1..p + m /\ piece[k] = s[p + k]
      BY <1>2, <1>3
    <3> QED
      BY <3>1 DEF Part
  <2>2. ASSUME NEW i \in p + 1..p + m
        PROVE  s[i] \in ToSet(piece)
    <3>1. i - p \in 1..m /\ p + (i - p) = i
      OBVIOUS
    <3>2. piece[i - p] = s[p + (i - p)]
      BY <1>2, <1>3, <3>1
    <3> QED
      BY <1>4, <3>1, <3>2 DEF ToSet
  <2> QED
    BY <1>4, <2>1, <2>2 DEF ToSet, Part
<1>8. IsInjective(piece)
  BY <1>4, <1>6 DEF IsInjective
<1> QED
  BY <1>1, <1>2, <1>3, <1>5, <1>7, <1>8 DEF piece

(* What the loop returns is what it has, cut to the limit. *)
LEMMA FinalKeeps ==
    ASSUME NEW got \in Seq(Nat), IsInjective(got), NEW limit \in Nat
    PROVE  LET final == Sorted(Take(got, limit))
           IN  /\ IsInjective(final) /\ Len(final) \in Nat /\ Len(final) <= limit
               /\ Len(final) < limit => Len(got) < limit /\ ToSet(final) = ToSet(got)
<1> DEFINE final == Sorted(Take(got, limit))
<1>1. /\ Take(got, limit) \in Seq(Nat) /\ Len(Take(got, limit)) = Least(limit, Len(got))
      /\ Len(got) <= limit => Take(got, limit) = got
      /\ IsInjective(Take(got, limit))
  BY TakeKeeps
<1>2. Len(final) = Least(limit, Len(got)) /\ ToSet(final) = ToSet(Take(got, limit)) /\ IsInjective(final)
  BY <1>1, SortedKeeps
<1>3. PICK n \in Nat : n = Len(got)
  OBVIOUS
<1> HIDE DEF final
<1>4. Len(final) \in Nat /\ Len(final) <= limit /\ (Len(final) < limit => Len(got) < limit)
  BY <1>2, <1>3 DEF Least
<1>5. Len(got) < limit => ToSet(final) = ToSet(got)
  BY <1>1, <1>2, <1>3
<1> QED
  BY <1>2, <1>4, <1>5 DEF final
-------------------------------------------------------------------------------
(* Findable in the order of their paths.                                      *)

Findable == [name : Entries, file : Entries]

(* Sorting by path keeps every item, once. *)
LEMMA SortingKeeps ==
    ASSUME NEW S \in SUBSET Findable, IsFiniteSet(S),
           \A x, y \in S : x.name = y.name => x = y,
           NEW sorted, sorted = Ordered(S, LAMBDA item : item.name)
    PROVE  /\ sorted \in Seq(Findable) /\ Len(sorted) = Cardinality(S)
           /\ \A i \in 1..Len(sorted) : sorted[i] \in S
           /\ \A x \in S : \E i \in 1..Len(sorted) : sorted[i] = x
           /\ \A i, j \in 1..Len(sorted) : sorted[i] = sorted[j] => i = j
<1> DEFINE upTo == [x \in S |-> {y \in S : y.name <= x.name}]
           StandsAt(i, x) == Cardinality({y \in S : y.name <= x.name}) = i
<1>1. \A x \in S : x.name \in Nat
  BY TreeAssumption DEF Findable
<1>2. upTo \in [S -> SUBSET S] /\ \A x \in S : x \in upTo[x]
  BY <1>1
<1>3. ASSUME NEW x \in S, NEW y \in S, x.name < y.name
      PROVE  upTo[x] \subseteq upTo[y] /\ upTo[x] # upTo[y]
  <2>1. upTo[x] \subseteq upTo[y]
    BY <1>1, <1>3
  <2>2. y \in upTo[y] /\ y \notin upTo[x]
    BY <1>1, <1>3
  <2> QED
    BY <2>1, <2>2
<1>4. \A x, y \in S : x # y => \/ upTo[x] \subseteq upTo[y] /\ upTo[x] # upTo[y]
                               \/ upTo[y] \subseteq upTo[x] /\ upTo[x] # upTo[y]
  <2> SUFFICES ASSUME NEW x \in S, NEW y \in S, x # y
               PROVE  \/ (upTo[x] \subseteq upTo[y] /\ upTo[x] # upTo[y])
                      \/ (upTo[y] \subseteq upTo[x] /\ upTo[x] # upTo[y])
    OBVIOUS
  <2>1. x.name < y.name \/ y.name < x.name
    BY <1>1
  <2> HIDE DEF upTo
  <2> QED
    BY <1>3, <2>1
<1>5. sorted = [i \in 1..Cardinality(S) |-> CHOOSE x \in S : StandsAt(i, x)]
  BY DEF Ordered
<1>6. \A x \in S : \A i : StandsAt(i, x) <=> Cardinality(upTo[x]) = i
  OBVIOUS
<1> HIDE DEF upTo, StandsAt
<1>7. /\ Cardinality(S) \in Nat
      /\ \A x \in S : Cardinality(upTo[x]) \in 1..Cardinality(S)
      /\ \A x, y \in S : Cardinality(upTo[x]) = Cardinality(upTo[y]) => x = y
      /\ \A i \in 1..Cardinality(S) : \E x \in S : Cardinality(upTo[x]) = i
  BY <1>2, <1>4, EveryPlaceIsTaken
<1>8. ASSUME NEW i \in 1..Cardinality(S)
      PROVE  sorted[i] \in S /\ Cardinality(upTo[sorted[i]]) = i
  <2>1. PICK x \in S : StandsAt(i, x)
    BY <1>6, <1>7
  <2>2. sorted[i] = CHOOSE y \in S : StandsAt(i, y)
    BY <1>5
  <2>3. sorted[i] \in S /\ StandsAt(i, sorted[i])
    BY <2>1, <2>2
  <2> QED
    BY <1>6, <2>3
<1>9. sorted \in Seq(Findable) /\ Len(sorted) = Cardinality(S)
  BY <1>5, <1>7, <1>8
<1>10. ASSUME NEW x \in S
       PROVE  \E i \in 1..Len(sorted) : sorted[i] = x
  <2> DEFINE i == Cardinality(upTo[x])
  <2>1. i \in 1..Cardinality(S)
    BY <1>7
  <2>2. sorted[i] = x
    BY <1>7, <1>8, <2>1
  <2> QED
    BY <1>9, <2>1, <2>2
<1>11. ASSUME NEW i \in 1..Len(sorted), NEW j \in 1..Len(sorted), sorted[i] = sorted[j]
       PROVE  i = j
  BY <1>8, <1>9, <1>11
<1> QED
  BY <1>8, <1>9, <1>10, <1>11

(* A sequence has no more different members than places. *)
LEMMA MembersBounded ==
    ASSUME NEW T, NEW s \in Seq(T)
    PROVE  IsFiniteSet(ToSet(s)) /\ Cardinality(ToSet(s)) \in Nat /\ Cardinality(ToSet(s)) <= Len(s)
<1>1. Len(s) \in Nat /\ DOMAIN s = 1..Len(s)
  OBVIOUS
<1>2. IsFiniteSet(1..Len(s)) /\ Cardinality(1..Len(s)) = Len(s)
  BY <1>1, FS_Interval
<1>3. s \in Surjection(1..Len(s), ToSet(s))
  BY <1>1 DEF Surjection, ToSet
<1>4. IsFiniteSet(ToSet(s)) /\ Cardinality(ToSet(s)) <= Cardinality(1..Len(s))
  BY <1>2, <1>3, FS_Surjection
<1> QED
  BY <1>2, <1>4, FS_CardinalityType
-------------------------------------------------------------------------------
(* The walk. *)

FoundNames == {found[i].name : i \in DOMAIN found}

(* Something was left out, and a warning says so. *)
LossTold == warned \cap Omissions # {}

(* What the walk makes of an entry whose directory it has listed: it goes  *)
(* on from it, or has found it, unless it had a reason not to.             *)
Treated(x) ==
    /\ Opens(x) => Leads(x) \in visited \cup ToSet(stack)
    /\ Leads(x) \in steady /\ Kind[Leads(x)] = "file" /\ Class[x] = "wanted" => x \in FoundNames

(* Nothing that was there all along is passed over. *)
NothingPassedOver ==
    step \in {"directory", "entries", "done"} /\ ~LossTold =>
        /\ Root \in visited \cup ToSet(stack)
        /\ \A x \in steady : Parent[x] \in visited => x \in listing \/ Treated(x)

(* What is found was in a directory that is not listed again, and is not   *)
(* looked at again.                                                        *)
FoundOnce ==
    /\ \A i, j \in DOMAIN found : found[i].name = found[j].name => i = j
    /\ \A i \in DOMAIN found : Parent[found[i].name] \in visited /\ found[i].name \notin listing
    /\ \A x \in listing : Parent[x] \in visited

FoundIsWanted ==
    \A i \in DOMAIN found : Class[found[i].name] = "wanted" /\ Kind[found[i].file] = "file"

(* The walk is over once the limit is reached. *)
LimitStops ==
    /\ Len(found) <= walk.max
    /\ Len(found) < walk.max \/ (stack = <<>> /\ listing = {})

WalkTyped ==
    /\ walk \in [follow: BOOLEAN, recursive: BOOLEAN, max: Nat \ {0}]
    /\ step \in {"idle", "directory", "entries", "done", "failed"}
    /\ there \subseteq Entries /\ steady \subseteq there
    /\ stack \in Seq(Directories) /\ visited \subseteq Directories
    /\ listing \subseteq Entries /\ (listing # {} => step \in {"entries", "failed"})
    /\ found \in Seq(Findable) /\ warned \subseteq Codes
    /\ step = "idle" => found = <<>> /\ visited = {} /\ stack = <<>>
    /\ step = "done" => stack = <<>>

WalkInv ==
    WalkTyped /\ NothingPassedOver /\ FoundOnce /\ FoundIsWanted /\ LimitStops

(* At the end, what was visited is closed, so it holds all that can be     *)
(* reached; and everything in it was looked at.                            *)
LEMMA WalkedIsComplete == WalkInv => NothingLostSilently
<1> SUFFICES ASSUME WalkInv, step = "done" PROVE NothingLostSilently
  BY DEF NothingLostSilently
<1>1. IsInjective([i \in DOMAIN found |-> found[i].name]) /\ Len(found) <= walk.max
  BY DEF WalkInv, FoundOnce, LimitStops, IsInjective
<1>2. \A i \in DOMAIN found : Class[found[i].name] = "wanted" /\ Kind[found[i].file] = "file"
  BY DEF WalkInv, FoundIsWanted
<1>3. ASSUME ~LossTold, NEW e \in Expected
      PROVE  \E i \in DOMAIN found : found[i].name = e
  <2>1. stack = <<>> /\ ToSet(stack) = {} /\ listing = {} /\ visited \subseteq Directories
    BY DEF WalkInv, WalkTyped, ToSet
  <2>2. Root \in visited /\ \A x \in steady : Parent[x] \in visited => Treated(x)
    BY <1>3, <2>1 DEF WalkInv, NothingPassedOver
  <2>3. Closed(visited)
    BY <2>1, <2>2 DEF Closed, Treated
  <2>4. Reached \subseteq visited
    BY <2>1, <2>3 DEF Reached
  <2>5. e \in steady /\ Treated(e) /\ Leads(e) \in steady /\ Kind[Leads(e)] = "file" /\ Class[e] = "wanted"
    BY <2>2, <2>4 DEF Expected
  <2> QED
    BY <2>5 DEF Treated, FoundNames
<1> QED
  BY <1>1, <1>2, <1>3 DEF NothingLostSilently, LossTold

-------------------------------------------------------------------------------
(* The steps. *)

(* What the walk made of an entry stays right, however the files change:   *)
(* it only grows what it has, and nothing becomes steady again.            *)
LEMMA TreatedStays ==
    ASSUME UNCHANGED walk, steady' \subseteq steady,
           visited \cup ToSet(stack) \subseteq (visited \cup ToSet(stack))',
           FoundNames \subseteq FoundNames',
           NEW x, Treated(x)
    PROVE  Treated(x)'
BY DEF Treated, Opens, Leads

(* Nothing is passed over as long as each entry that leaves the listing is *)
(* treated, and each whose directory is visited now is in it.              *)
LEMMA WalkGoesOn ==
    ASSUME WalkInv, step \in {"directory", "entries"}, UNCHANGED walk, steady' \subseteq steady,
           visited \cup ToSet(stack) \subseteq (visited \cup ToSet(stack))',
           FoundNames \subseteq FoundNames', warned \subseteq warned',
           ~LossTold' => \A x \in steady' : Parent[x] \in visited' =>
                \/ Parent[x] \in visited /\ x \notin listing
                \/ x \in listing'
                \/ Treated(x)'
    PROVE  NothingPassedOver'
<1> SUFFICES ASSUME ~LossTold', step' \in {"directory", "entries", "done"}
             PROVE  /\ Root \in (visited \cup ToSet(stack))'
                    /\ \A x \in steady' : Parent[x] \in visited' => x \in listing' \/ Treated(x)'
  BY DEF NothingPassedOver
<1>1. ~LossTold
  BY DEF LossTold
<1>2. Root \in visited \cup ToSet(stack) /\ \A x \in steady : Parent[x] \in visited => x \in listing \/ Treated(x)
  BY <1>1 DEF WalkInv, NothingPassedOver
<1>3. ASSUME NEW x \in steady', Parent[x] \in visited'
      PROVE  x \in listing' \/ Treated(x)'
  <2>1. CASE Parent[x] \in visited /\ x \notin listing
    BY <1>2, <2>1, TreatedStays
  <2>2. CASE x \in listing' \/ Treated(x)'
    BY <2>2
  <2> QED
    BY <1>1, <1>3, <2>1, <2>2
<1> QED
  BY <1>2, <1>3

(* The top of the stack comes off. *)
LEMMA Popping ==
    ASSUME NEW T, NEW s \in Seq(T), s # <<>>
    PROVE  Last(s) \in T /\ Front(s) \in Seq(T) /\ ToSet(s) = ToSet(Front(s)) \cup {Last(s)}
<1>1. Len(s) \in Nat \ {0} /\ DOMAIN s = 1..Len(s)
  OBVIOUS
<1>2. Last(s) = s[Len(s)] /\ Last(s) \in T
  BY <1>1 DEF Last
<1>3. Front(s) = SubSeq(s, 1, Len(s) - 1)
  BY DEF Front
<1>4. Front(s) \in Seq(T) /\ DOMAIN Front(s) = 1..(Len(s) - 1) /\ \A i \in 1..(Len(s) - 1) : Front(s)[i] = s[i]
  BY <1>1, <1>3
<1> QED
  BY <1>1, <1>2, <1>4 DEF ToSet

LEMMA Pushing ==
    ASSUME NEW T, NEW s \in Seq(T), NEW t \in T
    PROVE  /\ Append(s, t) \in Seq(T) /\ Len(Append(s, t)) = Len(s) + 1 /\ Len(s) \in Nat
           /\ DOMAIN Append(s, t) = DOMAIN s \cup {Len(s) + 1} /\ DOMAIN s = 1..Len(s)
           /\ \A i \in DOMAIN s : Append(s, t)[i] = s[i]
           /\ Append(s, t)[Len(s) + 1] = t
           /\ ToSet(Append(s, t)) = ToSet(s) \cup {t}
BY DEF ToSet

(* Files come and go. *)
LEMMA UpsetsKeep == WalkInv /\ (Disappears \/ Appears) => WalkInv'
<1> SUFFICES ASSUME WalkInv, Disappears \/ Appears PROVE WalkInv'
  OBVIOUS
<1>1. /\ UNCHANGED <<walk, step, stack, visited, listing, found, warned>>
      /\ there' \subseteq Entries /\ steady' \subseteq there' /\ steady' \subseteq steady
      /\ step \in {"directory", "entries"}
  BY DEF Disappears, Appears, WalkInv, WalkTyped
<1>2. FoundOnce' /\ FoundIsWanted' /\ LimitStops'
  BY <1>1 DEF WalkInv, FoundOnce, FoundIsWanted, LimitStops
<1>3. WalkTyped'
  BY <1>1 DEF WalkInv, WalkTyped
<1>4. NothingPassedOver'
  BY <1>1, WalkGoesOn DEF FoundNames
<1> QED
  BY <1>2, <1>3, <1>4 DEF WalkInv

(* The steps between two directories. *)
LEMMA DirectoryStepsKeep ==
    WalkInv /\ (Begins \/ DirectoryGone \/ SkipsVisited \/ CannotList \/ Lists \/ NextDirectory) => WalkInv'
<1> SUFFICES ASSUME WalkInv, Begins \/ DirectoryGone \/ SkipsVisited \/ CannotList \/ Lists \/ NextDirectory
             PROVE  WalkInv'
  OBVIOUS
<1> USE DEF WalkInv
<1>1. CASE Begins
  <2>1. /\ stack' = <<Root>> /\ UNCHANGED <<walk, there, steady, visited, listing, found, warned>>
        /\ step' \in {"directory", "failed"} /\ found = <<>> /\ visited = {} /\ listing = {}
    BY <1>1 DEF Begins, WalkTyped
  <2>2. Root \in Directories /\ <<Root>> \in Seq(Directories) /\ ToSet(<<Root>>) = {Root}
    BY DEF Directories, ToSet
  <2>3. WalkTyped'
    BY <2>1, <2>2 DEF WalkTyped
  <2>4. NothingPassedOver'
    BY <2>1, <2>2 DEF NothingPassedOver
  <2>5. FoundOnce' /\ FoundIsWanted' /\ LimitStops'
    BY <2>1 DEF FoundOnce, FoundIsWanted, LimitStops, WalkTyped
  <2> QED
    BY <2>3, <2>4, <2>5
<1>2. CASE DirectoryGone
  BY <1>2 DEF DirectoryGone, WalkTyped, NothingPassedOver, FoundOnce, FoundIsWanted, LimitStops
<1>3. ASSUME step = "directory", stack # <<>>, stack' = Front(stack), UNCHANGED <<walk, there, steady, found>>,
             visited' = visited \cup {Last(stack)}, warned \subseteq warned', warned' \subseteq Codes,
             \/ step' = "directory" /\ UNCHANGED listing /\ (LossTold' \/ Last(stack) \in visited)
             \/ /\ step' = "entries" /\ listing' = Children(Last(stack)) /\ Last(stack) \notin visited
      PROVE  WalkInv'
  <2>1. /\ Last(stack) \in Directories /\ Front(stack) \in Seq(Directories)
        /\ ToSet(stack) = ToSet(Front(stack)) \cup {Last(stack)}
    BY <1>3, Popping DEF WalkTyped
  <2>2. listing = {} /\ listing' \subseteq there /\ \A x \in listing' : Parent[x] = Last(stack)
    BY <1>3 DEF WalkTyped, Children
  <2>3. WalkTyped'
    BY <1>3, <2>1, <2>2 DEF WalkTyped
  <2>4. LimitStops'
    <3>1. Len(found) < walk.max
      BY <1>3 DEF LimitStops
    <3> QED
      BY <1>3, <3>1 DEF LimitStops
  <2>5. FoundOnce'
    BY <1>3, <2>2 DEF FoundOnce
  <2>6. FoundIsWanted'
    BY <1>3 DEF FoundIsWanted
  <2>7. NothingPassedOver'
    <3>1. visited \cup ToSet(stack) = (visited \cup ToSet(stack))' /\ FoundNames = FoundNames'
      BY <1>3, <2>1 DEF FoundNames
    <3>2. ASSUME ~LossTold', NEW x \in steady', Parent[x] \in visited'
          PROVE  (Parent[x] \in visited /\ x \notin listing) \/ x \in listing'
      <4>1. CASE Parent[x] \in visited
        BY <2>2, <4>1
      <4>2. CASE Parent[x] \notin visited
        <5>1. Parent[x] = Last(stack) /\ x \in there
          BY <1>3, <3>2, <4>2 DEF WalkTyped
        <5> QED
          BY <1>3, <3>2, <4>2, <5>1 DEF Children
      <4> QED
        BY <4>1, <4>2
    <3> QED
      BY <1>3, <3>1, <3>2, WalkGoesOn
  <2> QED
    BY <2>3, <2>4, <2>5, <2>6, <2>7
<1>4. CASE SkipsVisited
  <2>1. /\ step = "directory" /\ stack # <<>> /\ stack' = Front(stack) /\ Last(stack) \in visited
        /\ UNCHANGED <<walk, step, there, steady, visited, listing, found, warned>>
    BY <1>4 DEF SkipsVisited
  <2>2. visited' = visited \cup {Last(stack)} /\ warned' \subseteq Codes
    BY <2>1 DEF WalkTyped
  <2> QED
    BY <1>3, <2>1, <2>2
<1>5. CASE CannotList
  <2>1. /\ step = "directory" /\ stack # <<>> /\ stack' = Front(stack) /\ visited' = visited \cup {Last(stack)}
        /\ warned' = warned \cup {"directory_inaccessible"}
        /\ UNCHANGED <<walk, step, there, steady, listing, found>>
    BY <1>5 DEF CannotList, Warns
  <2>2. warned' \subseteq Codes /\ LossTold'
    BY <2>1 DEF WalkTyped, Codes, LossTold, Omissions
  <2> QED
    BY <1>3, <2>1, <2>2
<1>6. CASE Lists
  <2>1. /\ step = "directory" /\ stack # <<>> /\ stack' = Front(stack) /\ visited' = visited \cup {Last(stack)}
        /\ listing' = Children(Last(stack)) /\ step' = "entries" /\ Last(stack) \notin visited
        /\ UNCHANGED <<walk, there, steady, found, warned>>
    BY <1>6 DEF Lists
  <2>2. warned' \subseteq Codes
    BY <2>1 DEF WalkTyped
  <2> QED
    BY <1>3, <2>1, <2>2
<1>7. CASE NextDirectory
  <2>1. step = "entries" /\ step' = "directory" /\ listing = {}
        /\ UNCHANGED <<walk, there, steady, stack, visited, listing, found, warned>>
    BY <1>7 DEF NextDirectory
  <2>2. NothingPassedOver'
    BY <2>1, WalkGoesOn DEF FoundNames
  <2> QED
    BY <2>1, <2>2 DEF WalkTyped, FoundOnce, FoundIsWanted, LimitStops
<1> QED
  BY <1>1, <1>2, <1>4, <1>5, <1>6, <1>7

(* The entry in hand is one of those still to look at. *)
LEMMA EntryIsListed ==
    ASSUME listing \subseteq Entries, listing # {}
    PROVE  Entry \in listing
<1>1. listing \subseteq Nat
  BY TreeAssumption
<1>2. PICK e \in listing : \A x \in listing : <<x, e>> \notin OpToRel(<, Nat)
  BY <1>1, NatLessThanWellFounded, WFMin
<1>3. \A x \in listing : e <= x
  <2> SUFFICES ASSUME NEW x \in listing, ~(e <= x)
               PROVE  <<x, e>> \in OpToRel(<, Nat)
    BY <1>2
  <2> QED
    BY <1>1 DEF OpToRel
<1> QED
  BY <1>3 DEF Entry

(* One entry is looked at and passed, and something is made of it.         *)
LEMMA PassingKeeps ==
    ASSUME WalkInv, Looks, NEW entry, entry = Entry, listing' = listing \ {entry},
           UNCHANGED <<walk, step, there, steady, visited, found>>,
           stack' = stack \/ (\E d \in Directories : stack' = Append(stack, d)),
           warned \subseteq warned', warned' \subseteq Codes,
           ~LossTold' /\ entry \in steady => Treated(entry)'
    PROVE  WalkInv'
<1> USE DEF WalkInv
<1>1. step = "entries" /\ Entry \in listing
  BY EntryIsListed DEF Looks, WalkTyped
<1>2. stack' \in Seq(Directories) /\ ToSet(stack) \subseteq ToSet(stack')
  <2>1. CASE stack' = stack
    BY <2>1 DEF WalkTyped
  <2>2. ASSUME NEW d \in Directories, stack' = Append(stack, d)
        PROVE  stack' \in Seq(Directories) /\ ToSet(stack) \subseteq ToSet(stack')
    BY <2>2, Pushing DEF WalkTyped
  <2> QED
    BY <2>1, <2>2
<1>3. WalkTyped'
  BY <1>1, <1>2 DEF WalkTyped
<1>4. LimitStops'
  <2>1. Len(found) < walk.max
    BY <1>1 DEF LimitStops
  <2> QED
    BY <2>1 DEF LimitStops
<1>5. FoundOnce' /\ FoundIsWanted'
  BY DEF FoundOnce, FoundIsWanted
<1>6. NothingPassedOver'
  <2>1. visited \cup ToSet(stack) \subseteq (visited \cup ToSet(stack))' /\ FoundNames \subseteq FoundNames'
    BY <1>2 DEF FoundNames
  <2>2. ASSUME ~LossTold', NEW x \in steady', Parent[x] \in visited'
        PROVE  (Parent[x] \in visited /\ x \notin listing) \/ x \in listing' \/ Treated(x)'
    <3>1. CASE x = entry
      BY <2>2, <3>1
    <3>2. CASE x # entry
      BY <2>2, <3>2
    <3> QED
      BY <3>1, <3>2
  <2> QED
    BY <1>1, <2>1, <2>2, WalkGoesOn
<1> QED
  BY <1>3, <1>4, <1>5, <1>6

(* What an entry in hand resolves to, where links are followed. *)
LEMMA RealIsLead == (Kind[Entry] = "link" => walk.follow) => Real = Leads(Entry)
BY DEF Real, Leads

(* Links, directories, and files that are not wanted. *)
LEMMA PassedKeep ==
    WalkInv /\ (SkipsLink \/ LinkEscapes \/ CannotInspect \/ EntersDirectory \/ SkipsFile) => WalkInv'
<1> SUFFICES ASSUME WalkInv, SkipsLink \/ LinkEscapes \/ CannotInspect \/ EntersDirectory \/ SkipsFile
             PROVE  WalkInv'
  OBVIOUS
<1>0. PICK entry : entry = Entry
  OBVIOUS
<1>1. warned \subseteq Codes /\ steady \subseteq there /\ steady \subseteq Entries /\ Root \notin Entries
  BY TreeAssumption DEF WalkInv, WalkTyped, Root
<1>2. CASE SkipsLink
  <2>1. /\ Looks /\ listing' = listing \ {entry} /\ Kind[entry] = "link"
        /\ UNCHANGED <<walk, step, there, steady, stack, visited, found>>
        /\ warned' = warned \cup {"symlink_skipped"} \/ warned' = warned \cup {"broken_symlink"}
        /\ ~walk.follow \/ entry \notin there \/ Target[entry] \notin there \cup {Root, Outside}
    BY <1>0, <1>2 DEF SkipsLink, Passes, Warns
  <2>2. warned' \subseteq Codes /\ warned \subseteq warned'
    BY <1>1, <2>1 DEF Codes
  <2>3. ASSUME entry \in steady
        PROVE  Treated(entry)'
    <3>1. Leads(entry) \notin {Root} \cup steady
      BY <1>1, <2>1, <2>3, TreeAssumption DEF Leads
    <3>2. Leads(entry)' = Leads(entry)
      BY <2>1 DEF Leads
    <3> QED
      BY <2>1, <3>1, <3>2 DEF Treated, Opens
  <2> QED
    BY <2>1, <2>2, <2>3, <1>0, PassingKeeps
<1>3. CASE LinkEscapes
  <2>1. step' = "failed" /\ UNCHANGED <<walk, there, steady, stack, visited, listing, found, warned>>
    BY <1>3 DEF LinkEscapes
  <2> QED
    BY <2>1 DEF WalkInv, WalkTyped, NothingPassedOver, FoundOnce, FoundIsWanted, LimitStops
<1>4. CASE CannotInspect
  <2>1. /\ Looks /\ listing' = listing \ {entry} /\ warned' = warned \cup {"entry_inaccessible"}
        /\ UNCHANGED <<walk, step, there, steady, stack, visited, found>>
    BY <1>0, <1>4 DEF CannotInspect, Passes, Warns
  <2>2. warned' \subseteq Codes /\ LossTold'
    BY <1>1, <2>1 DEF Codes, LossTold, Omissions
  <2> QED
    BY <2>1, <2>2, <1>0, PassingKeeps
<1>5. CASE EntersDirectory
  <2>1. /\ Looks /\ listing' = listing \ {entry} /\ Real \in Directories
        /\ stack' = IF walk.recursive THEN Append(stack, Real) ELSE stack
        /\ UNCHANGED <<walk, step, there, steady, visited, found, warned>>
        /\ Real = Leads(entry)
    BY <1>0, <1>5, RealIsLead DEF EntersDirectory, Inspects, IsDirectory, Passes
  <2>2. Treated(entry)'
    <3>1. Leads(entry)' = Leads(entry)
      BY <2>1 DEF Leads
    <3>2. walk.recursive => Leads(entry) \in ToSet(stack')
      BY <2>1, Pushing DEF WalkInv, WalkTyped
    <3>3. ~(Leads(entry) \in steady /\ Kind[Leads(entry)] = "file")
      BY <1>1, <2>1 DEF Directories
    <3> QED
      BY <2>1, <3>1, <3>2, <3>3 DEF Treated, Opens
  <2> QED
    BY <1>1, <2>1, <2>2, <1>0, PassingKeeps
<1>6. CASE SkipsFile
  <2>1. /\ Looks /\ listing' = listing \ {entry} /\ Real \notin Directories /\ Real = Leads(entry)
        /\ Kind[Real] # "file" \/ Class[entry] # "wanted"
        /\ warned' \in {warned, warned \cup {"special_file_skipped"}, warned \cup {"unsupported_file_type"}}
        /\ UNCHANGED <<walk, step, there, steady, stack, visited, found>>
    BY <1>0, <1>6, RealIsLead DEF SkipsFile, Inspects, IsDirectory, Passes, Warns
  <2>2. warned' \subseteq Codes /\ warned \subseteq warned'
    BY <1>1, <2>1 DEF Codes
  <2>3. Treated(entry)'
    <3>1. Leads(entry)' = Leads(entry)
      BY <2>1 DEF Leads
    <3> QED
      BY <2>1, <3>1 DEF Treated, Opens
  <2> QED
    BY <2>1, <2>2, <2>3, <1>0, PassingKeeps
<1> QED
  BY <1>2, <1>3, <1>4, <1>5, <1>6

(* A file is found: for the first time, because its directory is listed    *)
(* once and it was not passed before.                                      *)
LEMMA FindingKeeps == WalkInv /\ Finds => WalkInv'
<1> SUFFICES ASSUME WalkInv, Finds PROVE WalkInv'
  OBVIOUS
<1>1. PICK item, entry, real : entry = Entry /\ real = Real /\ item = [name |-> entry, file |-> real]
  OBVIOUS
<1>2. /\ Looks /\ entry \in there /\ real \in there \cup {Root} /\ real \notin Directories
      /\ Kind[real] = "file" /\ Class[entry] = "wanted" /\ real = Leads(entry)
      /\ found' = Append(found, item)
      /\ UNCHANGED <<walk, step, there, steady, visited>>
  BY <1>1, RealIsLead DEF Finds, Inspects, IsDirectory
<1>3. \/ /\ Len(found') >= walk.max /\ stack' = <<>> /\ listing' = {}
         /\ warned' = warned \cup {"discovery_limit_reached"}
      \/ /\ ~(Len(found') >= walk.max) /\ listing' = listing \ {entry} /\ UNCHANGED <<stack, warned>>
  BY <1>1 DEF Finds, Passes, Warns
<1>4. step = "entries" /\ entry \in listing /\ listing # {}
  BY <1>1, <1>2, EntryIsListed DEF Looks, WalkInv, WalkTyped
<1>5. item \in Findable /\ item.name = entry /\ item.file = real
  BY <1>1, <1>2 DEF Findable, Directories, WalkInv, WalkTyped
<1>6. /\ found' \in Seq(Findable) /\ Len(found') = Len(found) + 1 /\ Len(found) \in Nat
      /\ DOMAIN found' = DOMAIN found \cup {Len(found) + 1} /\ DOMAIN found = 1..Len(found)
      /\ \A i \in DOMAIN found : found'[i] = found[i]
      /\ found'[Len(found) + 1] = item
  BY <1>2, <1>5, Pushing DEF WalkInv, WalkTyped
<1>7. WalkTyped'
  <2>1. warned' \subseteq Codes /\ listing' \subseteq listing
    BY <1>3 DEF Codes, WalkInv, WalkTyped
  <2>2. stack' \in Seq(Directories)
    <3>1. stack \in Seq(Directories) /\ <<>> \in Seq(Directories)
      BY DEF WalkInv, WalkTyped
    <3> QED
      BY <1>3, <3>1
  <2> QED
    BY <1>2, <1>4, <1>6, <2>1, <2>2 DEF WalkInv, WalkTyped
<1>8. LimitStops'
  <2>1. Len(found) < walk.max /\ walk.max \in Nat
    BY <1>4 DEF WalkInv, LimitStops, WalkTyped
  <2>2. Len(found') <= walk'.max
    BY <1>2, <1>6, <2>1
  <2>3. Len(found') < walk'.max \/ (stack' = <<>> /\ listing' = {})
    BY <1>2, <1>3, <1>6, <2>1
  <2> QED
    BY <2>2, <2>3 DEF LimitStops
<1>9. FoundOnce'
  <2>1. \A i \in DOMAIN found : found[i].name # entry
    BY <1>4 DEF WalkInv, FoundOnce
  <2>2. listing' \subseteq listing \ {entry} /\ visited' = visited
    BY <1>2, <1>3
  <2>3. \A i, j \in DOMAIN found' : found'[i].name = found'[j].name => i = j
    BY <1>5, <1>6, <2>1 DEF WalkInv, FoundOnce
  <2>4. \A i \in DOMAIN found' : Parent[found'[i].name] \in visited /\ found'[i].name \notin listing'
    BY <1>4, <1>5, <1>6, <2>2 DEF WalkInv, FoundOnce
  <2>5. \A x \in listing' : Parent[x] \in visited'
    BY <2>2 DEF WalkInv, FoundOnce
  <2> QED
    BY <2>2, <2>3, <2>4, <2>5 DEF FoundOnce
<1>10. FoundIsWanted'
  BY <1>2, <1>5, <1>6 DEF WalkInv, FoundIsWanted
<1>11. NothingPassedOver'
  <2>1. FoundNames' = FoundNames \cup {entry}
    BY <1>5, <1>6 DEF FoundNames
  <2>2. CASE LossTold'
    BY <2>2 DEF NothingPassedOver
  <2>3. CASE ~LossTold'
    <3>1. listing' = listing \ {entry} /\ UNCHANGED <<stack, warned>>
      BY <1>3, <2>3 DEF LossTold, Omissions
    <3>2. Treated(entry)'
      <4>1. Leads(entry)' = Leads(entry)
        BY <1>2 DEF Leads
      <4> QED
        BY <1>2, <2>1, <4>1 DEF Treated, Opens
    <3>3. ASSUME NEW x \in steady', Parent[x] \in visited'
          PROVE  (Parent[x] \in visited /\ x \notin listing) \/ x \in listing' \/ Treated(x)'
      <4>1. CASE x = entry
        BY <3>2, <4>1
      <4>2. CASE x # entry
        BY <1>2, <3>1, <3>3, <4>2
      <4> QED
        BY <4>1, <4>2
    <3> QED
      BY <1>2, <1>4, <2>1, <3>1, <3>3, WalkGoesOn
  <2> QED
    BY <2>2, <2>3
<1> QED
  BY <1>7, <1>8, <1>9, <1>10, <1>11 DEF WalkInv

(* Sorting at the end changes nothing of what was found. *)
LEMMA EndingKeeps == WalkInv /\ Ends => WalkInv'
<1> SUFFICES ASSUME WalkInv, Ends PROVE WalkInv'
  OBVIOUS
<1>1. /\ step = "directory" /\ step' = "done" /\ stack = <<>>
      /\ found' = Ordered(ToSet(found), LAMBDA item : item.name)
      /\ UNCHANGED <<walk, there, steady, stack, visited, listing, warned>>
  BY DEF Ends
<1>2. found \in Seq(Findable) /\ Len(found) \in Nat /\ listing = {} /\ walk.max \in Nat
  BY <1>1 DEF WalkInv, WalkTyped
<1>3. /\ ToSet(found) \in SUBSET Findable /\ IsFiniteSet(ToSet(found)) /\ Cardinality(ToSet(found)) \in Nat
      /\ Cardinality(ToSet(found)) <= Len(found)
  <2>1. ToSet(found) \in SUBSET Findable
    BY <1>2 DEF ToSet
  <2> QED
    BY <1>2, <2>1, MembersBounded
<1>4. \A x, y \in ToSet(found) : x.name = y.name => x = y
  BY DEF WalkInv, FoundOnce, ToSet
<1>5. /\ found' \in Seq(Findable) /\ Len(found') = Cardinality(ToSet(found))
      /\ \A i \in 1..Len(found') : found'[i] \in ToSet(found)
      /\ \A x \in ToSet(found) : \E i \in 1..Len(found') : found'[i] = x
      /\ \A i, j \in 1..Len(found') : found'[i] = found'[j] => i = j
  BY <1>1, <1>3, <1>4, SortingKeeps
<1>6. DOMAIN found' = 1..Len(found')
  BY <1>5
<1>7. \A i \in DOMAIN found' : \E k \in DOMAIN found : found'[i] = found[k]
  BY <1>5, <1>6 DEF ToSet
<1>8. WalkTyped'
  BY <1>1, <1>2, <1>5 DEF WalkInv, WalkTyped
<1>9. FoundOnce'
  BY <1>1, <1>2, <1>4, <1>5, <1>6, <1>7 DEF WalkInv, FoundOnce
<1>10. FoundIsWanted'
  BY <1>7 DEF WalkInv, FoundIsWanted
<1>11. LimitStops'
  BY <1>1, <1>2, <1>3, <1>5 DEF WalkInv, LimitStops
<1>12. NothingPassedOver'
  <2>1. FoundNames \subseteq FoundNames'
    <3>1. ASSUME NEW i \in DOMAIN found
          PROVE  \E k \in DOMAIN found' : found'[k].name = found[i].name
      <4>1. found[i] \in ToSet(found)
        BY DEF ToSet
      <4> QED
        BY <1>5, <1>6, <4>1
    <3> QED
      BY <3>1 DEF FoundNames
  <2> QED
    BY <1>1, <2>1, WalkGoesOn
<1> QED
  BY <1>8, <1>9, <1>10, <1>11, <1>12 DEF WalkInv

LEMMA WalkStarts == DiscoveryInit => WalkInv
<1> SUFFICES ASSUME DiscoveryInit
             PROVE  WalkInv
  OBVIOUS
<1>1. /\ walk \in Walks /\ step = "idle" /\ there = Entries /\ steady = there
      /\ stack = <<>> /\ visited = {} /\ listing = {} /\ found = <<>> /\ warned = {}
  BY DEF DiscoveryInit
<1> QED
  BY <1>1, TreeAssumption DEF WalkInv, WalkTyped, NothingPassedOver, FoundOnce, FoundIsWanted, LimitStops, Findable

LEMMA WalkSteps == WalkInv /\ [DiscoveryNext]_discoveryVars => WalkInv'
<1>1. WalkInv /\ UNCHANGED discoveryVars => WalkInv'
  BY DEF discoveryVars, WalkInv, WalkTyped, NothingPassedOver, FoundOnce, FoundIsWanted, LimitStops,
         LossTold, Treated, Opens, Leads, FoundNames
<1> QED
  BY <1>1, UpsetsKeep, DirectoryStepsKeep, PassedKeep, FindingKeeps, EndingKeeps DEF DiscoveryNext, Discovers

(* For every tree, with links wherever they lead, every configuration and  *)
(* any number of files that come and go while the walk is on: what is      *)
(* found is found once, wanted and within the limit, and a file that was   *)
(* there all along, where the walk should come by, is found unless a       *)
(* warning says that something was left out (connectors/filesystem.py).    *)
THEOREM WalksLoseNothing == DiscoverySpec => []NothingLostSilently
  BY WalkStarts, WalkSteps, WalkedIsComplete, PTL DEF DiscoverySpec
-------------------------------------------------------------------------------
(* Contents and changes. *)

RetrievalSpec == RetrievalInit /\ [][RetrievalNext]_retrievalVars

Files == [kind : {"file", "link", "directory"}, body : DOMAIN Bodies, stamp : 1..2]

DiskWell ==
    /\ DOMAIN disk \subseteq FileNames /\ \A n \in DOMAIN disk : disk[n] \in Files
    /\ encodings \in Encodings

(* What get_content has in hand: a body once a file is open, one within    *)
(* both limits once it is read.                                            *)
FetchWell ==
    /\ DOMAIN fetch = {"step", "name", "opened", "data", "encoding", "warning", "category"}
    /\ fetch.step = "open" => fetch.opened \in DOMAIN Bodies
    /\ fetch.step = "read" => fetch.data \in DOMAIN Bodies /\ Bodies[fetch.data].size <= FileLimit

(* Without a cursor the caller has no copy either. *)
MirrorWell ==
    /\ mirror.cursor = NoCursor => mirror.entries = Empty
    /\ mirror.cursor # NoCursor => DOMAIN mirror.cursor \subseteq FileNames

RetrievalInv == DiskWell /\ FetchWell /\ MirrorWell /\ ContentIsWhole /\ MirrorIsCurrent

LEMMA FileLimitIsBoth == FileLimit \in Nat /\ FileLimit <= Budget /\ FileLimit <= SizeLimit
BY FilesAssumption DEF FileLimit, Least

(* The first of the encodings that a body is in. *)
LEMMA FirstFallback ==
    ASSUME DiskWell, NEW body, Fallbacks(body) # {}
    PROVE  Min(Fallbacks(body)) \in Fallbacks(body)
<1>1. Fallbacks(body) \subseteq Nat
  BY FilesAssumption DEF Fallbacks, DiskWell
<1>2. PICK i \in Fallbacks(body) : \A k \in Fallbacks(body) : <<k, i>> \notin OpToRel(<, Nat)
  BY <1>1, NatLessThanWellFounded, WFMin
<1>3. \A k \in Fallbacks(body) : i <= k
  <2> SUFFICES ASSUME NEW k \in Fallbacks(body), ~(i <= k)
               PROVE  <<k, i>> \in OpToRel(<, Nat)
    BY <1>2
  <2> QED
    BY <1>1 DEF OpToRel
<1> QED
  BY <1>3 DEF Min

(* An encoding that is chosen for a text is one the text decodes in, but   *)
(* for a mark that is believed and a text that is replaced.                *)
LEMMA ChosenDecodes ==
    ASSUME DiskWell, NEW body, body.bom = FALSE,
           SelectEncoding(body).warning \notin {"refused", "decoding_replacement_required"}
    PROVE  SelectEncoding(body).encoding \in body.decodes
<1>1. CASE "utf-8" \in body.decodes
  BY <1>1 DEF SelectEncoding
<1>2. CASE "utf-8" \notin body.decodes /\ Fallbacks(body) # {}
  <2>1. SelectEncoding(body).encoding = encodings.fallbacks[Min(Fallbacks(body))]
    BY <1>2 DEF SelectEncoding
  <2>2. Min(Fallbacks(body)) \in Fallbacks(body)
    BY <1>2, FirstFallback
  <2> QED
    BY <2>1, <2>2 DEF Fallbacks
<1>3. CASE "utf-8" \notin body.decodes /\ Fallbacks(body) = {}
  BY <1>3 DEF SelectEncoding
<1> QED
  BY <1>1, <1>2, <1>3

(* get_content leaves the disk and the changes alone. *)
LEMMA FetchStep ==
    ASSUME RetrievalInv, Untouched, FetchWell', ContentIsWhole'
    PROVE  RetrievalInv'
<1>1. DiskWell' /\ MirrorWell' /\ MirrorIsCurrent'
  BY DEF RetrievalInv, Untouched, DiskWell, MirrorWell, MirrorIsCurrent
<1> QED
  BY <1>1 DEF RetrievalInv

(* The steps of get_content, each with what the call has in hand after it. *)
LEMMA FetchKeeps ==
    RetrievalInv /\ ((\E n \in FileNames : GetsItem(n)) \/ ResolvesFile \/ OpensFile) => RetrievalInv'
<1> SUFFICES ASSUME RetrievalInv, (\E n \in FileNames : GetsItem(n)) \/ ResolvesFile \/ OpensFile
             PROVE  RetrievalInv'
  OBVIOUS
<1>1. Untouched
  BY DEF GetsItem, ResolvesFile, OpensFile
<1>2. ASSUME NEW category, Failed(category)
      PROVE  FetchWell' /\ ContentIsWhole'
  BY <1>2 DEF RetrievalInv, FetchWell, ContentIsWhole, Failed
<1>3. ASSUME NEW n \in FileNames, GetsItem(n)
      PROVE  FetchWell' /\ ContentIsWhole'
  BY <1>3 DEF RetrievalInv, FetchWell, ContentIsWhole, GetsItem
<1>4. ASSUME ResolvesFile
      PROVE  FetchWell' /\ ContentIsWhole'
  <2>1. CASE fetch' = [fetch EXCEPT !.step = "resolved"]
    BY <2>1, <1>4 DEF RetrievalInv, FetchWell, ContentIsWhole, ResolvesFile
  <2> QED
    BY <2>1, <1>2, <1>4 DEF ResolvesFile
<1>5. ASSUME OpensFile
      PROVE  FetchWell' /\ ContentIsWhole'
  <2>1. fetch.step = "resolved"
    BY <1>5 DEF OpensFile
  <2>2. CASE fetch.name \notin Regular
    <3>1. \E category : Failed(category)
      <4>1. CASE fetch.name \notin DOMAIN disk
        BY <4>1, <1>5 DEF OpensFile, Regular
      <4>2. CASE fetch.name \in DOMAIN disk
        <5>1. disk[fetch.name].kind \in {"link", "directory"}
          BY <4>2, <2>2 DEF RetrievalInv, DiskWell, Files, Regular
        <5>2. CASE disk[fetch.name].kind = "link"
          BY <5>2, <4>2, <1>5, <2>2 DEF OpensFile
        <5>3. CASE disk[fetch.name].kind = "directory"
          BY <5>3, <4>2, <1>5, <2>2 DEF OpensFile
        <5> QED
          BY <5>1, <5>2, <5>3
      <4> QED
        BY <4>1, <4>2
    <3> QED
      BY <3>1, <1>2
  <2>3. CASE fetch.name \in Regular
    <3>1. fetch.name \in DOMAIN disk /\ disk[fetch.name].kind = "file"
      BY <2>3 DEF Regular
    <3>2. disk[fetch.name].body \in DOMAIN Bodies
      BY <3>1 DEF RetrievalInv, DiskWell, Files
    <3>3. IF BytesOf(fetch.name).size > FileLimit THEN Failed("content_too_large")
          ELSE fetch' = [fetch EXCEPT !.step = "open", !.opened = disk[fetch.name].body]
      BY <1>5, <2>3, <3>1 DEF OpensFile
    <3>4. CASE fetch' = [fetch EXCEPT !.step = "open", !.opened = disk[fetch.name].body]
      BY <3>4, <3>2, <2>1 DEF RetrievalInv, FetchWell, ContentIsWhole
    <3> QED
      BY <3>3, <3>4, <1>2
  <2> QED
    BY <2>2, <2>3
<1> QED
  BY <1>1, <1>3, <1>4, <1>5, FetchStep

(* What is read is within both limits, however the file changed. *)
LEMMA ReadingKeeps == RetrievalInv /\ ReadsFile => RetrievalInv'
<1> SUFFICES ASSUME RetrievalInv, ReadsFile
             PROVE  RetrievalInv'
  OBVIOUS
<1> DEFINE now == IF fetch.name \in Regular THEN disk[fetch.name].body ELSE fetch.opened
<1>1. PICK body : body = now
  OBVIOUS
<1>2. body \in DOMAIN Bodies
  BY <1>1 DEF RetrievalInv, DiskWell, FetchWell, Files, Regular, ReadsFile
<1>3. Bodies[body].size \in Nat /\ FileLimit \in Nat
  BY <1>2, FilesAssumption, FileLimitIsBoth
<1>4. fetch.step = "open" /\ Untouched
  BY DEF ReadsFile
<1>5. IF Bodies[body].size > FileLimit THEN Failed("content_too_large")
      ELSE fetch' = [fetch EXCEPT !.step = "read", !.data = body]
  BY <1>1 DEF ReadsFile
<1>6. CASE Bodies[body].size > FileLimit
  <2>1. FetchWell' /\ ContentIsWhole'
    BY <1>5, <1>6 DEF RetrievalInv, FetchWell, ContentIsWhole, Failed
  <2> QED
    BY <2>1, <1>4, FetchStep
<1>7. CASE Bodies[body].size <= FileLimit
  <2>1. fetch' = [fetch EXCEPT !.step = "read", !.data = body]
    BY <1>3, <1>5, <1>7
  <2>2. FetchWell'
    BY <2>1, <1>2, <1>4, <1>7 DEF RetrievalInv, FetchWell, FileLimit
  <2>3. ContentIsWhole'
    BY <2>1 DEF RetrievalInv, FetchWell, ContentIsWhole
  <2> QED
    BY <2>2, <2>3, <1>4, FetchStep
<1> QED
  BY <1>3, <1>6, <1>7

(* What is delivered decodes as it says, or says that it does not. *)
LEMMA DeliveringKeeps == RetrievalInv /\ DeliversContent => RetrievalInv'
<1> SUFFICES ASSUME RetrievalInv, DeliversContent
             PROVE  RetrievalInv'
  OBVIOUS
<1>1. PICK body : body = Bodies[fetch.data]
  OBVIOUS
<1>2. PICK chosen : chosen = SelectEncoding(body)
  OBVIOUS
<1>3. /\ fetch.step = "read" /\ Untouched
      /\ fetch.data \in DOMAIN Bodies /\ body.size <= FileLimit
  BY <1>1 DEF DeliversContent, RetrievalInv, FetchWell
<1>4. body.size <= Budget /\ body.size <= SizeLimit
  <2>1. body.size \in Nat /\ Budget \in Nat /\ SizeLimit \in Nat
    BY <1>1, <1>3, FilesAssumption
  <2>2. body.size <= FileLimit
    BY <1>3
  <2> QED
    BY <2>1, <2>2, FilesAssumption DEF FileLimit, Least
<1>5. body.bom \in BOOLEAN /\ body.text \in BOOLEAN /\ body.binary \in BOOLEAN
  BY <1>1, <1>3, FilesAssumption
<1>6. \/ Failed("malformed_response")
      \/ /\ body.text /\ ~body.binary /\ chosen.warning # "refused"
         /\ fetch' = [fetch EXCEPT !.step = "done", !.encoding = chosen.encoding, !.warning = chosen.warning]
      \/ ~body.text /\ fetch' = [fetch EXCEPT !.step = "done"]
  BY <1>1, <1>2, <1>5 DEF DeliversContent
<1>7. CASE Failed("malformed_response")
  <2>1. FetchWell' /\ ContentIsWhole'
    BY <1>7 DEF RetrievalInv, FetchWell, ContentIsWhole, Failed
  <2> QED
    BY <2>1, <1>3, FetchStep
<1>8. CASE /\ body.text /\ ~body.binary /\ chosen.warning # "refused"
           /\ fetch' = [fetch EXCEPT !.step = "done", !.encoding = chosen.encoding, !.warning = chosen.warning]
  <2>1. FetchWell'
    BY <1>8 DEF RetrievalInv, FetchWell
  <2>2. fetch'.data = fetch.data /\ fetch'.encoding = chosen.encoding /\ fetch'.warning = chosen.warning
    BY <1>8 DEF RetrievalInv, FetchWell
  <2>3. ASSUME fetch'.warning # "decoding_replacement_required", ~body.bom
        PROVE  fetch'.encoding \in body.decodes
    <3>1. SelectEncoding(body).warning \notin {"refused", "decoding_replacement_required"}
      BY <2>2, <2>3, <1>2, <1>8
    <3>2. body.bom = FALSE
      BY <2>3, <1>5
    <3>3. SelectEncoding(body).encoding \in body.decodes
      BY <3>1, <3>2, ChosenDecodes DEF RetrievalInv
    <3> QED
      BY <3>3, <2>2, <1>2
  <2>4. ContentIsWhole'
    BY <2>2, <2>3, <1>1, <1>4, <1>8 DEF ContentIsWhole
  <2> QED
    BY <2>1, <2>4, <1>3, FetchStep
<1>9. CASE ~body.text /\ fetch' = [fetch EXCEPT !.step = "done"]
  <2>1. FetchWell'
    BY <1>9 DEF RetrievalInv, FetchWell
  <2>2. ContentIsWhole'
    BY <1>1, <1>4, <1>9 DEF RetrievalInv, FetchWell, ContentIsWhole
  <2> QED
    BY <2>1, <2>2, <1>3, FetchStep
<1> QED
  BY <1>6, <1>7, <1>8, <1>9

(* The disk may change under both calls. *)
LEMMA TouchingKeeps ==
    ASSUME RetrievalInv, NEW new, DiskTouched(new),
           DOMAIN new \subseteq FileNames, \A n \in DOMAIN new : new[n] \in Files
    PROVE  RetrievalInv'
BY DEF RetrievalInv, DiskTouched, DiskWell, FetchWell, FileLimit, MirrorWell, ContentIsWhole, MirrorIsCurrent

(* Each of the three ways a file changes leaves files of the source. *)
LEMMA DiskKeeps ==
    ASSUME RetrievalInv, NEW n \in FileNames,
           \/ \E body \in DOMAIN Bodies, stamp \in 1..2 : Writes(n, body, stamp)
           \/ Removes(n)
           \/ \E kind \in {"link", "directory"} : Replaces(n, kind)
    PROVE  RetrievalInv'
<1>1. ASSUME NEW body \in DOMAIN Bodies, NEW stamp \in 1..2, Writes(n, body, stamp)
      PROVE  RetrievalInv'
  BY <1>1, TouchingKeeps DEF Writes, RetrievalInv, DiskWell, Files
<1>2. ASSUME Removes(n)
      PROVE  RetrievalInv'
  BY <1>2, TouchingKeeps DEF Removes, RetrievalInv, DiskWell
<1>3. ASSUME NEW kind \in {"link", "directory"}, Replaces(n, kind)
      PROVE  RetrievalInv'
  <2>1. DiskTouched([disk EXCEPT ![n].kind = kind]) /\ n \in DOMAIN disk
    BY <1>3 DEF Replaces, Regular
  <2>2. \A k \in DOMAIN disk : [disk EXCEPT ![n].kind = kind][k] \in Files
    BY <2>1 DEF RetrievalInv, DiskWell, Files
  <2> QED
    BY <2>1, <2>2, TouchingKeeps DEF RetrievalInv, DiskWell
<1> QED
  BY <1>1, <1>2, <1>3

(* A page takes the caller's copy from the last look to this one. *)
LEMMA LookingKeeps ==
    ASSUME RetrievalInv, NEW hidden \in SUBSET FileNames, DetectsChanges(hidden)
    PROVE  RetrievalInv'
<1>1. PICK old : old = IF mirror.cursor = NoCursor THEN Empty ELSE mirror.cursor
  OBVIOUS
<1>2. PICK new : new = [n \in Regular \ hidden |-> VersionOf(n)]
  OBVIOUS
<1>3. /\ mirror' = [entries |-> Applied(mirror.entries, old, new), cursor |-> new]
      /\ page' = [deleted |-> Deleted(old, new), warned |-> hidden # {}, there |-> Regular]
      /\ UNCHANGED <<asks, encodings, checksums, disk, touches, fetch>>
  BY <1>1, <1>2 DEF DetectsChanges
<1>4. DOMAIN new = Regular \ hidden /\ DOMAIN new \subseteq FileNames
  BY <1>2 DEF Regular, RetrievalInv, DiskWell
<1>5. new # NoCursor
  BY <1>4, FilesAssumption DEF NoCursor
<1>6. /\ DOMAIN mirror.entries = DOMAIN old
      /\ \A n \in DOMAIN old : /\ mirror.entries[n].version = old[n]
                               /\ old[n][3] # "-" => mirror.entries[n].body = old[n][3]
  <2>1. CASE mirror.cursor = NoCursor
    BY <2>1, <1>1 DEF RetrievalInv, MirrorWell, Empty
  <2>2. CASE mirror.cursor # NoCursor
    BY <2>2, <1>1 DEF RetrievalInv, MirrorIsCurrent
  <2> QED
    BY <2>1, <2>2
<1>7. \A n \in DOMAIN new : new[n][3] # "-" => new[n][3] = disk[n].body
  BY <1>2, <1>4 DEF VersionOf
<1>8. PICK entries : entries = Applied(mirror.entries, old, new)
  OBVIOUS
<1>9. DOMAIN entries = DOMAIN new
  BY <1>6, <1>8 DEF Applied, Added, Deleted
<1>10. ASSUME NEW n \in DOMAIN new
       PROVE  entries[n].version = new[n] /\ (new[n][3] # "-" => entries[n].body = new[n][3])
  <2>1. CASE n \in Added(old, new) \cup Modified(old, new)
    <3>1. entries[n] = [version |-> new[n], body |-> disk[n].body]
      BY <2>1, <1>6, <1>8, <1>9 DEF Applied
    <3> QED
      BY <3>1, <1>7
  <2>2. CASE n \notin Added(old, new) \cup Modified(old, new)
    <3>1. entries[n] = mirror.entries[n] /\ n \in DOMAIN old /\ old[n] = new[n]
      BY <2>2, <1>6, <1>8, <1>9 DEF Applied, Added, Modified
    <3> QED
      BY <3>1, <1>6
  <2> QED
    BY <2>1, <2>2
<1>11. mirror'.entries = entries /\ mirror'.cursor = new
  BY <1>3, <1>8
<1>12. page'.deleted \cap page'.there # {} => page'.warned
  BY <1>3, <1>4 DEF Deleted
<1>13. MirrorIsCurrent'
  BY <1>9, <1>10, <1>11, <1>12 DEF MirrorIsCurrent
<1>14. MirrorWell'
  BY <1>4, <1>5, <1>11 DEF MirrorWell, NoCursor
<1>15. DiskWell' /\ FetchWell' /\ ContentIsWhole'
  BY <1>3 DEF RetrievalInv, DiskWell, FetchWell, FileLimit, ContentIsWhole
<1> QED
  BY <1>13, <1>14, <1>15 DEF RetrievalInv

(* The caller starts again, and the connector forgets. *)
LEMMA RestartingKeeps == RetrievalInv /\ (RefusesCursor \/ ConnectorRestarts) => RetrievalInv'
<1> SUFFICES ASSUME RetrievalInv, RefusesCursor \/ ConnectorRestarts
             PROVE  RetrievalInv'
  OBVIOUS
<1>1. DiskWell' /\ FetchWell' /\ ContentIsWhole'
  BY DEF RetrievalInv, RefusesCursor, ConnectorRestarts, DiskWell, FetchWell, FileLimit, ContentIsWhole
<1>2. CASE RefusesCursor
  <2>1. mirror'.entries = Empty /\ mirror'.cursor = NoCursor /\ page'.deleted = {}
    BY <1>2 DEF RefusesCursor, NoPage
  <2>2. MirrorWell' /\ MirrorIsCurrent'
    BY <2>1 DEF MirrorWell, MirrorIsCurrent, NoCursor, Empty
  <2> QED
    BY <1>1, <2>2 DEF RetrievalInv
<1>3. CASE ConnectorRestarts
  BY <1>1, <1>3 DEF RetrievalInv, ConnectorRestarts, MirrorWell, MirrorIsCurrent
<1> QED
  BY <1>2, <1>3

(* One step of Retrieval. *)
LEMMA RetrievalStep == RetrievalInv /\ [RetrievalNext]_retrievalVars => RetrievalInv'
<1> SUFFICES ASSUME RetrievalInv, [RetrievalNext]_retrievalVars
             PROVE  RetrievalInv'
  OBVIOUS
<1>1. CASE UNCHANGED retrievalVars
  BY <1>1 DEF RetrievalInv, retrievalVars, DiskWell, FetchWell, FileLimit, MirrorWell, ContentIsWhole, MirrorIsCurrent
<1>2. CASE RetrievalNext
  <2>1. CASE \E n \in FileNames : \/ \E body \in DOMAIN Bodies, stamp \in 1..2 : Writes(n, body, stamp)
                                  \/ Removes(n)
                                  \/ \E kind \in {"link", "directory"} : Replaces(n, kind)
    BY <2>1, DiskKeeps
  <2>2. CASE (\E n \in FileNames : GetsItem(n)) \/ ResolvesFile \/ OpensFile
    BY <2>2, FetchKeeps
  <2>3. CASE \E hidden \in SUBSET FileNames : DetectsChanges(hidden)
    BY <2>3, LookingKeeps
  <2> QED
    BY <1>2, <2>1, <2>2, <2>3, ReadingKeeps, DeliveringKeeps, RestartingKeeps DEF RetrievalNext
<1> QED
  BY <1>1, <1>2

LEMMA RetrievalStarts == RetrievalInit => RetrievalInv
<1> SUFFICES ASSUME RetrievalInit
             PROVE  RetrievalInv
  OBVIOUS
<1>1. DiskWell
  BY DEF RetrievalInit, DiskWell, Files
<1>2. FetchWell /\ ContentIsWhole
  BY DEF RetrievalInit, RetrievalFresh, NoFetch, FetchWell, ContentIsWhole
<1>3. MirrorWell /\ MirrorIsCurrent
  BY DEF RetrievalInit, RetrievalFresh, NoPage, MirrorWell, MirrorIsCurrent
<1> QED
  BY <1>1, <1>2, <1>3 DEF RetrievalInv

(***************************************************************************)
(* What a source hands out is what it holds: the content that get_content  *)
(* delivers is whole, within both limits and in the encoding it names, and *)
(* a caller who applies every page of detect_changes has what the source   *)
(* held at its last look, whatever happens to the files meanwhile.         *)
(***************************************************************************)
THEOREM SourcesTellTruly == RetrievalSpec => []SourceIsTold
<1>1. RetrievalInv => SourceIsTold
  BY DEF RetrievalInv, SourceIsTold
<1> QED
  BY <1>1, RetrievalStarts, RetrievalStep, PTL DEF RetrievalSpec
-------------------------------------------------------------------------------
(* The loop over the pages of a source. *)

(* What a sitemap gives is of the origin, and all there is unless          *)
(* maximum_pages cuts it.                                                  *)
LEMMA UrlsKept ==
    ASSUME NEW url \in DOMAIN Sitemap
    PROVE  /\ LocsOf(url) \in Seq(Nat) /\ Len(LocsOf(url)) \in Nat
           /\ \A x \in ToSet(LocsOf(url)) : x \notin Foreign
           /\ SitemapUrls(url) \in Seq(Nat) /\ Len(SitemapUrls(url)) \in Nat
           /\ Len(SitemapUrls(url)) <= MaxPages
           /\ ToSet(SitemapUrls(url)) \subseteq ToSet(LocsOf(url))
           /\ Len(LocsOf(url)) <= MaxPages => ToSet(SitemapUrls(url)) = ToSet(LocsOf(url))
<1> DEFINE locs == Sitemap[url].locs
           near == {i \in DOMAIN locs : SameOrigin(locs[i])}
           all == LocsOf(url)
<1>1. locs \in Seq(Nat) /\ near \in SUBSET DOMAIN locs /\ MaxPages \in Nat
  BY SourceAssumption
<1>2. all = Picked(locs, near)
  BY DEF LocsOf
<1>3. SitemapUrls(url) = Distinct(Take(all, MaxPages))
  BY DEF SitemapUrls
<1>4. \A i \in near : locs[i] \notin Foreign
  BY DEF SameOrigin
<1> HIDE DEF locs, near, all
<1>5. all \in Seq(Nat) /\ Len(all) \in Nat /\ ToSet(all) = {locs[i] : i \in near}
  BY <1>1, <1>2, PickedKeeps
<1>6. /\ Take(all, MaxPages) \in Seq(Nat) /\ Len(Take(all, MaxPages)) = Least(MaxPages, Len(all))
      /\ Len(all) <= MaxPages => Take(all, MaxPages) = all
      /\ ToSet(Take(all, MaxPages)) \subseteq ToSet(all)
  BY <1>1, <1>5, TakeKeeps
<1>7. /\ SitemapUrls(url) \in Seq(Nat) /\ Len(SitemapUrls(url)) \in Nat
      /\ Len(SitemapUrls(url)) <= Len(Take(all, MaxPages))
      /\ ToSet(SitemapUrls(url)) = ToSet(Take(all, MaxPages))
  BY <1>3, <1>6, DistinctKeeps
<1>8. Len(Take(all, MaxPages)) <= MaxPages /\ Len(Take(all, MaxPages)) \in Nat
  BY <1>1, <1>5, <1>6 DEF Least
<1>9. Len(SitemapUrls(url)) <= MaxPages
  BY <1>1, <1>7, <1>8
<1>10. \A x \in ToSet(all) : x \notin Foreign
  BY <1>4, <1>5
<1> QED
  BY <1>5, <1>6, <1>7, <1>9, <1>10 DEF all
(* Pages of the sitemaps that an index names. *)
ListedBy(left) ==
    UNION {ToSet(LocsOf(u)) : u \in {u \in ToSet(left) \cap DOMAIN Sitemap : ~Sitemap[u].index}}

(* Nobody touches a source while it is loaded. *)
SurveyTyped ==
    /\ survey \in Surveys
    /\ lstep \in {"loading", "walking", "done", "failed"}
    /\ calm \in BOOLEAN /\ capped \in BOOLEAN
    /\ mark \in [page: Nat, offset: Nat]
    /\ inventory \in Seq(Nat) /\ pending \in Seq(Nat)
    /\ upstream \in Seq(Nat) /\ (calm = TRUE => IsInjective(upstream))
    /\ lstep = "loading" => calm = TRUE /\ survey.kind # "openwebui" /\ gathered = <<>> /\ mark.offset = 0

(* What was read, and what is still to read, is all there is, until        *)
(* maximum_pages cuts it.                                                  *)
SitemapsRead ==
    lstep = "loading" /\ survey.kind = "website" =>
        /\ mark.page = 0 => inventory = <<>> /\ pending = <<>>
        /\ mark.page # 0 =>
              /\ \A x \in ToSet(inventory) : x \notin Foreign
              /\ pending # <<>> => Len(inventory) < MaxPages
              /\ capped = FALSE => Len(inventory) <= MaxPages /\ ToSet(inventory) \cup ListedBy(pending) = Listed

(* What is gathered so far, once each. *)
Has(items) == gathered \in Seq(Nat) /\ IsInjective(gathered) /\ Len(gathered) < survey.limit /\ ToSet(gathered) = items

(* The cursor into what was kept. *)
InventoryPaged ==
    lstep = "walking" /\ survey.kind # "openwebui" =>
        /\ IsInjective(inventory) /\ mark.offset \in 0..Len(inventory)
        /\ survey.kind = "website" /\ capped = FALSE => ToSet(inventory) = Listed
        /\ Has(Part(inventory, 1, mark.offset))

(* Files of the server before its page, and before the cursor. *)
Before == (mark.page - 1) * ServerPage
CursorAt == Before + mark.offset

UpstreamPaged ==
    lstep = "walking" /\ survey.kind = "openwebui" /\ calm = TRUE =>
        /\ mark.page # 0
        /\ mark.offset # 0 => mark.offset < ServerPage /\ CursorAt < Len(upstream)
        /\ Has(Part(upstream, 1, Least(CursorAt, Len(upstream))) \ Malformed)

ListingInv == SurveyTyped /\ SitemapsRead /\ InventoryPaged /\ UpstreamPaged /\ WalkIsComplete

LEMMA SurveyAssumed ==
    ASSUME SurveyTyped
    PROVE  /\ survey.limit \in Nat /\ survey.limit # 0 /\ survey.pageSize \in Nat /\ survey.pageSize # 0
           /\ survey.url \in Nat /\ survey.url \notin Foreign
           /\ survey.kind \in {"filesystem", "website", "openwebui"}
           /\ Limit \in Nat /\ MaxPages \in Nat /\ MaxPages # 0 /\ ServerPage \in Nat /\ ServerPage # 0
           /\ NestedCap \in Nat
<1>1. PageCap \in Nat
  BY SourceAssumption
<1>2. survey.limit \in Nat
  BY SourceAssumption DEF SurveyTyped
<1>3. Limit \in Nat
  BY <1>1, <1>2 DEF Limit, Least
<1> QED
  BY <1>3, SourceAssumption DEF SurveyTyped

(* Nothing is gathered yet. *)
LEMMA NothingYet ==
    ASSUME NEW s
    PROVE  <<>> \in Seq(Nat) /\ IsInjective(<<>>) /\ Len(<<>>) = 0 /\ ToSet(<<>>) = {} /\ Part(s, 1, 0) = {}
  BY DEF IsInjective, ToSet, Part

LEMMA ListingStarts == ListingInit => ListingInv
<1> SUFFICES ASSUME ListingInit
             PROVE  ListingInv
  OBVIOUS
<1>1. SurveyTyped
  <2>1. mark \in [page: Nat, offset: Nat] /\ mark.offset = 0
    BY DEF ListingInit
  <2>2. survey \in Surveys /\ survey.kind \in {"filesystem", "website", "openwebui"} /\ upstream \in Sources
    BY SourceAssumption DEF ListingInit
  <2>3. upstream \in Seq(Nat) /\ IsInjective(upstream)
    BY <2>2, SourceAssumption
  <2>4. lstep \in {"loading", "walking"} /\ (lstep = "loading" => survey.kind # "openwebui")
    BY DEF ListingInit
  <2> QED
    <3>1. inventory \in Seq(Nat) /\ pending \in Seq(Nat) /\ calm = TRUE /\ capped = FALSE /\ gathered = <<>>
      BY DEF ListingInit
    <3> QED
      BY <2>1, <2>2, <2>3, <2>4, <3>1 DEF SurveyTyped
<1>2. SitemapsRead /\ InventoryPaged /\ WalkIsComplete
  BY SourceAssumption DEF ListingInit, SitemapsRead, InventoryPaged, WalkIsComplete
<1>3. UpstreamPaged
  <2> SUFFICES ASSUME survey.kind = "openwebui"
               PROVE  UpstreamPaged
    BY DEF UpstreamPaged
  <2>1. mark.page = 1 /\ mark.offset = 0 /\ gathered = <<>>
    BY DEF ListingInit
  <2>2. CursorAt = 0
    BY <1>1, <2>1, SurveyAssumed DEF CursorAt, Before
  <2>3. upstream \in Seq(Nat)
    BY SourceAssumption DEF ListingInit
  <2>4. Least(CursorAt, Len(upstream)) = 0
    BY <2>2, <2>3 DEF Least
  <2> QED
    BY <1>1, <2>1, <2>4, SurveyAssumed, NothingYet DEF UpstreamPaged, Has
<1> QED
  BY <1>1, <1>2, <1>3 DEF ListingInv

(* Once it is over, nothing counts but what was gathered. *)
LEMMA ListingOver ==
    ASSUME SurveyTyped', lstep' \in {"done", "failed"}, WalkIsComplete'
    PROVE  ListingInv'
<1>1. SitemapsRead' /\ InventoryPaged' /\ UpstreamPaged'
  BY DEF SitemapsRead, InventoryPaged, UpstreamPaged
<1> QED
  BY <1>1 DEF ListingInv

(* An edit disturbs nothing but a walk over the server's pages. *)
LEMMA ChangesKeep ==
    ASSUME ListingInv, SourceChanges
    PROVE  ListingInv'
<1>1. /\ lstep = "walking" /\ calm' = FALSE
      /\ UNCHANGED <<survey, lstep, inventory, pending, capped, mark, gathered>>
  BY DEF SourceChanges
<1>2. upstream' \in Seq(Nat)
  <2>1. upstream \in Seq(Nat) /\ Late \in Nat
    BY SourceAssumption DEF ListingInv, SurveyTyped
  <2>2. ASSUME NEW i \in DOMAIN upstream
        PROVE  RemoveAt(upstream, i) \in Seq(Nat)
    BY <2>1 DEF RemoveAt
  <2>3. <<Late>> \o upstream \in Seq(Nat)
    BY <2>1
  <2> QED
    BY <2>2, <2>3 DEF SourceChanges
<1>3. SurveyTyped'
  BY <1>1, <1>2 DEF ListingInv, SurveyTyped
<1>4. SitemapsRead' /\ UpstreamPaged' /\ WalkIsComplete'
  BY <1>1 DEF SitemapsRead, UpstreamPaged, WalkIsComplete
<1>5. InventoryPaged'
  BY <1>1 DEF ListingInv, InventoryPaged, Has, Listed
<1> QED
  BY <1>3, <1>4, <1>5 DEF ListingInv

LEMMA FailureKeeps ==
    ASSUME ListingInv, RequestFails
    PROVE  ListingInv'
<1>1. lstep' = "failed" /\ UNCHANGED <<survey, upstream, calm, inventory, pending, capped, mark, gathered>>
  BY DEF RequestFails
<1>2. SurveyTyped'
  BY <1>1 DEF ListingInv, SurveyTyped
<1>3. WalkIsComplete'
  BY <1>1 DEF WalkIsComplete
<1> QED
  BY <1>1, <1>2, <1>3, ListingOver

LEMMA RootKeeps ==
    ASSUME ListingInv, LoadsRoot
    PROVE  ListingInv'
<1> USE DEF ListingInv
<1> DEFINE url == survey.url
<1>1. /\ lstep = "loading" /\ survey.kind = "website" /\ mark.page = 0
      /\ mark' = [mark EXCEPT !.page = 1] /\ UNCHANGED <<survey, lstep, upstream, calm, gathered>>
  BY DEF LoadsRoot
<1>2. url \in Nat /\ url \notin Foreign /\ MaxPages \in Nat /\ MaxPages # 0 /\ NestedCap \in Nat
  BY SurveyAssumed
<1>3. inventory = <<>> /\ pending = <<>> /\ Listed' = Listed
  BY <1>1 DEF SitemapsRead, Listed
<1>4. mark' \in [page: Nat, offset: Nat] /\ mark'.page = 1 /\ mark'.offset = 0
  BY <1>1 DEF SurveyTyped
<1>5. capped' = (url \in DOMAIN Sitemap /\ Len(LocsOf(url)) > MaxPages)
  BY DEF LoadsRoot
<1>6. capped' \in BOOLEAN /\ (capped' = FALSE => ~(url \in DOMAIN Sitemap /\ Len(LocsOf(url)) > MaxPages))
  BY <1>5, Zenon
<1>7. /\ inventory' \in Seq(Nat) /\ pending' \in Seq(Nat)
      /\ \A x \in ToSet(inventory') : x \notin Foreign
      /\ pending' # <<>> => Len(inventory') < MaxPages
      /\ capped' = FALSE => Len(inventory') <= MaxPages /\ ToSet(inventory') \cup ListedBy(pending') = Listed
  <2>0. <<>> \in Seq(Nat) /\ Len(<<>>) = 0 /\ ToSet(<<>>) = {} /\ ListedBy(<<>>) = {}
    BY NothingYet DEF ListedBy
  <2>1. CASE url \notin DOMAIN Sitemap
    <3>1. inventory' = <<url>> /\ pending' = <<>>
      BY <1>3, <2>1 DEF LoadsRoot
    <3>2. <<url>> \in Seq(Nat) /\ Len(<<url>>) = 1 /\ ToSet(<<url>>) = {url}
      BY <1>2 DEF ToSet
    <3>3. Listed = {url}
      BY <2>1 DEF Listed
    <3> QED
      BY <1>2, <2>0, <3>1, <3>2, <3>3
  <2>2. CASE url \in DOMAIN Sitemap /\ Sitemap[url].index
    <3>1. inventory' = <<>> /\ pending' = Take(SitemapUrls(url), NestedCap)
      BY <1>3, <2>2 DEF LoadsRoot
    <3>2. SitemapUrls(url) \in Seq(Nat)
      BY <2>2, UrlsKept
    <3>3. Take(SitemapUrls(url), NestedCap) \in Seq(Nat)
      BY <1>2, <3>2, TakeKeeps
    <3>4. Listed = ListedBy(Take(SitemapUrls(url), NestedCap))
      BY <2>2 DEF Listed, ListedBy
    <3> QED
      BY <1>2, <2>0, <3>1, <3>3, <3>4
  <2>3. CASE url \in DOMAIN Sitemap /\ ~Sitemap[url].index
    <3>1. inventory' = SitemapUrls(url) /\ pending' = <<>>
      BY <1>3, <2>3 DEF LoadsRoot
    <3>2. /\ LocsOf(url) \in Seq(Nat) /\ Len(LocsOf(url)) \in Nat
          /\ \A x \in ToSet(LocsOf(url)) : x \notin Foreign
          /\ SitemapUrls(url) \in Seq(Nat) /\ Len(SitemapUrls(url)) \in Nat
          /\ Len(SitemapUrls(url)) <= MaxPages
          /\ ToSet(SitemapUrls(url)) \subseteq ToSet(LocsOf(url))
          /\ Len(LocsOf(url)) <= MaxPages => ToSet(SitemapUrls(url)) = ToSet(LocsOf(url))
      BY <2>3, UrlsKept
    <3>3. Listed = ToSet(LocsOf(url))
      BY <2>3 DEF Listed
    <3>4. capped' = FALSE => Len(LocsOf(url)) <= MaxPages
      BY <1>2, <1>6, <2>3, <3>2
    <3> QED
      BY <2>0, <3>1, <3>2, <3>3, <3>4
  <2> QED
    BY <2>1, <2>2, <2>3
<1>8. SurveyTyped'
  BY <1>1, <1>4, <1>6, <1>7 DEF SurveyTyped
<1>9. SitemapsRead'
  BY <1>1, <1>3, <1>4, <1>7 DEF SitemapsRead
<1> QED
  BY <1>1, <1>8, <1>9 DEF InventoryPaged, UpstreamPaged, WalkIsComplete

LEMMA NestedKeeps ==
    ASSUME ListingInv, LoadsNested
    PROVE  ListingInv'
<1> USE DEF ListingInv
<1> DEFINE url == Head(pending)
<1>1. /\ lstep = "loading" /\ survey.kind = "website" /\ mark.page = 1 /\ pending # <<>> /\ url \in DOMAIN Sitemap
      /\ inventory' = IF Sitemap[url].index THEN inventory ELSE inventory \o SitemapUrls(url)
      /\ pending' = IF Len(inventory') >= MaxPages THEN <<>> ELSE Tail(pending)
      /\ capped' = (capped \/ Overflows(url))
      /\ UNCHANGED <<survey, lstep, upstream, calm, mark, gathered>>
  BY DEF LoadsNested
<1>2. capped \in BOOLEAN /\ MaxPages \in Nat /\ MaxPages # 0
  BY SurveyAssumed DEF SurveyTyped
<1>3. capped' \in BOOLEAN /\ (capped' = FALSE => capped = FALSE /\ ~Overflows(url))
  <2>1. capped' = TRUE \/ capped' = FALSE
    BY <1>1, Zenon
  <2>2. capped' = FALSE => ~capped /\ ~Overflows(url)
    BY <1>1, Zenon
  <2> QED
    BY <1>2, <2>1, <2>2
<1>4. /\ inventory \in Seq(Nat) /\ pending \in Seq(Nat) /\ Len(inventory) < MaxPages
      /\ \A x \in ToSet(inventory) : x \notin Foreign
      /\ capped = FALSE => ToSet(inventory) \cup ListedBy(pending) = Listed
  BY <1>1 DEF SurveyTyped, SitemapsRead
<1>5. /\ LocsOf(url) \in Seq(Nat) /\ Len(LocsOf(url)) \in Nat
      /\ \A x \in ToSet(LocsOf(url)) : x \notin Foreign
      /\ SitemapUrls(url) \in Seq(Nat) /\ Len(SitemapUrls(url)) \in Nat
      /\ ToSet(SitemapUrls(url)) \subseteq ToSet(LocsOf(url))
      /\ Len(LocsOf(url)) <= MaxPages => ToSet(SitemapUrls(url)) = ToSet(LocsOf(url))
  BY <1>1, UrlsKept
<1>6. /\ Tail(pending) \in Seq(Nat) /\ ToSet(pending) = {url} \cup ToSet(Tail(pending))
  BY <1>1, <1>4, HeadTailKeeps
<1>7. Listed' = Listed
  BY <1>1 DEF Listed
<1>8. /\ inventory' \in Seq(Nat) /\ pending' \in Seq(Nat)
      /\ \A x \in ToSet(inventory') : x \notin Foreign
      /\ pending' # <<>> => Len(inventory') < MaxPages
      /\ capped' = FALSE => Len(inventory') <= MaxPages /\ ToSet(inventory') \cup ListedBy(pending') = Listed
  <2>1. CASE Sitemap[url].index
    <3>1. inventory' = inventory /\ Len(inventory) \in Nat
      BY <1>1, <1>4, <2>1
    <3>2. pending' = Tail(pending)
      BY <1>1, <1>2, <1>4, <3>1
    <3>3. ListedBy(Tail(pending)) = ListedBy(pending)
      BY <1>6, <2>1 DEF ListedBy
    <3> QED
      BY <1>2, <1>3, <1>4, <1>6, <3>1, <3>2, <3>3
  <2>2. CASE ~Sitemap[url].index
    <3>1. inventory' = inventory \o SitemapUrls(url)
      BY <1>1, <2>2
    <3>2. /\ inventory' \in Seq(Nat) /\ Len(inventory') \in Nat
          /\ ToSet(inventory') = ToSet(inventory) \cup ToSet(SitemapUrls(url))
      BY <1>4, <1>5, <3>1, ConcatKeeps
    <3>3. pending' \in Seq(Nat) /\ (pending' # <<>> => Len(inventory') < MaxPages)
      BY <1>1, <1>2, <1>6, <3>2
    <3>4. ASSUME capped' = FALSE
          PROVE  Len(inventory') <= MaxPages /\ ToSet(inventory') \cup ListedBy(pending') = Listed
      <4>1. /\ Len(LocsOf(url)) <= MaxPages /\ Len(inventory') <= MaxPages
            /\ Len(inventory') = MaxPages => Tail(pending) = <<>>
        BY <1>2, <1>3, <1>5, <2>2, <3>2, <3>4 DEF Overflows
      <4>2. pending' = Tail(pending)
        BY <1>1, <1>2, <3>2, <4>1
      <4>3. ListedBy(pending) = ToSet(LocsOf(url)) \cup ListedBy(Tail(pending))
        BY <1>1, <1>6, <2>2 DEF ListedBy
      <4> QED
        BY <1>3, <1>4, <1>5, <3>2, <3>4, <4>1, <4>2, <4>3
    <3> QED
      BY <1>4, <1>5, <3>2, <3>3, <3>4
  <2> QED
    BY <2>1, <2>2
<1>9. SurveyTyped'
  BY <1>1, <1>3, <1>8 DEF SurveyTyped
<1>10. SitemapsRead'
  BY <1>1, <1>7, <1>8 DEF SitemapsRead
<1> QED
  BY <1>1, <1>9, <1>10 DEF InventoryPaged, UpstreamPaged, WalkIsComplete

LEMMA LoadedKeeps ==
    ASSUME ListingInv, Loaded
    PROVE  ListingInv'
<1> USE DEF ListingInv
<1> DEFINE urls == Take(inventory, MaxPages)
           near == {i \in DOMAIN urls : SameOrigin(urls[i])}
<1>1. /\ lstep = "loading" /\ survey.kind = "website" /\ mark.page = 1 /\ pending = <<>>
      /\ inventory' = Distinct(Picked(urls, near)) /\ lstep' = "walking"
      /\ UNCHANGED <<survey, upstream, calm, pending, capped, mark, gathered>>
  BY DEF Loaded
<1>2. MaxPages \in Nat /\ survey.limit \in Nat /\ survey.limit # 0
  BY SurveyAssumed
<1>3. /\ inventory \in Seq(Nat) /\ \A x \in ToSet(inventory) : x \notin Foreign
      /\ capped = FALSE => Len(inventory) <= MaxPages /\ ToSet(inventory) = Listed
  <2>1. ListedBy(<<>>) = {}
    BY NothingYet DEF ListedBy
  <2>2. /\ inventory \in Seq(Nat) /\ \A x \in ToSet(inventory) : x \notin Foreign
        /\ capped = FALSE => Len(inventory) <= MaxPages /\ ToSet(inventory) \cup ListedBy(<<>>) = Listed
    BY <1>1 DEF SurveyTyped, SitemapsRead
  <2> QED
    BY <2>1, <2>2
<1>4. /\ urls \in Seq(Nat) /\ (Len(inventory) <= MaxPages => urls = inventory)
      /\ ToSet(urls) \subseteq ToSet(inventory)
  BY <1>2, <1>3, TakeKeeps
<1> HIDE DEF urls
<1>5. \A i \in DOMAIN urls : i \in near
  BY <1>3, <1>4 DEF SameOrigin, ToSet
<1>6. near = DOMAIN urls
  BY <1>5
<1> HIDE DEF near
<1>7. Picked(urls, near) \in Seq(Nat) /\ ToSet(Picked(urls, near)) = ToSet(urls)
  <2>1. near \in SUBSET DOMAIN urls
    BY <1>6
  <2>2. Picked(urls, near) \in Seq(Nat) /\ ToSet(Picked(urls, near)) = {urls[i] : i \in near}
    BY <1>4, <2>1, PickedKeeps
  <2> QED
    BY <1>6, <2>2 DEF ToSet
<1>8. inventory' \in Seq(Nat) /\ IsInjective(inventory') /\ ToSet(inventory') = ToSet(urls)
  BY <1>1, <1>7, DistinctKeeps
<1>9. Listed' = Listed
  BY <1>1 DEF Listed
<1>10. capped' = FALSE => ToSet(inventory') = Listed'
  BY <1>1, <1>3, <1>4, <1>8, <1>9
<1>11. mark.offset = 0 /\ gathered = <<>>
  BY <1>1 DEF SurveyTyped
<1>12. Has(Part(inventory, 1, mark.offset))'
  <2>1. mark'.offset = 0
    BY <1>1, <1>11
  <2> QED
    BY <1>1, <1>2, <1>11, <2>1, NothingYet DEF Has
<1>13. InventoryPaged'
  <2>1. mark'.offset \in 0..Len(inventory')
    <3>1. Len(inventory') \in Nat /\ mark'.offset = 0
      BY <1>1, <1>8, <1>11
    <3> QED
      BY <3>1
  <2> QED
    BY <1>1, <1>8, <1>10, <1>12, <2>1 DEF InventoryPaged
<1>14. SurveyTyped'
  BY <1>1, <1>8 DEF SurveyTyped
<1> QED
  BY <1>1, <1>13, <1>14 DEF SitemapsRead, UpstreamPaged, WalkIsComplete

LEMMA SnapshotKeeps ==
    ASSUME ListingInv, Snapshots
    PROVE  ListingInv'
<1> USE DEF ListingInv
<1>1. /\ lstep = "loading" /\ survey.kind = "filesystem" /\ inventory' = Sorted(upstream)
      /\ lstep' = "walking" /\ mark' = [mark EXCEPT !.page = 1]
      /\ UNCHANGED <<survey, upstream, calm, pending, capped, gathered>>
  BY DEF Snapshots
<1>2. upstream \in Seq(Nat) /\ IsInjective(upstream)
  BY <1>1 DEF SurveyTyped
<1>3. inventory' \in Seq(Nat) /\ IsInjective(inventory')
  BY <1>1, <1>2, SortedKeeps
<1>4. mark' \in [page: Nat, offset: Nat] /\ mark'.offset = 0 /\ gathered = <<>>
  BY <1>1 DEF SurveyTyped
<1>5. Has(Part(inventory, 1, mark.offset))'
  <2>1. 0 < survey.limit
    BY SurveyAssumed
  <2>2. gathered' = <<>> /\ mark'.offset = 0 /\ survey' = survey
    BY <1>1, <1>4
  <2> QED
    BY <2>1, <2>2, NothingYet DEF Has
<1>6. InventoryPaged'
  <2>1. mark'.offset \in 0..Len(inventory')
    <3>1. Len(inventory') \in Nat /\ mark'.offset = 0
      BY <1>3, <1>4
    <3> QED
      BY <3>1
  <2> QED
    BY <1>1, <1>3, <1>5, <2>1 DEF InventoryPaged
<1>7. SurveyTyped'
  BY <1>1, <1>3, <1>4 DEF SurveyTyped
<1> QED
  BY <1>1, <1>6, <1>7 DEF SitemapsRead, UpstreamPaged, WalkIsComplete

(* A page of what was kept. *)
LEMMA PageKeeps ==
    ASSUME ListingInv, PagesSnapshot \/ PagesWebsite
    PROVE  ListingInv'
<1> USE DEF ListingInv
<1> DEFINE next == mark.offset + Len(Page)
           got == gathered \o Page
           final == Sorted(Take(got, survey.limit))
<1>1. /\ lstep = "walking" /\ survey.kind # "openwebui" /\ GoesOn
      /\ UNCHANGED <<survey, upstream, calm, inventory, pending, capped>>
  BY DEF PagesSnapshot, PagesWebsite
<1>2. /\ inventory \in Seq(Nat) /\ IsInjective(inventory) /\ mark.offset \in 0..Len(inventory)
      /\ survey.kind = "website" /\ capped = FALSE => ToSet(inventory) = Listed
      /\ gathered \in Seq(Nat) /\ IsInjective(gathered) /\ Len(gathered) < survey.limit
      /\ ToSet(gathered) = Part(inventory, 1, mark.offset)
  BY <1>1 DEF SurveyTyped, InventoryPaged, Has
<1>3. survey.limit \in Nat /\ Limit \in Nat /\ survey.kind \in {"filesystem", "website", "openwebui"}
  BY SurveyAssumed
<1>4. /\ Page \in Seq(Nat) /\ next \in 0..Len(inventory) /\ mark.offset <= next
      /\ IsInjective(Page) /\ ToSet(Page) = Part(inventory, mark.offset + 1, next)
  <2>1. /\ Page \in Seq(Nat) /\ Len(Page) \in Nat /\ next \in 0..Len(inventory)
        /\ IsInjective(Page) /\ ToSet(Page) = Part(inventory, mark.offset + 1, next)
    BY <1>2, <1>3, PageFollows DEF Page
  <2>2. mark.offset \in Nat
    BY DEF SurveyTyped
  <2> QED
    BY <2>1, <2>2
<1> HIDE DEF next
<1>5. got \in Seq(Nat) /\ IsInjective(got) /\ ToSet(got) = Part(inventory, 1, next)
  <2>1. PICK p \in 0..Len(inventory), q \in 0..Len(inventory) : p = mark.offset /\ q = next /\ p <= q
    BY <1>2, <1>4
  <2>2. PICK none : none = {}
    OBVIOUS
  <2>3. ToSet(gathered) = Part(inventory, 1, p) \ none /\ ToSet(Page) = Part(inventory, p + 1, q) \ none
    BY <1>2, <1>4, <2>1, <2>2
  <2>4. /\ got \in Seq(Nat) /\ Len(got) = Len(gathered) + Len(Page)
        /\ IsInjective(got) /\ ToSet(got) = Part(inventory, 1, q) \ none
    <3>1. Continues(inventory, none, p, q, gathered, Page)
      BY <1>2, <1>4, <2>1, <2>3 DEF Continues
    <3> HIDE DEF got
    <3>2. /\ gathered \o Page \in Seq(Nat) /\ Len(gathered \o Page) = Len(gathered) + Len(Page)
          /\ IsInjective(gathered \o Page)
          /\ ToSet(gathered \o Page) = Part(inventory, 1, q) \ none
      BY <3>1, GatheringGrows
    <3> QED
      BY <3>2 DEF got
  <2> QED
    BY <2>1, <2>2, <2>4
<1> HIDE DEF got
<1>6. /\ IsInjective(final) /\ Len(final) \in Nat /\ Len(final) <= survey.limit
      /\ Len(final) < survey.limit => Len(got) < survey.limit /\ ToSet(final) = ToSet(got)
  BY <1>3, <1>5, FinalKeeps
<1> HIDE DEF final
<1>7. \/ /\ ~(next < Len(inventory)) \/ Len(got) >= survey.limit
         /\ gathered' = final /\ lstep' = "done" /\ mark' = mark
      \/ /\ next < Len(inventory) /\ ~(Len(got) >= survey.limit)
         /\ gathered' = got /\ mark' = [mark EXCEPT !.offset = next] /\ lstep' = lstep
  BY <1>1 DEF GoesOn, Receives, next, got, final
<1>8. Listed' = Listed
  BY <1>1 DEF Listed
<1>9. CASE /\ ~(next < Len(inventory)) \/ Len(got) >= survey.limit
           /\ gathered' = final /\ lstep' = "done" /\ mark' = mark
  <2>1. SurveyTyped'
    BY <1>1, <1>9 DEF SurveyTyped
  <2>2. ASSUME Len(final) < survey.limit, survey.kind = "website" => capped = FALSE
        PROVE  ToSet(final) = Promised'
    <3>1. next = Len(inventory)
      BY <1>2, <1>3, <1>4, <1>5, <1>6, <1>9, <2>2
    <3>2. Part(inventory, 1, Len(inventory)) = ToSet(inventory)
      BY <1>2 DEF ToSet, Part
    <3>3. ToSet(final) = ToSet(inventory)
      BY <1>5, <1>6, <2>2, <3>1, <3>2
    <3> QED
      BY <1>1, <1>2, <1>3, <1>8, <2>2, <3>3 DEF Promised
  <2>3. capped \in BOOLEAN
    BY DEF SurveyTyped
  <2>4. WalkIsComplete'
    BY <1>1, <1>6, <1>9, <2>2, <2>3 DEF WalkIsComplete
  <2> QED
    BY <1>9, <2>1, <2>4, ListingOver
<1>10. CASE /\ next < Len(inventory) /\ ~(Len(got) >= survey.limit)
            /\ gathered' = got /\ mark' = [mark EXCEPT !.offset = next] /\ lstep' = lstep
  <2>0. next \in Nat
    BY <1>2, <1>4
  <2>1. mark' \in [page: Nat, offset: Nat] /\ mark'.offset = next
    BY <1>10, <2>0 DEF SurveyTyped
  <2>2. SurveyTyped'
    BY <1>1, <1>10, <2>1 DEF SurveyTyped
  <2>3. Len(got) < survey.limit
    BY <1>3, <1>5, <1>10
  <2>4. Has(Part(inventory, 1, mark.offset))'
    BY <1>1, <1>5, <1>10, <2>1, <2>3 DEF Has
  <2>5. InventoryPaged'
    BY <1>1, <1>2, <1>4, <1>8, <1>10, <2>1, <2>4 DEF InventoryPaged
  <2> QED
    BY <1>1, <1>10, <2>2, <2>5 DEF SitemapsRead, UpstreamPaged, WalkIsComplete
<1> QED
  BY <1>7, <1>9, <1>10

(* A cursor into a page of the server: the page begins after b files.      *)
CursorOf(s, b, size, offset, limit) ==
    /\ s \in Seq(Nat) /\ IsInjective(s) /\ b \in Nat /\ size \in Nat /\ offset \in Nat /\ limit \in Nat
    /\ offset # 0 => offset < size /\ b + offset < Len(s)

(* The page, and what is taken of it. *)
PageOf(s, b, size, raw) ==
    /\ raw \in Seq(Nat) /\ Len(raw) \in Nat
    /\ b >= Len(s) => Len(raw) = 0
    /\ b < Len(s) => Len(raw) = Least(size, Len(s) - b)

TakenOf(s, b, offset, raw, selected) ==
    LET p == Least(b + offset, Len(s))
    IN  /\ selected \in Seq(Nat) /\ Len(selected) \in Nat /\ IsInjective(selected)
        /\ offset + Len(selected) <= Len(raw)
        /\ p + Len(selected) = Least(b + offset + Len(selected), Len(s))
        /\ ToSet(selected) = Part(s, p + 1, p + Len(selected))

(* What the connector takes of a page of the server follows what the loop  *)
(* has, in the order of the server.                                        *)
LEMMA SelectionFollows ==
    ASSUME NEW s, NEW b, NEW size, NEW offset, NEW limit, CursorOf(s, b, size, offset, limit)
    PROVE  LET raw == Take(Drop(s, b), size)
           IN  PageOf(s, b, size, raw) /\ TakenOf(s, b, offset, raw, Take(Drop(raw, offset), limit))
<1> USE DEF CursorOf
<1> DEFINE raw == Take(Drop(s, b), size)
           selected == Take(Drop(raw, offset), limit)
           p == Least(b + offset, Len(s))
<1>1. PICK l \in Nat : l = Len(s)
  OBVIOUS
<1>2. raw \in Seq(Nat) /\ Len(raw) \in Nat
  BY SliceKeeps
<1>3. (b >= Len(s) => Len(raw) = 0) /\ (b < Len(s) => Len(raw) = Least(size, Len(s) - b))
  <2>1. b >= Len(s) => Len(raw) = 0
    BY SliceKeeps
  <2>2. b < Len(s) => Len(raw) = Least(size, Len(s) - b)
    BY SliceKeeps, ZenonT(60)
  <2> QED
    BY <2>1, <2>2
<1>4. \A k \in 1..Len(raw) : b + k \in 1..Len(s) /\ raw[k] = s[b + k]
  BY SliceAt
<1> HIDE DEF raw
<1>5. PICK r \in Nat : r = Len(raw)
  BY <1>2
<1>6. (b >= l => r = 0) /\ (b < l => r = Least(size, l - b))
  BY <1>1, <1>3, <1>5
<1>7. DOMAIN s = 1..l /\ DOMAIN raw = 1..r
  BY <1>1, <1>2, <1>5
<1>8. IsInjective(raw)
  <2> SUFFICES ASSUME NEW k \in 1..r, NEW j \in 1..r, raw[k] = raw[j]
               PROVE  k = j
    BY <1>7 DEF IsInjective
  <2>1. b + k \in DOMAIN s /\ b + j \in DOMAIN s /\ s[b + k] = s[b + j]
    BY <1>1, <1>4, <1>5, <1>7
  <2>2. b + k = b + j
    BY <2>1 DEF IsInjective
  <2> QED
    BY <2>2
<1>9. offset \in 0..r
  BY <1>1, <1>6 DEF Least
<1>10. /\ selected \in Seq(Nat) /\ Len(selected) \in Nat /\ offset + Len(selected) \in 0..Len(raw)
       /\ \A k \in 1..Len(selected) : selected[k] = raw[offset + k]
       /\ IsInjective(selected)
  BY <1>2, <1>5, <1>8, <1>9, PageFollows
<1> HIDE DEF selected
<1>11. PICK n \in Nat : n = Len(selected)
  BY <1>10
<1>12. offset + n <= r /\ p \in Nat /\ p + n = Least(b + offset + n, l) /\ (n # 0 => p = b + offset)
  <2>1. offset + n <= r
    BY <1>5, <1>10, <1>11
  <2>2. b < l => b + r <= l
    BY <1>6 DEF Least
  <2>3. CASE b >= l
    BY <1>1, <1>6, <2>1, <2>3 DEF Least
  <2>4. CASE b < l
    BY <1>1, <2>1, <2>2, <2>4 DEF Least
  <2> QED
    BY <2>3, <2>4
<1> HIDE DEF p
<1>13. \A k \in 1..n : p + k \in 1..l /\ selected[k] = s[p + k]
  <2> SUFFICES ASSUME NEW k \in 1..n
               PROVE  p + k \in 1..l /\ selected[k] = s[p + k]
    OBVIOUS
  <2>1. p = b + offset /\ offset + k \in 1..r
    BY <1>12
  <2>2. b + (offset + k) \in 1..l /\ selected[k] = s[b + (offset + k)]
    BY <1>1, <1>4, <1>5, <1>10, <1>11, <2>1
  <2>3. b + (offset + k) = p + k
    BY <2>1
  <2> QED
    BY <2>2, <2>3
<1>14. ToSet(selected) = Part(s, p + 1, p + n)
  <2>1. DOMAIN selected = 1..n
    BY <1>10, <1>11
  <2>2. ASSUME NEW k \in 1..n
        PROVE  selected[k] \in Part(s, p + 1, p + n)
    <3>1. p + k \in p + 1..p + n /\ selected[k] = s[p + k]
      BY <1>12, <1>13
    <3> QED
      BY <3>1 DEF Part
  <2>3. ASSUME NEW i \in p + 1..p + n
        PROVE  s[i] \in ToSet(selected)
    <3>1. i - p \in 1..n /\ p + (i - p) = i
      BY <1>12
    <3>2. selected[i - p] = s[p + (i - p)]
      BY <1>13, <3>1
    <3> QED
      BY <2>1, <3>1, <3>2 DEF ToSet
  <2> QED
    BY <2>1, <2>2, <2>3 DEF ToSet, Part
<1>15. PageOf(s, b, size, raw)
  BY <1>2, <1>3 DEF PageOf
<1>16. TakenOf(s, b, offset, raw, selected)
  BY <1>1, <1>5, <1>10, <1>11, <1>12, <1>14 DEF TakenOf, p
<1> QED
  BY <1>15, <1>16 DEF selected, raw

LEMMA TimesGrows ==
    ASSUME NEW a \in Nat, NEW x \in Nat, NEW y \in Nat, x <= y
    PROVE  a * x \in Nat /\ a * x <= a * y
<1>1. PICK d \in Nat : y = x + d
  <2>1. y - x \in Nat /\ y = x + (y - x)
    OBVIOUS
  <2> QED
    BY <2>1
<1>2. a * x \in Nat /\ a * d \in Nat
  OBVIOUS
<1>3. a * y = a * x + a * d
  BY <1>1
<1> QED
  BY <1>2, <1>3

(* A page of the server's page. *)
LEMMA UpstreamKeeps ==
    ASSUME ListingInv, PagesUpstream
    PROVE  ListingInv'
<1> USE DEF ListingInv
<1> DEFINE raw == Take(Drop(upstream, Before), ServerPage)
           selected == Take(Drop(raw, mark.offset), Limit)
           consumed == mark.offset + Len(selected)
           seen == (mark.page - 1) * survey.pageSize + Len(raw)
           moreOfPage == consumed < Len(raw)
           morePages == raw # <<>> /\ (survey.counted => seen < Len(upstream))
           kept == {i \in DOMAIN selected : selected[i] \notin Malformed}
           items == Picked(selected, kept)
           next == IF moreOfPage THEN [mark EXCEPT !.offset = consumed] ELSE [page |-> mark.page + 1, offset |-> 0]
           got == gathered \o items
           final == Sorted(Take(got, survey.limit))
<1>1. /\ lstep = "walking" /\ survey.kind = "openwebui"
      /\ UNCHANGED <<survey, upstream, calm, inventory, pending, capped>>
  BY DEF PagesUpstream
<1>2. \/ /\ ~(moreOfPage \/ morePages) \/ Len(got) >= survey.limit
         /\ gathered' = final /\ lstep' = "done" /\ mark' = mark
      \/ /\ (moreOfPage \/ morePages) /\ ~(Len(got) >= survey.limit)
         /\ gathered' = got /\ mark' = next /\ lstep' = lstep
  BY DEF PagesUpstream, Receives, Before
<1>3. /\ survey.limit \in Nat /\ Limit \in Nat /\ ServerPage \in Nat /\ ServerPage # 0
      /\ survey.pageSize \in Nat /\ survey.kind \in {"filesystem", "website", "openwebui"}
  BY SurveyAssumed
<1>4. mark \in [page: Nat, offset: Nat] /\ upstream \in Seq(Nat)
  BY DEF SurveyTyped
<1>5. CASE calm = TRUE
  <2>1. /\ IsInjective(upstream) /\ mark.page # 0
        /\ mark.offset # 0 => mark.offset < ServerPage /\ Before + mark.offset < Len(upstream)
        /\ Has(Part(upstream, 1, Least(CursorAt, Len(upstream))) \ Malformed)
    BY <1>1, <1>5 DEF SurveyTyped, UpstreamPaged, CursorAt
  <2>2. Before \in Nat
    <3>1. mark.page - 1 \in Nat
      BY <1>4, <2>1
    <3> QED
      BY <1>3, <3>1 DEF Before
  <2>3. PICK b \in Nat, o \in Nat, l \in Nat, size \in Nat :
           b = Before /\ o = mark.offset /\ l = Len(upstream) /\ size = ServerPage
    BY <1>3, <1>4, <2>2
  <2>4. PageOf(upstream, Before, ServerPage, raw) /\ TakenOf(upstream, Before, mark.offset, raw, selected)
    <3>1. CursorOf(upstream, Before, ServerPage, mark.offset, Limit)
      BY <1>3, <1>4, <2>1, <2>2 DEF CursorOf
    <3> QED
      BY <3>1, SelectionFollows
  <2> HIDE DEF raw, selected
  <2>5. /\ raw \in Seq(Nat) /\ Len(raw) \in Nat
        /\ b >= l => Len(raw) = 0
        /\ b < l => Len(raw) = Least(size, l - b)
    BY <2>3, <2>4 DEF PageOf
  <2>6. LET p == Least(Before + mark.offset, Len(upstream))
        IN  /\ selected \in Seq(Nat) /\ Len(selected) \in Nat /\ IsInjective(selected)
            /\ mark.offset + Len(selected) <= Len(raw)
            /\ p + Len(selected) = Least(Before + mark.offset + Len(selected), Len(upstream))
            /\ ToSet(selected) = Part(upstream, p + 1, p + Len(selected))
    BY <2>4 DEF TakenOf
  <2>7. PICK r \in Nat, n \in Nat : r = Len(raw) /\ n = Len(selected) /\ o + n <= r
    BY <2>3, <2>5, <2>6
  <2>8. PICK p \in 0..l, q \in 0..l : p = Least(b + o, l) /\ q = Least(b + o + n, l) /\ p + n = q
    <3>1. Least(b + o, l) \in 0..l /\ Least(b + o + n, l) \in 0..l
      BY DEF Least
    <3>2. Least(b + o, l) + n = Least(b + o + n, l)
      BY <2>3, <2>6, <2>7
    <3> QED
      BY <3>1, <3>2
  <2>9. ToSet(selected) = Part(upstream, p + 1, q)
    BY <2>3, <2>6, <2>7, <2>8
  <2>10. items \in Seq(Nat) /\ IsInjective(items) /\ ToSet(items) = Part(upstream, p + 1, q) \ Malformed
    <3>1. kept \in SUBSET DOMAIN selected
      OBVIOUS
    <3>2. \A i, j \in kept : selected[i] = selected[j] => i = j
      BY <2>6 DEF IsInjective
    <3>3. {selected[i] : i \in kept} = ToSet(selected) \ Malformed
      BY DEF ToSet
    <3> HIDE DEF kept
    <3>4. items \in Seq(Nat) /\ ToSet(items) = {selected[i] : i \in kept} /\ IsInjective(items)
      BY <2>6, <3>1, <3>2, PickedKeeps
    <3> QED
      BY <2>9, <3>3, <3>4
  <2> HIDE DEF items
  <2>11. /\ gathered \in Seq(Nat) /\ IsInjective(gathered) /\ Len(gathered) < survey.limit
         /\ ToSet(gathered) = Part(upstream, 1, p) \ Malformed
    BY <2>1, <2>3, <2>8 DEF Has, CursorAt
  <2>12. got \in Seq(Nat) /\ IsInjective(got) /\ ToSet(got) = Part(upstream, 1, q) \ Malformed
    <3>1. p <= q
      BY <2>7, <2>8
    <3>2. Continues(upstream, Malformed, p, q, gathered, items)
      BY <1>4, <2>1, <2>3, <2>10, <2>11, <3>1 DEF Continues
    <3> QED
      BY <3>2, GatheringGrows
  <2> HIDE DEF got
  <2>13. /\ IsInjective(final) /\ Len(final) \in Nat /\ Len(final) <= survey.limit
         /\ Len(final) < survey.limit => Len(got) < survey.limit /\ ToSet(final) = ToSet(got)
    BY <1>3, <2>12, FinalKeeps
  <2> HIDE DEF final
  <2>14. /\ (b >= l => r = 0) /\ (b < l => r = Least(size, l - b))
         /\ (raw = <<>> <=> r = 0)
         /\ consumed = o + n /\ (moreOfPage <=> o + n < r)
    BY <2>3, <2>5, <2>7
  <2>15. CASE /\ ~(moreOfPage \/ morePages) \/ Len(got) >= survey.limit
              /\ gathered' = final /\ lstep' = "done" /\ mark' = mark
    <3>1. SurveyTyped'
      BY <1>1, <2>15 DEF SurveyTyped
    <3>2. ASSUME Len(final) < survey.limit, survey.pageSize <= ServerPage
          PROVE  ToSet(final) = Promised'
      <4>1. ~moreOfPage /\ ~morePages /\ ToSet(final) = ToSet(got)
        BY <1>3, <2>12, <2>13, <2>15, <3>2
      <4>2. o + n = r
        BY <2>7, <2>14, <4>1
      <4>3. raw = <<>> \/ ~(seen < Len(upstream))
        BY <4>1
      <4>4. seen \in Nat /\ seen <= b + r
        <5>1. mark.page - 1 \in Nat
          BY <1>4, <2>1
        <5>2. /\ (mark.page - 1) * survey.pageSize \in Nat
              /\ (mark.page - 1) * survey.pageSize <= (mark.page - 1) * ServerPage
          BY <1>3, <3>2, <5>1, TimesGrows
        <5> QED
          BY <2>3, <2>7, <5>2 DEF Before
      <4>5. q = l
        <5>1. raw = <<>> => b >= l
          <6>1. b < l => r # 0
            BY <1>3, <2>3, <2>14 DEF Least
          <6> QED
            BY <2>14, <6>1
        <5>2. ~(seen < l) => b + r >= l
          BY <4>4
        <5>3. b + r >= l
          BY <2>3, <4>3, <5>1, <5>2
        <5> QED
          BY <2>8, <4>2, <5>3 DEF Least
      <4>6. Part(upstream, 1, Len(upstream)) = ToSet(upstream)
        BY <1>4 DEF ToSet, Part
      <4>7. ToSet(final) = ToSet(upstream) \ Malformed
        BY <2>3, <2>12, <4>1, <4>5, <4>6
      <4> QED
        BY <1>1, <4>7 DEF Promised
    <3>3. WalkIsComplete'
      BY <1>1, <2>13, <2>15, <3>2 DEF WalkIsComplete
    <3> QED
      BY <2>15, <3>1, <3>3, ListingOver
  <2>16. CASE /\ (moreOfPage \/ morePages) /\ ~(Len(got) >= survey.limit)
              /\ gathered' = got /\ mark' = next /\ lstep' = lstep
    <3>1. Len(got) < survey.limit
      BY <1>3, <2>12, <2>16
    <3>2. CASE moreOfPage
      <4>1. mark' = [mark EXCEPT !.offset = consumed] /\ o + n < r
        BY <2>14, <2>16, <3>2
      <4>2. mark' \in [page: Nat, offset: Nat] /\ mark'.page = mark.page /\ mark'.offset = o + n
        <5>1. mark \in [page: Nat, offset: Nat]
          BY <1>4
        <5>2. o \in Nat /\ n \in Nat /\ consumed = o + n
          BY <2>3, <2>7, <2>14
        <5> HIDE DEF consumed
        <5> QED
          BY <4>1, <5>1, <5>2
      <4>3. Before' = b /\ CursorAt' = b + o + n
        BY <2>3, <4>2 DEF Before, CursorAt
      <4>4. o + n < size /\ b + o + n < l /\ q = b + o + n
        BY <2>8, <2>14, <4>1 DEF Least
      <4>5. UpstreamPaged'
        BY <1>1, <2>1, <2>3, <2>8, <2>12, <2>16, <3>1, <4>2, <4>3, <4>4 DEF UpstreamPaged, Has
      <4>6. SurveyTyped'
        BY <1>1, <2>16, <4>2 DEF SurveyTyped
      <4> QED
        BY <1>1, <2>16, <4>5, <4>6 DEF SitemapsRead, InventoryPaged, WalkIsComplete
    <3>3. CASE ~moreOfPage
      <4>1. mark' = [page |-> mark.page + 1, offset |-> 0] /\ raw # <<>>
        BY <2>16, <3>3
      <4>2. mark' \in [page: Nat, offset: Nat] /\ mark'.page = mark.page + 1 /\ mark'.offset = 0
        BY <1>4, <4>1
      <4>3. CursorAt' = b + size
        <5>1. mark'.page - 1 = mark.page
          BY <1>4, <4>2
        <5>2. Before' = mark.page * ServerPage
          BY <5>1 DEF Before
        <5>3. mark.page * ServerPage = (mark.page - 1) * ServerPage + ServerPage
          BY <1>3, <1>4
        <5> QED
          BY <2>3, <4>2, <5>2, <5>3 DEF CursorAt, Before
      <4>4. q = Least(b + size, l)
        <5>1. o + n = r /\ r # 0
          BY <2>7, <2>14, <3>3, <4>1
        <5>2. b < l /\ r = Least(size, l - b)
          BY <2>14, <5>1
        <5> QED
          BY <2>8, <5>1, <5>2 DEF Least
      <4>5. Has(Part(upstream, 1, Least(CursorAt, Len(upstream))) \ Malformed)'
        BY <1>1, <2>3, <2>12, <2>16, <3>1, <4>3, <4>4 DEF Has
      <4>6. UpstreamPaged'
        BY <1>4, <4>2, <4>5 DEF UpstreamPaged
      <4>7. SurveyTyped'
        BY <1>1, <2>16, <4>2 DEF SurveyTyped
      <4> QED
        BY <1>1, <2>16, <4>6, <4>7 DEF SitemapsRead, InventoryPaged, WalkIsComplete
    <3> QED
      BY <3>2, <3>3
  <2> QED
    BY <1>2, <2>15, <2>16
<1>6. CASE calm # TRUE
  <2>1. calm' = FALSE
    BY <1>1, <1>6 DEF SurveyTyped
  <2>2. consumed \in Nat
    <3>1. Len(selected) \in Nat
      BY DEF SurveyTyped
    <3> QED
      BY <1>4, <3>1
  <2> HIDE DEF consumed
  <2>3. mark' \in [page: Nat, offset: Nat]
    <3>1. [mark EXCEPT !.offset = consumed] \in [page: Nat, offset: Nat]
      BY <1>4, <2>2
    <3>2. [page |-> mark.page + 1, offset |-> 0] \in [page: Nat, offset: Nat]
      BY <1>4
    <3> QED
      BY <1>2, <1>4, <3>1, <3>2
  <2>4. lstep' \in {"walking", "done"}
    BY <1>1, <1>2
  <2>5. SurveyTyped'
    BY <1>1, <2>1, <2>3, <2>4 DEF SurveyTyped
  <2> QED
    BY <1>1, <2>1, <2>4, <2>5 DEF SitemapsRead, InventoryPaged, UpstreamPaged, WalkIsComplete
<1> QED
  BY <1>5, <1>6

(* Every step of a walk keeps what is known of it. *)
LEMMA ListingSteps == ListingInv /\ [ListingNext]_listingVars => ListingInv'
<1> SUFFICES ASSUME ListingInv, [ListingNext]_listingVars
             PROVE  ListingInv'
  OBVIOUS
<1>1. CASE UNCHANGED listingVars
  BY <1>1 DEF listingVars, ListingInv, SurveyTyped, SitemapsRead, InventoryPaged, UpstreamPaged, WalkIsComplete, Has,
              Listed, Promised, Before, CursorAt
<1> QED
  BY <1>1, ChangesKeep, FailureKeeps, RootKeeps, NestedKeeps, LoadedKeeps, SnapshotKeeps, PageKeeps, UpstreamKeeps
     DEF ListingNext

(* However many pages it takes, a walk over a source finds each item once, *)
(* and all of them unless its limit, maximum_pages or a change of the      *)
(* server's files cuts it (list_items and _discover).                      *)
THEOREM PagesLoseNothing == ListingSpec => []WalkIsComplete
<1>1. ListingInv => WalkIsComplete
  BY DEF ListingInv
<1> QED
  BY <1>1, ListingStarts, ListingSteps, PTL DEF ListingSpec
-------------------------------------------------------------------------------
(* The three of them as parts of Parts. *)

(* A part runs from its own start, or stays idle. *)
ConnectorsInv ==
    /\ DiscoveryIdle \/ WalkInv
    /\ ListingIdle \/ ListingInv
    /\ RetrievalIdle \/ RetrievalInv

LEMMA IdleKnows ==
    /\ DiscoveryIdle => NothingLostSilently
    /\ ListingIdle => WalkIsComplete
    /\ RetrievalIdle => SourceIsTold
<1>1. DiscoveryIdle => NothingLostSilently
  BY DEF DiscoveryIdle, NothingLostSilently
<1>2. ListingIdle => WalkIsComplete
  BY DEF ListingIdle, WalkIsComplete
<1>3. RetrievalIdle => SourceIsTold
  <2> SUFFICES ASSUME RetrievalIdle
               PROVE  SourceIsTold
    OBVIOUS
  <2>1. fetch.step = "idle" /\ mirror.cursor = NoCursor /\ page.deleted = {}
    BY DEF RetrievalIdle, RetrievalFresh, NoFetch, NoPage
  <2>2. ContentIsWhole
    BY <2>1 DEF ContentIsWhole
  <2>3. MirrorIsCurrent
    BY <2>1 DEF MirrorIsCurrent
  <2> QED
    BY <2>2, <2>3 DEF SourceIsTold
<1> QED
  BY <1>1, <1>2, <1>3

(* Nothing starts by itself. *)
LEMMA IdleStays ==
    /\ DiscoveryIdle /\ [DiscoveryNext]_discoveryVars => DiscoveryIdle'
    /\ ListingIdle /\ [ListingNext]_listingVars => ListingIdle'
    /\ RetrievalIdle /\ [RetrievalNext]_retrievalVars => RetrievalIdle'
<1>1. ASSUME DiscoveryIdle, [DiscoveryNext]_discoveryVars
      PROVE  DiscoveryIdle'
  <2>1. ~Discovers
    BY <1>1 DEF DiscoveryIdle, Discovers, Begins, DirectoryGone, SkipsVisited, CannotList, Lists, Looks, SkipsLink,
                LinkEscapes, CannotInspect, EntersDirectory, SkipsFile, Inspects, Finds, NextDirectory, Ends
  <2>2. ~Disappears /\ ~Appears
    BY <1>1 DEF DiscoveryIdle, Disappears, Appears
  <2>3. ~DiscoveryNext
    BY <2>1, <2>2 DEF DiscoveryNext
  <2> QED
    BY <1>1, <2>3 DEF DiscoveryIdle, discoveryVars
<1>2. ASSUME ListingIdle, [ListingNext]_listingVars
      PROVE  ListingIdle'
  <2>1. ~ListingNext
    BY <1>2 DEF ListingIdle, ListingNext, SourceChanges, RequestFails, LoadsRoot, LoadsNested, Loaded, Snapshots,
                PagesSnapshot, PagesWebsite, PagesUpstream
  <2> QED
    BY <1>2, <2>1 DEF ListingIdle, listingVars
<1>3. ASSUME RetrievalIdle, [RetrievalNext]_retrievalVars
      PROVE  RetrievalIdle'
  <2>1. ~RetrievalNext
    BY <1>3 DEF RetrievalIdle, RetrievalFresh, NoFetch, RetrievalNext, GetsItem, ResolvesFile, OpensFile, ReadsFile,
                DeliversContent, RefusesCursor, DetectsChanges, ConnectorRestarts
  <2> QED
    BY <1>3, <2>1 DEF RetrievalIdle, RetrievalFresh, retrievalVars
<1> QED
  BY <1>1, <1>2, <1>3

(* A step of the whole is a step of one part, and of no other. *)
LEMMA PartsStep ==
    ASSUME [Next]_partsVars
    PROVE  [DiscoveryNext]_discoveryVars /\ [ListingNext]_listingVars /\ [RetrievalNext]_retrievalVars
<1>1. CASE UNCHANGED partsVars
  BY <1>1 DEF partsVars
<1>2. CASE Next
  BY <1>2 DEF Next, StillIdle
<1> QED
  BY <1>1, <1>2

(* Walks lose nothing that they do not report, pages lose nothing, and     *)
(* contents and changes are handed out as they are there, in every         *)
(* behaviour of Parts (connectors/).                                       *)
THEOREM SourcesTellAll == PartsSpec => []SourcesAreComplete
<1>1. Init => ConnectorsInv
  BY WalkStarts, ListingStarts, RetrievalStarts DEF Init, AllIdle, ConnectorsInv
<1>2. ConnectorsInv /\ [Next]_partsVars => ConnectorsInv'
  BY PartsStep, IdleStays, WalkSteps, ListingSteps, RetrievalStep DEF ConnectorsInv
<1>3. ConnectorsInv => SourcesAreComplete
  <2>1. WalkInv => NothingLostSilently
    BY WalkedIsComplete
  <2>2. ListingInv => WalkIsComplete
    BY DEF ListingInv
  <2>3. RetrievalInv => SourceIsTold
    BY DEF RetrievalInv, SourceIsTold
  <2> QED
    BY <2>1, <2>2, <2>3, IdleKnows DEF ConnectorsInv, SourcesAreComplete
<1> QED
  BY <1>1, <1>2, <1>3, PTL DEF PartsSpec
===============================================================================
