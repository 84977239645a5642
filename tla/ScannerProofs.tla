----------------------------- MODULE ScannerProofs -----------------------------
(***************************************************************************)
(* Theorems about what the scanners say of a document (StaticSecurity) and *)
(* about the chunks it is cut into (Chunking).                             *)
(***************************************************************************)
EXTENDS ConnectorProofs
-------------------------------------------------------------------------------
(* Lists, and what comprehensions make of them. *)

(* A list has a member at each of its places and nowhere else. *)
LEMMA ListFacts ==
    ASSUME NEW s, IsList(s)
    PROVE  /\ Len(s) \in Nat /\ DOMAIN s = 1..Len(s)
           /\ \A x : x \in ToSet(s) <=> \E i \in 1..Len(s) : s[i] = x
<1>1. s \in Seq(ToSet(s))
  BY DEF IsList
<1>2. Len(s) \in Nat /\ DOMAIN s = 1..Len(s)
  BY <1>1
<1> QED
  BY <1>2 DEF ToSet

(* A sequence of anything is a list. *)
LEMMA SeqIsList ==
    ASSUME NEW T, NEW s \in Seq(T)
    PROVE  IsList(s) /\ ToSet(s) \subseteq T
<1>1. PICK n \in Nat : n = Len(s)
  OBVIOUS
<1>2. s \in [1..n -> T] /\ DOMAIN s = 1..n
  BY <1>1
<1>3. \A i \in 1..n : s[i] \in ToSet(s)
  BY <1>2 DEF ToSet
<1>4. s \in Seq(ToSet(s))
  BY <1>2, <1>3
<1> QED
  BY <1>2, <1>4 DEF IsList, ToSet

(* What is appended to a list is its last member, and the others stay. *)
LEMMA AppendedIsList ==
    ASSUME NEW s, IsList(s), NEW x
    PROVE  /\ IsList(Append(s, x)) /\ Len(Append(s, x)) = Len(s) + 1
           /\ Append(s, x)[Len(s) + 1] = x
           /\ \A i \in 1..Len(s) : Append(s, x)[i] = s[i]
<1>1. PICK T : T = ToSet(s) \cup {x}
  OBVIOUS
<1>2. s \in Seq(T)
  <2>1. s \in Seq(ToSet(s)) /\ ToSet(s) \subseteq T
    BY <1>1 DEF IsList
  <2> QED
    BY <2>1
<1>3. x \in T
  BY <1>1
<1>4. /\ Append(s, x) \in Seq(T) /\ Len(Append(s, x)) = Len(s) + 1
      /\ Append(s, x)[Len(s) + 1] = x
      /\ \A i \in 1..Len(s) : Append(s, x)[i] = s[i]
  BY <1>2, <1>3
<1>5. IsList(Append(s, x))
  BY <1>4, SeqIsList
<1> QED
  BY <1>4, <1>5

(* What has a value for each place is a list. *)
LEMMA FilledIsList ==
    ASSUME NEW n \in Nat, NEW f, Fills(f, n)
    PROVE  IsList(f) /\ Len(f) = n
<1>1. DOMAIN f = 1..n /\ f = [k \in 1..n |-> f[k]]
  BY DEF Fills
<1>2. \A k \in 1..n : f[k] \in ToSet(f)
  BY <1>1 DEF ToSet
<1>3. f \in [1..n -> ToSet(f)]
  BY <1>1, <1>2
<1>4. f \in Seq(ToSet(f)) /\ Len(f) = n
  BY <1>3
<1> QED
  BY <1>4 DEF IsList

(* One list after another has the members of both. *)
LEMMA JoinedIsList ==
    ASSUME NEW a, NEW b, IsList(a), IsList(b)
    PROVE  /\ IsList(a \o b) /\ Len(a \o b) = Len(a) + Len(b)
           /\ \A x : x \in ToSet(a \o b) <=> x \in ToSet(a) \/ x \in ToSet(b)
<1> DEFINE T == ToSet(a) \cup ToSet(b)
<1>1. PICK m \in Nat, n \in Nat : m = Len(a) /\ n = Len(b)
  BY ListFacts
<1>2. a \in Seq(T) /\ b \in Seq(T)
  <2>1. a \in Seq(ToSet(a)) /\ b \in Seq(ToSet(b))
    BY DEF IsList
  <2>2. a \in [1..m -> ToSet(a)] /\ b \in [1..n -> ToSet(b)]
    BY <1>1, <2>1
  <2>3. a \in [1..m -> T] /\ b \in [1..n -> T]
    BY <2>2
  <2> QED
    BY <2>3
<1> HIDE DEF T
<1> DEFINE c == a \o b
<1>3. /\ c \in Seq(T) /\ Len(c) = m + n
      /\ \A i \in 1..m + n : c[i] = IF i <= m THEN a[i] ELSE b[i - m]
  BY <1>1, <1>2, ConcatProperties
<1> HIDE DEF c
<1>4. IsList(c)
  BY <1>3, SeqIsList
<1>5. /\ \A x : x \in ToSet(a) <=> \E i \in 1..m : a[i] = x
      /\ \A x : x \in ToSet(b) <=> \E i \in 1..n : b[i] = x
      /\ \A x : x \in ToSet(c) <=> \E i \in 1..m + n : c[i] = x
  <2>1. \A x : x \in ToSet(c) <=> \E i \in 1..Len(c) : c[i] = x
    BY <1>4, ListFacts
  <2>2. /\ \A x : x \in ToSet(a) <=> \E i \in 1..Len(a) : a[i] = x
        /\ \A x : x \in ToSet(b) <=> \E i \in 1..Len(b) : b[i] = x
    BY ListFacts
  <2> QED
    BY <1>1, <1>3, <2>1, <2>2
<1>6. ASSUME NEW x, x \in ToSet(c)
      PROVE  x \in ToSet(a) \/ x \in ToSet(b)
  <2>1. PICK i \in 1..m + n : c[i] = x
    BY <1>5, <1>6
  <2>2. CASE i <= m
    BY <1>3, <1>5, <2>1, <2>2
  <2>3. CASE ~(i <= m)
    <3>1. i - m \in 1..n /\ c[i] = b[i - m]
      BY <1>3, <2>3
    <3> QED
      BY <1>5, <2>1, <3>1
  <2> QED
    BY <2>2, <2>3
<1>7. ASSUME NEW x, x \in ToSet(a)
      PROVE  x \in ToSet(c)
  <2>1. PICK i \in 1..m : a[i] = x
    BY <1>5, <1>7
  <2>2. i \in 1..m + n /\ i <= m
    OBVIOUS
  <2> QED
    BY <1>3, <1>5, <2>1, <2>2
<1>8. ASSUME NEW x, x \in ToSet(b)
      PROVE  x \in ToSet(c)
  <2>1. PICK j \in 1..n : b[j] = x
    BY <1>5, <1>8
  <2>2. m + j \in 1..m + n /\ ~(m + j <= m) /\ (m + j) - m = j
    OBVIOUS
  <2>3. c[m + j] = b[(m + j) - m]
    BY <1>3, <2>2
  <2> QED
    BY <1>5, <2>1, <2>2, <2>3
<1> QED
  BY <1>1, <1>3, <1>4, <1>6, <1>7, <1>8 DEF c

(* up holds what the first n of ss make one after another, for each n. *)
ChainsUp(up, ss, n) == up = [k \in 0..n |-> IF k = 0 THEN <<>> ELSE up[k - 1] \o ss[k]]

(* Lists can be put one after another, however many they are. *)
LEMMA ChainsExist ==
    ASSUME NEW ss, NEW n \in Nat
    PROVE  \E up : ChainsUp(up, ss, n)
<1> DEFINE missing == {k \in Nat : ~\E up : ChainsUp(up, ss, k)}
<1> SUFFICES ASSUME missing # {}
             PROVE  FALSE
  OBVIOUS
<1>1. PICK m \in missing : \A k \in missing : <<k, m>> \notin OpToRel(<, Nat)
  BY NatLessThanWellFounded, WFMin
<1>2. m # 0
  <2> DEFINE up == [k \in 0..0 |-> <<>>]
  <2>1. up = [k \in 0..0 |-> IF k = 0 THEN <<>> ELSE up[k - 1] \o ss[k]]
    OBVIOUS
  <2>2. ChainsUp(up, ss, 0)
    BY <2>1 DEF ChainsUp
  <2> QED
    BY <2>2
<1>3. PICK j \in Nat : m = j + 1
  BY <1>2
<1>4. j \notin missing
  <2> HIDE DEF missing
  <2>1. <<j, m>> \in OpToRel(<, Nat)
    BY <1>3 DEF OpToRel
  <2> QED
    BY <1>1, <2>1
<1>5. PICK up : ChainsUp(up, ss, j)
  BY <1>4
<1>8. PICK last : last = up[j] \o ss[m]
  OBVIOUS
<1> DEFINE more == [k \in 0..m |-> IF k <= j THEN up[k] ELSE last]
<1>6. ASSUME NEW k \in 0..m
      PROVE  more[k] = IF k = 0 THEN <<>> ELSE more[k - 1] \o ss[k]
  <2>1. CASE k = m
    <3>1. ~(k <= j) /\ k # 0 /\ k - 1 = j /\ j \in 0..m
      BY <1>3, <2>1
    <3>2. more[k] = last /\ more[j] = up[j]
      BY <3>1
    <3> QED
      BY <1>8, <2>1, <3>1, <3>2
  <2>2. CASE k # m
    <3>1. k \in 0..j
      BY <1>3, <2>2
    <3>2. up[k] = IF k = 0 THEN <<>> ELSE up[k - 1] \o ss[k]
      BY <1>5, <3>1 DEF ChainsUp
    <3>3. k # 0 => k - 1 \in 0..m /\ k - 1 <= j
      BY <1>3, <3>1
    <3>4. more[k] = up[k] /\ (k # 0 => more[k - 1] = up[k - 1])
      BY <3>1, <3>3
    <3> QED
      BY <3>2, <3>4
  <2> QED
    BY <2>1, <2>2
<1>7. ChainsUp(more, ss, m)
  BY <1>6 DEF ChainsUp
<1> QED
  BY <1>1, <1>7

(* Lists one after another make a list of all of their members. *)
LEMMA ChainedKeeps ==
    ASSUME NEW ss, IsList(ss), \A i \in DOMAIN ss : IsList(ss[i])
    PROVE  /\ IsList(Chained(ss))
           /\ \A x : x \in ToSet(Chained(ss)) <=> \E i \in DOMAIN ss : x \in ToSet(ss[i])
<1>1. PICK n \in Nat : n = Len(ss) /\ DOMAIN ss = 1..n
  BY ListFacts
<1>2. PICK up : ChainsUp(up, ss, n) /\ Chained(ss) = up[n]
  <2> DEFINE it == CHOOSE up : up = [k \in 0..n |-> IF k = 0 THEN <<>> ELSE up[k - 1] \o ss[k]]
  <2>1. \E up : up = [k \in 0..n |-> IF k = 0 THEN <<>> ELSE up[k - 1] \o ss[k]]
    BY ChainsExist DEF ChainsUp
  <2>2. ChainsUp(it, ss, n)
    BY <2>1 DEF ChainsUp
  <2>3. Chained(ss) = it[n]
    BY <1>1 DEF Chained
  <2> QED
    BY <2>2, <2>3
<1>3. /\ up[0] = <<>>
      /\ \A k \in 1..n : up[k] = up[k - 1] \o ss[k]
  <2>1. \A k \in 0..n : up[k] = IF k = 0 THEN <<>> ELSE up[k - 1] \o ss[k]
    BY <1>2 DEF ChainsUp
  <2>2. up[0] = <<>>
    <3>1. 0 \in 0..n
      OBVIOUS
    <3> QED
      BY <2>1, <3>1
  <2>3. ASSUME NEW k \in 1..n
        PROVE  up[k] = up[k - 1] \o ss[k]
    <3>1. k \in 0..n /\ k # 0
      OBVIOUS
    <3> QED
      BY <2>1, <3>1
  <2> QED
    BY <2>2, <2>3
<1> DEFINE Good(k) == /\ IsList(up[k])
                      /\ \A x : x \in ToSet(up[k]) <=> \E i \in 1..k : x \in ToSet(ss[i])
           bad == {k \in Nat : k <= n /\ ~Good(k)}
<1>4. bad = {}
  <2> SUFFICES ASSUME bad # {}
               PROVE  FALSE
    OBVIOUS
  <2>1. PICK m \in bad : \A k \in bad : <<k, m>> \notin OpToRel(<, Nat)
    <3>1. bad \subseteq Nat
      OBVIOUS
    <3> HIDE DEF bad
    <3> QED
      BY <3>1, NatLessThanWellFounded, WFMin
  <2>10. m \in Nat /\ m <= n /\ ~Good(m)
    BY <2>1
  <2>2. Good(0)
    <3>1. up[0] = <<>> /\ Fills(<<>>, 0)
      BY <1>3 DEF Fills
    <3>2. IsList(up[0]) /\ Len(up[0]) = 0
      BY <3>1, FilledIsList
    <3>3. \A x : x \notin ToSet(up[0])
      BY <3>2, ListFacts
    <3> QED
      BY <3>2, <3>3
  <2>3. PICK j \in Nat : m = j + 1
    <3> HIDE DEF Good
    <3>1. m # 0
      BY <2>2, <2>10
    <3> QED
      BY <2>10, <3>1
  <2>4. j <= n /\ m \in 1..n /\ j = m - 1
    BY <2>3, <2>10
  <2>5. Good(j)
    <3>1. j \notin bad
      <4> HIDE DEF bad
      <4>1. <<j, m>> \in OpToRel(<, Nat)
        BY <2>3 DEF OpToRel
      <4> QED
        BY <2>1, <4>1
    <3> QED
      BY <2>4, <3>1
  <2>6. up[m] = up[j] \o ss[m] /\ IsList(ss[m])
    BY <1>1, <1>3, <2>4
  <2>7. /\ IsList(up[m])
        /\ \A x : x \in ToSet(up[m]) <=> x \in ToSet(up[j]) \/ x \in ToSet(ss[m])
    BY <2>5, <2>6, JoinedIsList
  <2>8. \A i : i \in 1..m <=> i \in 1..j \/ i = m
    BY <2>3
  <2>9. \A x : x \in ToSet(up[m]) <=> \E i \in 1..m : x \in ToSet(ss[i])
    BY <2>5, <2>7, <2>8
  <2> QED
    BY <2>7, <2>9, <2>10
<1>5. Good(n)
  BY <1>4
<1> QED
  BY <1>1, <1>2, <1>5

(* What is picked from a list is the members at those places. *)
LEMMA PickedIsList ==
    ASSUME NEW s, IsList(s), NEW slots \in SUBSET DOMAIN s
    PROVE  /\ IsList(Picked(s, slots)) /\ Len(Picked(s, slots)) <= Len(s)
           /\ \A x : x \in ToSet(Picked(s, slots)) <=> \E i \in slots : s[i] = x
<1>1. s \in Seq(ToSet(s))
  BY DEF IsList
<1>2. /\ Picked(s, slots) \in Seq(ToSet(s)) /\ Len(Picked(s, slots)) <= Len(s)
      /\ ToSet(Picked(s, slots)) = {s[i] : i \in slots}
  BY <1>1, PickedKeeps
<1> QED
  BY <1>2, SeqIsList

(* The first n of a list and the others are all of it. *)
LEMMA TakenIsList ==
    ASSUME NEW s, IsList(s), NEW n \in Nat
    PROVE  /\ IsList(Take(s, n)) /\ Len(Take(s, n)) = Least(n, Len(s))
           /\ \A k \in 1..Least(n, Len(s)) : Take(s, n)[k] = s[k]
           /\ \A x : x \in ToSet(Take(s, n)) => x \in ToSet(s)
           /\ Len(s) <= n => Take(s, n) = s
<1>1. s \in Seq(ToSet(s))
  BY DEF IsList
<1>2. /\ Take(s, n) \in Seq(ToSet(s)) /\ Len(Take(s, n)) = Least(n, Len(s))
      /\ \A k \in 1..Least(n, Len(s)) : Take(s, n)[k] = s[k]
      /\ Len(s) <= n => Take(s, n) = s
      /\ ToSet(Take(s, n)) \subseteq ToSet(s)
  BY <1>1, TakeKeeps
<1> QED
  BY <1>2, SeqIsList
-------------------------------------------------------------------------------
(* The static scanner (StaticSecurity): what its matchers are applied to,  *)
(* and that they find what is there.                                       *)

(* One value is a list. *)
LEMMA OneIsList ==
    ASSUME NEW x
    PROVE  IsList(<<x>>) /\ Len(<<x>>) = 1 /\ \A y : y \in ToSet(<<x>>) <=> y = x
<1>1. Fills(<<x>>, 1)
  BY DEF Fills
<1>2. IsList(<<x>>) /\ Len(<<x>>) = 1
  BY <1>1, FilledIsList
<1> QED
  BY <1>2, ListFacts

(* None is a list. *)
LEMMA NoneIsList == IsList(<<>>) /\ Len(<<>>) = 0 /\ \A y : y \notin ToSet(<<>>)
<1>1. Fills(<<>>, 0)
  BY DEF Fills
<1>2. IsList(<<>>) /\ Len(<<>>) = 0
  BY <1>1, FilledIsList
<1> QED
  BY <1>2, ListFacts

(* A part of a list is one, with the members of its places. *)
LEMMA CutIsList ==
    ASSUME NEW s, IsList(s), NEW a \in Nat, NEW b \in Nat, b <= Len(s)
    PROVE  /\ IsList(SubSeq(s, a + 1, b)) /\ Len(SubSeq(s, a + 1, b)) = IF a <= b THEN b - a ELSE 0
           /\ \A i \in 1..b - a : SubSeq(s, a + 1, b)[i] = s[a + i]
<1>1. s \in Seq(ToSet(s))
  BY DEF IsList
<1>2. PICK n \in Nat : n = Len(s)
  BY <1>1
<1>3. SubSeq(s, a + 1, b) \in Seq(ToSet(s))
  <2>1. a + 1 \in 1..n + 1 \/ b < a + 1
    BY <1>2
  <2>2. ASSUME NEW i \in (a + 1)..b
        PROVE  s[i] \in ToSet(s)
    <3>1. i \in 1..n
      BY <1>2
    <3> QED
      BY <1>1, <1>2, <3>1
  <2> QED
    BY <1>1, <1>2, <2>2, SubSeqProperties
<1>4. Len(SubSeq(s, a + 1, b)) = IF a <= b THEN b - a ELSE 0
  BY <1>1, <1>2, SubSeqProperties
<1>5. \A i \in 1..b - a : SubSeq(s, a + 1, b)[i] = s[a + i]
  BY <1>1, <1>2, SubSeqProperties
<1> QED
  BY <1>3, <1>4, <1>5, SeqIsList

(* Places of a text, in turn. *)
LEMMA PlacesInTurn ==
    ASSUME NEW a \in Int, NEW b \in Int, NEW S \in SUBSET (a..b)
    PROVE  /\ IsList(InTurn(S)) /\ IsFiniteSet(S)
           /\ \A x : x \in ToSet(InTurn(S)) <=> x \in S
<1>1. IsFiniteSet(S)
  BY FS_Interval, FS_Subset
<1>2. Numbers(S)
  BY DEF Numbers
<1>3. InTurn(S) \in Seq(S) /\ \A x \in S : \E k \in 1..Len(InTurn(S)) : InTurn(S)[k] = x
  BY <1>1, <1>2, InTurnKeeps
<1>4. IsList(InTurn(S)) /\ ToSet(InTurn(S)) \subseteq S
  BY <1>3, SeqIsList
<1> QED
  BY <1>1, <1>3, <1>4, ListFacts

(* S has of the places up to n those that are apart. *)
KeepsApart(S, spots, n, width) ==
    /\ S \in SUBSET spots
    /\ \A p \in spots : p \in S <=> p <= n /\ \A q \in S : q < p => q + width <= p

(* Places can be taken from left to right. *)
LEMMA ApartExists ==
    ASSUME NEW top \in Nat, NEW spots \in SUBSET (0..top), NEW width \in Nat
    PROVE  \E S : KeepsApart(S, spots, top, width)
<1> DEFINE missing == {n \in Nat : ~\E S : KeepsApart(S, spots, n, width)}
<1> SUFFICES ASSUME missing # {}
             PROVE  FALSE
  OBVIOUS
<1>1. PICK m \in missing : \A k \in missing : <<k, m>> \notin OpToRel(<, Nat)
  BY NatLessThanWellFounded, WFMin
<1>2. \A p \in spots : p \in Nat
  OBVIOUS
<1>3. PICK T : /\ T \in SUBSET spots
               /\ \A p \in spots : p \in T <=> p < m /\ \A q \in T : q < p => q + width <= p
  <2>1. CASE m = 0
    <3>1. \A p \in spots : ~(p < m)
      BY <1>2, <2>1
    <3>2. PICK T : T = {}
      OBVIOUS
    <3>3. T \in SUBSET spots /\ \A p \in spots : p \in T <=> p < m /\ \A q \in T : q < p => q + width <= p
      BY <3>1, <3>2
    <3> QED
      BY <3>3
  <2>2. CASE m # 0
    <3>1. PICK j \in Nat : m = j + 1
      BY <2>2
    <3>2. j \notin missing
      <4> HIDE DEF missing
      <4>1. <<j, m>> \in OpToRel(<, Nat)
        BY <3>1 DEF OpToRel
      <4> QED
        BY <1>1, <4>1
    <3>3. PICK T : KeepsApart(T, spots, j, width)
      BY <3>2
    <3>4. \A p \in spots : p <= j <=> p < m
      BY <1>2, <3>1
    <3> QED
      BY <3>3, <3>4 DEF KeepsApart
  <2> QED
    BY <2>1, <2>2
<1>4. \A q \in T : q < m
  BY <1>3
<1> DEFINE Free == m \in spots /\ \A q \in T : q + width <= m
           S == T \cup {p \in spots : p = m /\ Free}
<1>5. ASSUME NEW p \in spots
      PROVE  p \in S <=> p <= m /\ \A q \in S : q < p => q + width <= p
  <2>1. p \in Nat /\ m \in Nat /\ \A q \in S : q \in spots /\ q \in Nat
    BY <1>2, <1>3
  <2>2. CASE p < m
    <3>1. p \in S <=> p \in T
      BY <2>2
    <3>2. \A q \in S : q < p => q \in T
      BY <2>1, <2>2
    <3> QED
      BY <1>3, <2>1, <2>2, <3>1, <3>2
  <2>3. CASE p = m
    <3>1. p \in S <=> Free
      BY <1>4, <2>1, <2>3
    <3>2. \A q \in S : q < p <=> q \in T
      BY <1>4, <2>1, <2>3
    <3>3. \A q \in T : q \in S
      OBVIOUS
    <3> QED
      BY <2>1, <2>3, <3>1, <3>2, <3>3
  <2>4. CASE p > m
    BY <1>3, <2>1, <2>4
  <2> QED
    BY <2>1, <2>2, <2>3, <2>4
<1>6. KeepsApart(S, spots, m, width)
  <2>1. S \in SUBSET spots
    BY <1>3
  <2> HIDE DEF S
  <2> QED
    BY <1>5, <2>1 DEF KeepsApart
<1> QED
  BY <1>1, <1>6

OutOfReach(p, spots, width) == \A q \in spots : q < p => q + width <= p

(* A place that none to its left reaches is among those apart. *)
LEMMA ApartKeeps ==
    ASSUME NEW top \in Nat, NEW spots \in SUBSET (0..top), NEW width \in Nat
    PROVE  /\ Apart(spots, width) \in SUBSET spots
           /\ \A p \in spots : OutOfReach(p, spots, width) => p \in Apart(spots, width)
<1>1. PICK S : KeepsApart(S, spots, top, width)
  BY ApartExists
<1>2. S \in SUBSET spots /\ \A p \in spots : p \in S <=> \A q \in S : q < p => q + width <= p
  BY <1>1 DEF KeepsApart
<1>3. PICK A : A = Apart(spots, width)
  OBVIOUS
<1>4. A \in SUBSET spots /\ \A p \in spots : p \in A <=> \A q \in A : q < p => q + width <= p
  BY <1>2, <1>3 DEF Apart
<1>5. \A p \in spots : OutOfReach(p, spots, width) => p \in A
  BY <1>4 DEF OutOfReach
<1> QED
  BY <1>3, <1>4, <1>5

(* No place of the pattern to the left reaches over p. *)
Unreached(text, pattern, p) == \A q \in Occurs(text, pattern) : q < p => q + Len(pattern) <= p

(* A pattern is found wherever it occurs, but across its earlier places.   *)
LEMMA HitsAreFound ==
    ASSUME NEW text, IsList(text), NEW pattern, IsList(pattern)
    PROVE  /\ IsList(Hits(text, pattern))
           /\ \A p \in Occurs(text, pattern) :
                Unreached(text, pattern, p) => Hit(p, p + Len(pattern)) \in ToSet(Hits(text, pattern))
<1> DEFINE at == InTurn(Apart(Occurs(text, pattern), Len(pattern)))
           hits == [i \in DOMAIN at |-> Hit(at[i], at[i] + Len(pattern))]
<1>1. Hits(text, pattern) = hits
  BY DEF Hits
<1>2. PICK top \in Nat, width \in Nat : top = Len(text) /\ width = Len(pattern)
  BY ListFacts
<1>3. PICK spots : spots = Occurs(text, pattern) /\ spots \in SUBSET (0..top)
  <2>1. Occurs(text, pattern) \in SUBSET (0..top)
    BY <1>2 DEF Occurs
  <2> QED
    BY <2>1
<1>4. /\ Apart(spots, width) \in SUBSET spots
      /\ \A p \in spots : Unreached(text, pattern, p) => p \in Apart(spots, width)
  <2>1. spots \in SUBSET (0..top)
    BY <1>3
  <2>2. \A p \in spots : OutOfReach(p, spots, width) => p \in Apart(spots, width)
    BY <2>1, ApartKeeps
  <2>3. Apart(spots, width) \in SUBSET spots
    BY <2>1, ApartKeeps
  <2>4. \A p : Unreached(text, pattern, p) <=> OutOfReach(p, spots, width)
    BY <1>2, <1>3 DEF Unreached, OutOfReach
  <2> QED
    BY <2>2, <2>3, <2>4
<1>5. IsList(at) /\ \A x : x \in ToSet(at) <=> x \in Apart(spots, width)
  <2>1. PICK lone : lone = Apart(spots, width)
    OBVIOUS
  <2>2. lone \in SUBSET (0..top) /\ 0 \in Int /\ top \in Int
    BY <1>3, <1>4, <2>1
  <2>3. at = InTurn(lone)
    BY <1>2, <1>3, <2>1
  <2> HIDE DEF at
  <2> QED
    BY <2>1, <2>2, <2>3, PlacesInTurn
<1> HIDE DEF at
<1>6. PICK n \in Nat : n = Len(at) /\ DOMAIN at = 1..n
  BY <1>5, ListFacts
<1>7. IsList(hits) /\ Len(hits) = n
  <2>1. Fills(hits, n)
    BY <1>6 DEF Fills
  <2> HIDE DEF hits
  <2> QED
    BY <2>1, FilledIsList
<1>8. ASSUME NEW p \in Occurs(text, pattern), Unreached(text, pattern, p)
      PROVE  Hit(p, p + Len(pattern)) \in ToSet(hits)
  <2>1. p \in ToSet(at)
    BY <1>3, <1>4, <1>5, <1>8
  <2>2. PICK i \in 1..n : at[i] = p
    BY <1>5, <1>6, <2>1, ListFacts
  <2>3. hits[i] = Hit(p, p + Len(pattern))
    BY <1>6, <2>2
  <2> HIDE DEF hits
  <2> QED
    BY <1>7, <2>3, ListFacts
<1> QED
  BY <1>1, <1>7, <1>8

(* So is one of several. *)
LEMMA PatternsAreFound ==
    ASSUME NEW text, IsList(text), NEW patterns, IsList(patterns), \A p \in ToSet(patterns) : IsList(p)
    PROVE  /\ IsList(Found(text, patterns)) /\ IsList(FirstFound(text, patterns))
           /\ \A pattern \in ToSet(patterns) : \A p \in Occurs(text, pattern) :
                Unreached(text, pattern, p) => Hit(p, p + Len(pattern)) \in ToSet(Found(text, patterns))
<1> DEFINE all == [i \in DOMAIN patterns |-> Hits(text, patterns[i])]
           first == [i \in DOMAIN patterns |-> Take(Hits(text, patterns[i]), 1)]
<1>1. Found(text, patterns) = Chained(all) /\ FirstFound(text, patterns) = Chained(first)
  BY DEF Found, FirstFound
<1>2. PICK n \in Nat : n = Len(patterns) /\ DOMAIN patterns = 1..n
  BY ListFacts
<1>3. \A i \in 1..n : patterns[i] \in ToSet(patterns) /\ IsList(patterns[i])
  BY <1>2, ListFacts
<1>4. \A i \in 1..n : IsList(Hits(text, patterns[i])) /\ IsList(Take(Hits(text, patterns[i]), 1))
  BY <1>3, HitsAreFound, TakenIsList
<1>5. /\ Fills(all, n) /\ DOMAIN all = 1..n /\ \A i \in 1..n : all[i] = Hits(text, patterns[i])
      /\ Fills(first, n) /\ DOMAIN first = 1..n /\ \A i \in 1..n : first[i] = Take(Hits(text, patterns[i]), 1)
  BY <1>2 DEF Fills
<1> HIDE DEF all, first
<1>6. IsList(all) /\ \A i \in DOMAIN all : IsList(all[i])
  BY <1>4, <1>5, FilledIsList
<1>7. IsList(first) /\ \A i \in DOMAIN first : IsList(first[i])
  BY <1>4, <1>5, FilledIsList
<1>8. /\ IsList(Chained(all))
      /\ \A x : x \in ToSet(Chained(all)) <=> \E i \in DOMAIN all : x \in ToSet(all[i])
  BY <1>6, ChainedKeeps
<1>9. IsList(Chained(first))
  BY <1>7, ChainedKeeps
<1>10. ASSUME NEW pattern \in ToSet(patterns), NEW p \in Occurs(text, pattern), Unreached(text, pattern, p)
       PROVE  Hit(p, p + Len(pattern)) \in ToSet(Chained(all))
  <2>1. PICK i \in 1..n : patterns[i] = pattern
    BY <1>2, ListFacts
  <2>2. Hit(p, p + Len(pattern)) \in ToSet(all[i])
    BY <1>3, <1>5, <1>10, <2>1, HitsAreFound
  <2> QED
    BY <1>5, <1>8, <2>2
<1> QED
  BY <1>1, <1>8, <1>9, <1>10

(* Single symbols are matches. *)
LEMMA SinglesAreList ==
    ASSUME NEW text, IsList(text), NEW spots \in SUBSET DOMAIN text
    PROVE  IsList(Singles(spots))
<1> DEFINE at == InTurn(spots)
           hits == [i \in DOMAIN at |-> Hit(at[i] - 1, at[i])]
<1>1. Singles(spots) = hits
  BY DEF Singles
<1>2. PICK a \in Int, b \in Int : spots \in SUBSET (a..b)
  <2>1. Len(text) \in Int /\ 1 \in Int /\ spots \in SUBSET (1..Len(text))
    BY ListFacts
  <2> QED
    BY <2>1
<1>3. IsList(at)
  BY <1>2, PlacesInTurn
<1> HIDE DEF at
<1>4. PICK n \in Nat : n = Len(at) /\ DOMAIN at = 1..n
  BY <1>3, ListFacts
<1>5. Fills(hits, n)
  BY <1>4 DEF Fills
<1> HIDE DEF hits
<1> QED
  BY <1>1, <1>5, FilledIsList

(* Whatever the matcher, its matches are a list; those of a phrase are all *)
(* of its places.                                                          *)
LEMMA MatchesAreList ==
    ASSUME NEW m, m.type \in MatcherTypes, IsList(m.patterns), \A p \in ToSet(m.patterns) : IsList(p),
           NEW t, IsList(t.text), NEW limits, limits.input \in Nat
    PROVE  /\ IsList(Matches(m, t, limits))
           /\ m.type = "substring_ci" =>
                \A pattern \in ToSet(m.patterns) : \A p \in Occurs(t.text, pattern) :
                  Unreached(t.text, pattern, p) => Hit(p, p + Len(pattern)) \in ToSet(Matches(m, t, limits))
<1>1. IsList(Whole(t.text)) /\ IsList(<<>>)
  BY OneIsList, NoneIsList DEF Whole
<1>2. CASE m.type = "substring_ci"
  <2>1. Matches(m, t, limits) = Found(t.text, m.patterns)
    BY <1>2 DEF Matches
  <2> QED
    BY <2>1, PatternsAreFound
<1>3. CASE m.type = "exact"
  <2>1. Matches(m, t, limits) = IF t.text \in ToSet(m.patterns) THEN Whole(t.text) ELSE <<>>
    BY <1>3 DEF Matches
  <2> QED
    BY <1>1, <1>3, <2>1
<1>4. CASE m.type = "regex"
  <2>1. Matches(m, t, limits) = Found(Take(t.text, limits.input), m.patterns)
    BY <1>4 DEF Matches
  <2>2. IsList(Take(t.text, limits.input))
    BY TakenIsList
  <2> QED
    BY <1>4, <2>1, <2>2, PatternsAreFound
<1>5. CASE m.type = "annotation_type"
  <2>1. Matches(m, t, limits) = IF t.scope = "normalization_annotation" /\ t.text \in ToSet(m.patterns) THEN Whole(t.text) ELSE <<>>
    BY <1>5 DEF Matches
  <2> QED
    BY <1>1, <1>5, <2>1
<1>6. CASE m.type = "warning_code"
  <2>1. Matches(m, t, limits) = IF t.scope = "parser_warning" /\ t.text \in ToSet(m.patterns) THEN Whole(t.text) ELSE <<>>
    BY <1>6 DEF Matches
  <2> QED
    BY <1>1, <1>6, <2>1
<1>7. CASE m.type = "metadata_field"
  <2>1. Matches(m, t, limits) = IF t.scope \in {"metadata", "title"} /\ (m.fields = {} \/ t.field \in m.fields)
                                THEN FirstFound(t.text, m.patterns) ELSE <<>>
    BY <1>7 DEF Matches
  <2> QED
    BY <1>1, <1>7, <2>1, PatternsAreFound
<1>8. CASE m.type = "decoded_content"
  <2>1. Matches(m, t, limits) = DecodedMatches(t.text, m.patterns, limits.depth)
    BY <1>8 DEF Matches
  <2> DEFINE spots == {i \in DOMAIN t.text : t.text[i] \in DOMAIN Symbols.decodes
                          /\ <<Decoded(t.text[i], ToSet(m.patterns), limits.depth)>> \in ToSet(m.patterns)}
  <2>2. DecodedMatches(t.text, m.patterns, limits.depth) = IF limits.depth = 0 THEN <<>> ELSE Singles(spots)
    BY DEF DecodedMatches, Single
  <2>3. IsList(Singles(spots))
    <3>1. spots \in SUBSET DOMAIN t.text
      OBVIOUS
    <3> HIDE DEF spots
    <3> QED
      BY <3>1, SinglesAreList
  <2> HIDE DEF spots
  <2> QED
    BY <1>1, <1>8, <2>1, <2>2, <2>3
<1>9. CASE m.type = "url_property"
  <2>1. Matches(m, t, limits) = UrlMatches(t.text)
    BY <1>9 DEF Matches
  <2> DEFINE spots == {i \in DOMAIN t.text : t.text[i] \in UrlSymbols}
             urls == Singles(spots)
             bad == {i \in DOMAIN urls :
                       \/ Symbols.reasons[t.text[urls[i].to]] # {}
                       \/ t.text[urls[i].to] \in Symbols.plainHttp
                          /\ Window(t.text, urls[i], ContextWindow \div 2) \cap Symbols.agent # {}}
  <2>2. UrlMatches(t.text) = Picked(urls, bad)
    BY DEF UrlMatches, Single, Those
  <2>3. IsList(urls)
    <3>1. spots \in SUBSET DOMAIN t.text
      OBVIOUS
    <3> HIDE DEF spots
    <3> QED
      BY <3>1, SinglesAreList
  <2>4. bad \in SUBSET DOMAIN urls
    OBVIOUS
  <2> HIDE DEF urls, bad
  <2> QED
    BY <1>9, <2>1, <2>2, <2>3, <2>4, PickedIsList
<1>10. CASE m.type = "secret_pattern"
  <2>1. Matches(m, t, limits) = SecretMatches(t.text)
    BY <1>10 DEF Matches
  <2> DEFINE spots == {i \in DOMAIN t.text : t.text[i] \in Symbols.secrets \ Symbols.placeholder}
  <2>2. SecretMatches(t.text) = Singles(spots)
    BY DEF SecretMatches, Single
  <2>3. spots \in SUBSET DOMAIN t.text
    OBVIOUS
  <2> HIDE DEF spots
  <2> QED
    BY <1>10, <2>1, <2>2, <2>3, SinglesAreList
<1>11. CASE m.type = "pii_pattern"
  <2>1. Matches(m, t, limits) = PiiMatches(t.text)
    BY <1>11 DEF Matches
  <2>2. PICK spots \in SUBSET DOMAIN t.text : PiiMatches(t.text) = Singles(spots)
    BY DEF PiiMatches, Single
  <2> QED
    BY <1>11, <2>1, <2>2, SinglesAreList
<1> QED
  BY <1>2, <1>3, <1>4, <1>5, <1>6, <1>7, <1>8, <1>9, <1>10, <1>11 DEF MatcherTypes

(* What has a text at each of its places is a list of texts. *)
LEMMA RegionsAreLists ==
    ASSUME NEW n \in Nat, NEW f, Fills(f, n), \A i \in 1..n : IsList(f[i].text)
    PROVE  IsList(f) /\ \A t \in ToSet(f) : IsList(t.text)
<1>1. IsList(f) /\ Len(f) = n
  BY FilledIsList
<1> QED
  BY <1>1, ListFacts

Textual(s) == IsList(s) /\ \A t \in ToSet(s) : IsList(t.text)

(* Regions after regions are regions. *)
LEMMA TextualJoin ==
    ASSUME NEW a, NEW b, Textual(a), Textual(b)
    PROVE  Textual(a \o b) /\ \A x : x \in ToSet(a \o b) <=> x \in ToSet(a) \/ x \in ToSet(b)
BY JoinedIsList DEF Textual

(* What a chunk gives the matchers: its text, and its headings. *)
LEMMA ChunkIsRead ==
    ASSUME NEW d \in ScanDocs, NEW i \in DOMAIN d.chunks
    PROVE  /\ Textual(ChunkRegions(d, i))
           /\ Region("chunk", SubSeq(d.norm, d.chunks[i].from + 1, d.chunks[i].to),
                     SourceForRange(d, d.place, d.chunks[i].from, d.chunks[i].to), i, d.chunks[i].from, "")
                \in ToSet(ChunkRegions(d, i))
<1>1. PICK c : c = d.chunks[i]
  OBVIOUS
<1>2. PICK place : place = SourceForRange(d, d.place, c.from, c.to)
  OBVIOUS
<1>3. PICK text : text = SubSeq(d.norm, c.from + 1, c.to)
  OBVIOUS
<1>4. c \in ToSet(d.chunks) /\ IsList(d.norm)
  <2>1. IsList(d.chunks) /\ IsList(d.norm)
    BY StaticAssumption
  <2> QED
    BY <1>1, <2>1, ListFacts
<1>5. c.from \in Nat /\ c.to \in c.from..Len(d.norm) /\ IsList(c.headings) /\ \A h \in ToSet(c.headings) : IsList(h)
  BY <1>4, StaticAssumption
<1>6. IsList(text)
  <2>1. c.to \in Nat /\ c.to <= Len(d.norm)
    BY <1>4, <1>5, ListFacts
  <2> QED
    BY <1>3, <1>4, <1>5, <2>1, CutIsList
<1> DEFINE own == Region("chunk", text, place, i, c.from, "")
           others == [h \in DOMAIN c.headings |-> Region("heading", c.headings[h], place, i, 0, "")]
<1>7. ChunkRegions(d, i) = <<own>> \o others
  BY <1>1, <1>2, <1>3 DEF ChunkRegions
<1>8. own.text = text
  BY DEF Region
<1>9. Textual(others)
  <2>1. PICK n \in Nat : n = Len(c.headings) /\ DOMAIN c.headings = 1..n
    BY <1>5, ListFacts
  <2>2. ASSUME NEW h \in 1..n
        PROVE  IsList(others[h].text)
    <3>1. IsList(c.headings[h])
      BY <1>5, <2>1, ListFacts
    <3>2. others[h].text = c.headings[h]
      BY <2>1 DEF Region
    <3> QED
      BY <3>1, <3>2
  <2>3. Fills(others, n)
    BY <2>1 DEF Fills
  <2> HIDE DEF others
  <2> QED
    BY <2>2, <2>3, RegionsAreLists DEF Textual
<1> HIDE DEF own, others
<1>10. Textual(<<own>>) /\ own \in ToSet(<<own>>)
  <2>1. IsList(<<own>>) /\ \A x : x \in ToSet(<<own>>) <=> x = own
    BY OneIsList
  <2> QED
    BY <1>6, <1>8, <2>1 DEF Textual
<1>11. Textual(<<own>> \o others) /\ own \in ToSet(<<own>> \o others)
  BY <1>9, <1>10, TextualJoin
<1> QED
  BY <1>1, <1>2, <1>3, <1>7, <1>11 DEF own

(* Everything that a document is taken apart into has a text, and every    *)
(* chunk is among it.                                                      *)
LEMMA ChunksAreTargets ==
    ASSUME NEW d \in ScanDocs
    PROVE  /\ Textual(ChunkTargets(d))
           /\ \A i \in DOMAIN d.chunks :
                Region("chunk", SubSeq(d.norm, d.chunks[i].from + 1, d.chunks[i].to),
                       SourceForRange(d, d.place, d.chunks[i].from, d.chunks[i].to), i, d.chunks[i].from, "")
                  \in ToSet(ChunkTargets(d))
<1> DEFINE ss == [i \in DOMAIN d.chunks |-> ChunkRegions(d, i)]
<1>1. IsList(d.chunks)
  BY StaticAssumption
<1>2. PICK n \in Nat : n = Len(d.chunks) /\ DOMAIN d.chunks = 1..n
  BY <1>1, ListFacts
<1>3. Fills(ss, n) /\ DOMAIN ss = 1..n /\ \A i \in 1..n : ss[i] = ChunkRegions(d, i)
  BY <1>2 DEF Fills
<1>4. ChunkTargets(d) = Chained(ss)
  BY DEF ChunkTargets
<1> HIDE DEF ss
<1>5. IsList(ss) /\ \A i \in DOMAIN ss : IsList(ss[i])
  BY <1>2, <1>3, FilledIsList, ChunkIsRead DEF Textual
<1>6. /\ IsList(Chained(ss))
      /\ \A x : x \in ToSet(Chained(ss)) <=> \E i \in DOMAIN ss : x \in ToSet(ss[i])
  BY <1>5, ChainedKeeps
<1>7. Textual(Chained(ss))
  BY <1>2, <1>3, <1>6, ChunkIsRead DEF Textual
<1> QED
  BY <1>2, <1>3, <1>4, <1>6, <1>7, ChunkIsRead

(* Annotated regions have a text. *)
LEMMA AnnotationsAreTargets ==
    ASSUME NEW d \in ScanDocs
    PROVE  Textual(AnnotationTargets(d))
<1> DEFINE place(n) == SourceForRange(d, d.place, n.from, n.to)
           slots == {i \in DOMAIN d.notes : d.notes[i].type \in DOMAIN Structural}
           marked == Picked(d.notes, slots)
           notes == [i \in DOMAIN d.notes |->
             Region("normalization_annotation", <<d.notes[i].type>>, place(d.notes[i]), 0, d.notes[i].from, "")]
           regions == [i \in DOMAIN marked |->
             Region(Structural[marked[i].type], SubSeq(d.norm, marked[i].from + 1, marked[i].to),
                    place(marked[i]), 0, marked[i].from, "")]
<1>1. AnnotationTargets(d) = notes \o regions
  BY DEF AnnotationTargets, Those
<1>2. IsList(d.notes) /\ IsList(d.norm)
  BY StaticAssumption
<1>3. /\ IsList(marked)
      /\ \A x : x \in ToSet(marked) <=> \E i \in slots : d.notes[i] = x
  <2>1. slots \in SUBSET DOMAIN d.notes
    OBVIOUS
  <2> HIDE DEF slots
  <2> QED
    BY <1>2, <2>1, PickedIsList
<1>4. \A x \in ToSet(marked) : x \in ToSet(d.notes)
  BY <1>2, <1>3, ListFacts
<1>5. Textual(notes)
  <2>1. PICK n \in Nat : n = Len(d.notes) /\ DOMAIN d.notes = 1..n
    BY <1>2, ListFacts
  <2>2. Fills(notes, n)
    BY <2>1 DEF Fills
  <2>3. ASSUME NEW i \in 1..n
        PROVE  IsList(notes[i].text)
    <3>1. notes[i].text = <<d.notes[i].type>>
      BY <2>1 DEF Region
    <3> QED
      BY <3>1, OneIsList
  <2> HIDE DEF notes
  <2> QED
    BY <2>2, <2>3, RegionsAreLists DEF Textual
<1> HIDE DEF marked
<1>6. Textual(regions)
  <2>1. PICK n \in Nat : n = Len(marked) /\ DOMAIN marked = 1..n
    BY <1>3, ListFacts
  <2>2. Fills(regions, n)
    BY <2>1 DEF Fills
  <2>3. ASSUME NEW i \in 1..n
        PROVE  IsList(regions[i].text)
    <3>0. PICK n1 : n1 = marked[i]
      OBVIOUS
    <3>1. regions[i].text = SubSeq(d.norm, n1.from + 1, n1.to)
      BY <2>1, <3>0 DEF Region
    <3>2. n1 \in ToSet(d.notes)
      BY <1>3, <1>4, <2>1, <3>0, ListFacts
    <3>3. n1.from \in Nat /\ n1.to \in n1.from..Len(d.norm)
      BY <3>2, StaticAssumption
    <3>4. n1.to \in Nat /\ n1.to <= Len(d.norm)
      BY <1>2, <3>3, ListFacts
    <3>5. IsList(SubSeq(d.norm, n1.from + 1, n1.to))
      BY <1>2, <3>3, <3>4, CutIsList
    <3> QED
      BY <3>1, <3>5
  <2> HIDE DEF regions
  <2> QED
    BY <2>2, <2>3, RegionsAreLists DEF Textual
<1> HIDE DEF notes, regions
<1> QED
  BY <1>1, <1>5, <1>6, TextualJoin

(* Urls have a text. *)
LEMMA UrlsAreTargets ==
    ASSUME NEW d \in ScanDocs
    PROVE  Textual(UrlTargets(d))
<1> DEFINE spots == {i \in DOMAIN d.norm : d.norm[i] \in UrlSymbols}
           at == InTurn(spots)
           urls == [i \in DOMAIN at |-> Region("url", <<d.norm[at[i]]>>, d.place, 0, at[i] - 1, "")]
<1>1. UrlTargets(d) = urls
  BY DEF UrlTargets
<1>2. IsList(d.norm)
  BY StaticAssumption
<1>3. IsList(at)
  <2>1. 1 \in Int /\ Len(d.norm) \in Int /\ spots \in SUBSET (1..Len(d.norm))
    BY <1>2, ListFacts
  <2> HIDE DEF spots
  <2> QED
    BY <2>1, PlacesInTurn
<1> HIDE DEF at
<1>4. PICK n \in Nat : n = Len(at) /\ DOMAIN at = 1..n
  BY <1>3, ListFacts
<1>5. Fills(urls, n)
  BY <1>4 DEF Fills
<1>6. ASSUME NEW i \in 1..n
      PROVE  IsList(urls[i].text)
  <2>1. urls[i].text = <<d.norm[at[i]]>>
    BY <1>4 DEF Region
  <2> QED
    BY <2>1, OneIsList
<1> HIDE DEF urls
<1> QED
  BY <1>1, <1>5, <1>6, RegionsAreLists DEF Textual

(* All of the targets of a document are texts, the chunks' among them. *)
LEMMA TargetsAreTexts ==
    ASSUME NEW d \in ScanDocs, NEW limits \in ScanLimits
    PROVE  /\ Textual(Targets(d, limits))
           /\ \A i \in DOMAIN d.chunks :
                Region("chunk", SubSeq(d.norm, d.chunks[i].from + 1, d.chunks[i].to),
                       SourceForRange(d, d.place, d.chunks[i].from, d.chunks[i].to), i, d.chunks[i].from, "")
                  \in ToSet(Targets(d, limits))
<1>1. IsList(d.raw) /\ IsList(d.norm) /\ IsList(d.title) /\ IsList(d.fields) /\ IsList(d.notices)
  BY StaticAssumption
<1>2. limits.fields \in Nat /\ \A f \in ToSet(d.fields) : IsList(f.text)
  BY StaticAssumption
<1> DEFINE raw == Region("raw_document", d.raw, d.place, 0, 0, "")
           norm == Region("normalized_document", d.norm, d.place, 0, 0, "")
           texts == <<raw, norm>>
           title == IF d.title = <<>> THEN <<>> ELSE <<Region("title", d.title, d.place, 0, 0, "title")>>
           fields == Take(d.fields, limits.fields)
           metadata == [i \in DOMAIN fields |-> Region("metadata", fields[i].text, d.place, 0, 0, fields[i].name)]
           notices == [i \in DOMAIN d.notices |->
             Region("parser_warning", <<d.notices[i].code>>, [d.place EXCEPT !.page = d.notices[i].page], 0, 0, "")]
<1>3. Targets(d, limits) =
        texts \o title \o ChunkTargets(d) \o (metadata \o notices \o AnnotationTargets(d) \o UrlTargets(d))
  BY DEF Targets
<1>4. Textual(texts)
  <2>1. Fills(texts, 2) /\ 2 \in Nat
    BY DEF Fills
  <2>2. \A i \in 1..2 : IsList(texts[i].text)
    <3>1. texts[1].text = d.raw /\ texts[2].text = d.norm
      BY DEF Region
    <3>2. IsList(texts[1].text) /\ IsList(texts[2].text)
      BY <1>1, <3>1
    <3>3. \A i \in 1..2 : i = 1 \/ i = 2
      OBVIOUS
    <3> HIDE DEF texts
    <3> QED
      BY <3>2, <3>3
  <2> HIDE DEF texts
  <2> QED
    BY <2>1, <2>2, RegionsAreLists DEF Textual
<1>5. Textual(title)
  <2>1. Textual(<<>>)
    BY NoneIsList DEF Textual
  <2>2. Textual(<<Region("title", d.title, d.place, 0, 0, "title")>>)
    <3>1. PICK r : r = Region("title", d.title, d.place, 0, 0, "title")
      OBVIOUS
    <3>2. r.text = d.title
      BY <3>1 DEF Region
    <3>3. Textual(<<r>>)
      BY <1>1, <3>2, OneIsList DEF Textual
    <3> QED
      BY <3>1, <3>3
  <2> QED
    BY <2>1, <2>2
<1>6. IsList(fields) /\ \A f \in ToSet(fields) : IsList(f.text)
  <2>1. IsList(fields) /\ \A x : x \in ToSet(fields) => x \in ToSet(d.fields)
    BY <1>1, <1>2, TakenIsList
  <2> QED
    BY <1>2, <2>1
<1> HIDE DEF fields
<1>7. Textual(metadata)
  <2>1. PICK n \in Nat : n = Len(fields) /\ DOMAIN fields = 1..n
    BY <1>6, ListFacts
  <2>2. Fills(metadata, n)
    BY <2>1 DEF Fills
  <2>3. ASSUME NEW i \in 1..n
        PROVE  IsList(metadata[i].text)
    <3>1. metadata[i].text = fields[i].text
      BY <2>1 DEF Region
    <3>2. fields[i] \in ToSet(fields)
      BY <1>6, <2>1, ListFacts
    <3> QED
      BY <1>6, <3>1, <3>2
  <2> HIDE DEF metadata
  <2> QED
    BY <2>2, <2>3, RegionsAreLists DEF Textual
<1>8. Textual(notices)
  <2>1. PICK n \in Nat : n = Len(d.notices) /\ DOMAIN d.notices = 1..n
    BY <1>1, ListFacts
  <2>2. Fills(notices, n)
    BY <2>1 DEF Fills
  <2>3. ASSUME NEW i \in 1..n
        PROVE  IsList(notices[i].text)
    <3>1. notices[i].text = <<d.notices[i].code>>
      BY <2>1 DEF Region
    <3> QED
      BY <3>1, OneIsList
  <2> HIDE DEF notices
  <2> QED
    BY <2>2, <2>3, RegionsAreLists DEF Textual
<1>9. /\ Textual(ChunkTargets(d)) /\ Textual(AnnotationTargets(d)) /\ Textual(UrlTargets(d))
  BY ChunksAreTargets, AnnotationsAreTargets, UrlsAreTargets
<1>10. PICK chunks : chunks = ChunkTargets(d)
  OBVIOUS
<1> HIDE DEF texts, title, metadata, notices
<1>11. Textual(texts \o title)
  BY <1>4, <1>5, TextualJoin
<1>12. Textual(texts \o title \o chunks) /\ \A x \in ToSet(chunks) : x \in ToSet(texts \o title \o chunks)
  BY <1>9, <1>10, <1>11, TextualJoin
<1>13. PICK some : some = texts \o title \o chunks
  OBVIOUS
<1>14. Textual(metadata \o notices)
  BY <1>7, <1>8, TextualJoin
<1>15. Textual(metadata \o notices \o AnnotationTargets(d))
  BY <1>9, <1>14, TextualJoin
<1>16. Textual(metadata \o notices \o AnnotationTargets(d) \o UrlTargets(d))
  BY <1>9, <1>15, TextualJoin
<1>17. PICK others : others = metadata \o notices \o AnnotationTargets(d) \o UrlTargets(d)
  OBVIOUS
<1>18. Textual(some \o others) /\ \A x \in ToSet(some) : x \in ToSet(some \o others)
  BY <1>12, <1>13, <1>16, <1>17, TextualJoin
<1>19. Targets(d, limits) = some \o others
  BY <1>3, <1>10, <1>13, <1>17
<1>20. \A x \in ToSet(ChunkTargets(d)) : x \in ToSet(Targets(d, limits))
  BY <1>10, <1>12, <1>13, <1>18, <1>19
<1> QED
  BY <1>18, <1>19, <1>20, ChunksAreTargets

(* Every match that its context allows is a finding, and nothing else is.  *)
LEMMA FindingsAtAre ==
    ASSUME NEW d \in ScanDocs, NEW limits \in ScanLimits, NEW rule, NEW t, IsList(t.text),
           NEW m, m.type \in MatcherTypes, IsList(m.patterns), \A p \in ToSet(m.patterns) : IsList(p)
    PROVE  /\ IsList(FindingsAt(d, limits, rule, t, m))
           /\ \A f : f \in ToSet(FindingsAt(d, limits, rule, t, m)) <=>
                \E h \in ToSet(Matches(m, t, limits)) :
                  ContextAllows(rule, t, h) /\ f = FindingOf(d, limits, rule, t, m, h)
<1>1. PICK all : all = Matches(m, t, limits)
  OBVIOUS
<1>2. IsList(all)
  BY <1>1, StaticAssumption, MatchesAreList
<1> DEFINE allowed == {i \in DOMAIN all : ContextAllows(rule, t, all[i])}
           hits == Picked(all, allowed)
           made == [i \in DOMAIN hits |-> FindingOf(d, limits, rule, t, m, hits[i])]
<1>3. FindingsAt(d, limits, rule, t, m) = made
  BY <1>1 DEF FindingsAt, Those
<1>4. IsList(hits) /\ \A x : x \in ToSet(hits) <=> \E i \in allowed : all[i] = x
  <2>1. allowed \in SUBSET DOMAIN all
    OBVIOUS
  <2> HIDE DEF allowed
  <2> QED
    BY <1>2, <2>1, PickedIsList
<1>5. \A x : x \in ToSet(hits) <=> x \in ToSet(all) /\ ContextAllows(rule, t, x)
  <2>1. DOMAIN all = 1..Len(all) /\ \A x : x \in ToSet(all) <=> \E i \in 1..Len(all) : all[i] = x
    BY <1>2, ListFacts
  <2> QED
    BY <1>4, <2>1
<1> HIDE DEF hits
<1>6. PICK n \in Nat : n = Len(hits) /\ DOMAIN hits = 1..n
  BY <1>4, ListFacts
<1>7. Fills(made, n) /\ \A i \in 1..n : made[i] = FindingOf(d, limits, rule, t, m, hits[i])
  BY <1>6 DEF Fills
<1> HIDE DEF made
<1>8. IsList(made) /\ Len(made) = n
  BY <1>7, FilledIsList
<1>9. \A f : f \in ToSet(made) <=> \E i \in 1..n : f = FindingOf(d, limits, rule, t, m, hits[i])
  <2>1. \A f : f \in ToSet(made) <=> \E i \in 1..Len(made) : made[i] = f
    BY <1>8, ListFacts
  <2> QED
    BY <1>7, <1>8, <2>1
<1>10. \A x : x \in ToSet(hits) <=> \E i \in 1..n : hits[i] = x
  BY <1>4, <1>6, ListFacts
<1>11. \A f : f \in ToSet(made) <=> \E h \in ToSet(hits) : f = FindingOf(d, limits, rule, t, m, h)
  BY <1>9, <1>10
<1> QED
  BY <1>1, <1>3, <1>5, <1>8, <1>11

RuleIsSound(rule) ==
    /\ IsList(rule.matchers)
    /\ \A m \in ToSet(rule.matchers) :
         m.type \in MatcherTypes /\ IsList(m.patterns) /\ \A p \in ToSet(m.patterns) : IsList(p) /\ p # <<>>

(* The rules of a library are of that form. *)
LEMMA RulesAreSound ==
    ASSUME NEW lib \in Libraries
    PROVE  /\ IsList(lib) /\ \A i, j \in DOMAIN lib : lib[i].id = lib[j].id => i = j
           /\ \A r \in ToSet(lib) : RuleIsSound(r)
BY StaticAssumption DEF RuleIsSound

(* A rule is tried on a text with each of its matchers. *)
LEMMA FindingsInAre ==
    ASSUME NEW d \in ScanDocs, NEW limits \in ScanLimits, NEW rule, RuleIsSound(rule), NEW t, IsList(t.text)
    PROVE  /\ IsList(FindingsIn(d, limits, rule, t))
           /\ \A f : f \in ToSet(FindingsIn(d, limits, rule, t)) <=>
                \E m \in ToSet(rule.matchers) : f \in ToSet(FindingsAt(d, limits, rule, t, m))
<1> DEFINE ss == [i \in DOMAIN rule.matchers |-> FindingsAt(d, limits, rule, t, rule.matchers[i])]
<1>1. PICK n \in Nat : n = Len(rule.matchers) /\ DOMAIN rule.matchers = 1..n
  BY ListFacts DEF RuleIsSound
<1>2. \A x : x \in ToSet(rule.matchers) <=> \E i \in 1..n : rule.matchers[i] = x
  BY <1>1, ListFacts DEF RuleIsSound
<1>3. \A m \in ToSet(rule.matchers) : IsList(FindingsAt(d, limits, rule, t, m))
  BY FindingsAtAre DEF RuleIsSound
<1>4. FindingsIn(d, limits, rule, t) = Chained(ss)
  BY DEF FindingsIn
<1>5. Fills(ss, n) /\ DOMAIN ss = 1..n /\ \A i \in 1..n : ss[i] = FindingsAt(d, limits, rule, t, rule.matchers[i])
  BY <1>1 DEF Fills
<1> HIDE DEF ss
<1>6. IsList(ss) /\ \A i \in DOMAIN ss : IsList(ss[i])
  BY <1>2, <1>3, <1>5, FilledIsList
<1>7. /\ IsList(Chained(ss))
      /\ \A x : x \in ToSet(Chained(ss)) <=> \E i \in DOMAIN ss : x \in ToSet(ss[i])
  BY <1>6, ChainedKeeps
<1> QED
  BY <1>2, <1>4, <1>5, <1>7

(* A rule is tried on each of the texts that it applies to. *)
LEMMA CandidatesAre ==
    ASSUME NEW d \in ScanDocs, NEW limits \in ScanLimits, NEW rule, RuleIsSound(rule)
    PROVE  /\ IsList(Candidates(d, limits, rule))
           /\ \A f : f \in ToSet(Candidates(d, limits, rule)) <=>
                \E t \in ToSet(Targets(d, limits)) :
                  Applies(d, rule, t) /\ f \in ToSet(FindingsIn(d, limits, rule, t))
<1>1. PICK all : all = Targets(d, limits)
  OBVIOUS
<1>2. IsList(all) /\ \A t \in ToSet(all) : IsList(t.text)
  BY <1>1, TargetsAreTexts DEF Textual
<1> DEFINE spots == {i \in DOMAIN all : Applies(d, rule, all[i])}
           regions == Picked(all, spots)
           ss == [i \in DOMAIN regions |-> FindingsIn(d, limits, rule, regions[i])]
<1>3. Candidates(d, limits, rule) = Chained(ss)
  BY <1>1 DEF Candidates, Those
<1>4. IsList(regions) /\ \A x : x \in ToSet(regions) <=> \E i \in spots : all[i] = x
  <2>1. spots \in SUBSET DOMAIN all
    OBVIOUS
  <2> HIDE DEF spots
  <2> QED
    BY <1>2, <2>1, PickedIsList
<1>5. \A x : x \in ToSet(regions) <=> x \in ToSet(all) /\ Applies(d, rule, x)
  <2>1. DOMAIN all = 1..Len(all) /\ \A x : x \in ToSet(all) <=> \E i \in 1..Len(all) : all[i] = x
    BY <1>2, ListFacts
  <2> QED
    BY <1>4, <2>1
<1> HIDE DEF regions
<1>6. PICK n \in Nat : n = Len(regions) /\ DOMAIN regions = 1..n
  BY <1>4, ListFacts
<1>7. \A x : x \in ToSet(regions) <=> \E i \in 1..n : regions[i] = x
  BY <1>4, <1>6, ListFacts
<1>8. Fills(ss, n) /\ DOMAIN ss = 1..n /\ \A i \in 1..n : ss[i] = FindingsIn(d, limits, rule, regions[i])
  BY <1>6 DEF Fills
<1>9. \A t \in ToSet(regions) : IsList(FindingsIn(d, limits, rule, t))
  BY <1>2, <1>5, FindingsInAre
<1> HIDE DEF ss
<1>10. IsList(ss) /\ \A i \in DOMAIN ss : IsList(ss[i])
  BY <1>7, <1>8, <1>9, FilledIsList
<1>11. /\ IsList(Chained(ss))
       /\ \A x : x \in ToSet(Chained(ss)) <=> \E i \in DOMAIN ss : x \in ToSet(ss[i])
  BY <1>10, ChainedKeeps
<1>12. \A f : f \in ToSet(Chained(ss)) <=> \E t \in ToSet(regions) : f \in ToSet(FindingsIn(d, limits, rule, t))
  BY <1>7, <1>8, <1>11
<1> QED
  BY <1>1, <1>3, <1>5, <1>11, <1>12

(* A finding names its rule, and shows no secret that its rule looks for.  *)
LEMMA CandidatesAreSafe ==
    ASSUME NEW d \in ScanDocs, NEW limits \in ScanLimits, NEW rule, RuleIsSound(rule),
           NEW f \in ToSet(Candidates(d, limits, rule))
    PROVE  f.rule = rule.id /\ (f.type = "secret_pattern" => f.shown \cap Symbols.secrets = {})
<1>1. PICK t \in ToSet(Targets(d, limits)) : f \in ToSet(FindingsIn(d, limits, rule, t))
  BY CandidatesAre
<1>2. IsList(t.text)
  BY TargetsAreTexts DEF Textual
<1>3. PICK m \in ToSet(rule.matchers) : f \in ToSet(FindingsAt(d, limits, rule, t, m))
  BY <1>1, <1>2, FindingsInAre
<1>4. PICK h : f = FindingOf(d, limits, rule, t, m, h)
  <2>1. m.type \in MatcherTypes /\ IsList(m.patterns) /\ \A p \in ToSet(m.patterns) : IsList(p)
    BY DEF RuleIsSound
  <2> QED
    BY <1>2, <1>3, <2>1, FindingsAtAre
<1>5. PICK near : f.rule = rule.id /\ f.type = m.type /\ f.shown = SafeEvidence(near, m.type)
  BY <1>4 DEF FindingOf
<1> QED
  BY <1>5 DEF SafeEvidence

(* The values of a function at finitely many places are finitely many. *)
LEMMA ImageIsFinite ==
    ASSUME NEW S, IsFiniteSet(S), NEW f, DOMAIN f = S, f = [x \in S |-> f[x]], NEW T, \A y : y \in T <=> \E x \in S : f[x] = y
    PROVE  IsFiniteSet(T)
<1>1. f \in Surjection(S, T)
  BY DEF Surjection
<1> QED
  BY <1>1, FS_Surjection

(* The lowest and the highest of finitely many lines bound them all. *)
LEMMA LinesAreBounded ==
    ASSUME NEW S, IsFiniteSet(S), Numbers(S), NEW other, NEW x \in S, x # 0
    PROVE  /\ Lowest(S, other) \in Int /\ Lowest(S, other) <= x
           /\ Highest(S, other) \in Int /\ x <= Highest(S, other)
<1> DEFINE K == S \ {0}
<1>1. IsFiniteSet(K) /\ Numbers(K) /\ x \in K /\ K # {}
  BY FS_Subset DEF Numbers
<1> HIDE DEF K
<1>0. PICK order : order = InTurn(K)
  OBVIOUS
<1>01. /\ order \in Seq(K)
       /\ \A y \in K : \E k \in 1..Len(order) : order[k] = y
       /\ \A k, l \in 1..Len(order) : k < l => order[k] < order[l]
  BY <1>0, <1>1, InTurnKeeps
<1>02. PICK n \in Nat : n = Len(order)
  BY <1>01
<1>2. /\ order \in Seq(K) /\ Len(order) = n
      /\ \A y \in K : \E k \in 1..n : order[k] = y
      /\ \A k, l \in 1..n : k < l => order[k] < order[l]
  BY <1>01, <1>02
<1>3. \A k \in 1..n : order[k] \in K /\ order[k] \in Int
  BY <1>1, <1>2 DEF Numbers
<1>4. 1 \in 1..n /\ n \in 1..n
  BY <1>1, <1>2
<1>5. \A k \in 1..n : order[1] <= order[k] /\ order[k] <= order[n]
  <2>1. ASSUME NEW k \in 1..n
        PROVE  order[1] <= order[k] /\ order[k] <= order[n]
    <3>1. k = 1 \/ 1 < k
      OBVIOUS
    <3>2. k = n \/ k < n
      OBVIOUS
    <3> QED
      BY <1>2, <1>3, <1>4, <3>1, <3>2
  <2> QED
    BY <2>1
<1>6. \E a \in K : \A y \in K : a <= y
  BY <1>2, <1>3, <1>4, <1>5
<1>7. \E b \in K : \A y \in K : b >= y
  <2>1. \A y \in K : order[n] >= y
    BY <1>2, <1>3, <1>4, <1>5
  <2> QED
    BY <1>3, <1>4, <2>1
<1>8. PICK a \in K : a = (CHOOSE z \in K : \A y \in K : z <= y) /\ \A y \in K : a <= y
  BY <1>6
<1>9. PICK b \in K : b = (CHOOSE z \in K : \A y \in K : z >= y) /\ \A y \in K : b >= y
  BY <1>7
<1>10. Known(S) = K
  BY DEF Known, K
<1>11. Lowest(S, other) = a /\ Highest(S, other) = b
  BY <1>1, <1>8, <1>9, <1>10 DEF Lowest, Highest
<1>12. a \in Int /\ b \in Int /\ x \in Int
  BY <1>1 DEF Numbers
<1> QED
  BY <1>1, <1>8, <1>9, <1>11, <1>12

(* The place of a range has the lines of the segments that it meets. *)
LEMMA PlacesAreTrue ==
    ASSUME NEW d \in ScanDocs, NEW fallback, NEW start, NEW end,
           NEW s \in ToSet(d.segments), start < s.to, s.from < end, s.first # 0
    PROVE  /\ SourceForRange(d, fallback, start, end).first <= s.first
           /\ s.first <= SourceForRange(d, fallback, start, end).last
<1> DEFINE met == {z \in ToSet(d.segments) : start < z.to /\ z.from < end}
           firsts == {z.first : z \in met}
           lasts == {z.last : z \in met}
<1>1. IsList(d.segments)
  BY StaticAssumption
<1>2. \A z \in ToSet(d.segments) : z.first \in Nat /\ z.last \in Nat /\ z.first <= z.last
  BY StaticAssumption
<1>3. IsFiniteSet(ToSet(d.segments))
  <2>1. PICK n \in Nat : n = Len(d.segments) /\ DOMAIN d.segments = 1..n
    BY <1>1, ListFacts
  <2>2. IsFiniteSet(1..n)
    BY FS_Interval
  <2>3. d.segments = [i \in 1..n |-> d.segments[i]]
    BY <1>1, <2>1 DEF IsList
  <2>4. \A y : y \in ToSet(d.segments) <=> \E i \in 1..n : d.segments[i] = y
    BY <1>1, <2>1, ListFacts
  <2>5. PICK f, T : f = d.segments /\ T = ToSet(d.segments)
    OBVIOUS
  <2>6. DOMAIN f = 1..n /\ f = [i \in 1..n |-> f[i]] /\ \A y : y \in T <=> \E i \in 1..n : f[i] = y
    BY <2>1, <2>3, <2>4, <2>5
  <2>7. IsFiniteSet(T)
    BY <2>2, <2>6, ImageIsFinite
  <2> QED
    BY <2>5, <2>7
<1>4. IsFiniteSet(met)
  BY <1>3, FS_Subset
<1>5. IsFiniteSet(firsts) /\ IsFiniteSet(lasts)
  <2> HIDE DEF met
  <2> DEFINE f == [z \in met |-> z.first]
             g == [z \in met |-> z.last]
  <2>1. DOMAIN f = met /\ f = [x \in met |-> f[x]] /\ \A y : y \in firsts <=> \E x \in met : f[x] = y
    OBVIOUS
  <2>2. DOMAIN g = met /\ g = [x \in met |-> g[x]] /\ \A y : y \in lasts <=> \E x \in met : g[x] = y
    OBVIOUS
  <2> HIDE DEF f, g, firsts, lasts
  <2> QED
    BY <1>4, <2>1, <2>2, ImageIsFinite
<1>6. s \in met /\ s.first \in firsts /\ s.last \in lasts
  OBVIOUS
<1>7. Numbers(firsts) /\ Numbers(lasts)
  BY <1>2 DEF Numbers
<1>8. s.first \in Nat /\ s.last \in Nat /\ s.first <= s.last /\ s.last # 0
  BY <1>2
<1>9. /\ SourceForRange(d, fallback, start, end).first = Lowest(firsts, fallback.first)
      /\ SourceForRange(d, fallback, start, end).last = Highest(lasts, fallback.last)
  BY <1>6 DEF SourceForRange
<1> HIDE DEF met, firsts, lasts
<1>10. Lowest(firsts, fallback.first) <= s.first
  BY <1>5, <1>6, <1>7, LinesAreBounded
<1>11. Highest(lasts, fallback.last) \in Int /\ s.last <= Highest(lasts, fallback.last)
  BY <1>5, <1>6, <1>7, <1>8, LinesAreBounded
<1> QED
  BY <1>8, <1>9, <1>10, <1>11

(* Where a phrase of the text stands in a chunk, it occurs in that chunk.  *)
LEMMA PhraseInChunk ==
    ASSUME NEW text, IsList(text), NEW pattern, IsList(pattern), NEW a \in Nat, NEW b \in Nat, b <= Len(text),
           NEW p \in Occurs(text, pattern), a <= p, p + Len(pattern) <= b
    PROVE  p - a \in Occurs(SubSeq(text, a + 1, b), pattern)
<1>1. PICK n \in Nat, k \in Nat : n = Len(text) /\ k = Len(pattern)
  BY ListFacts
<1>2. p \in 0..n - k /\ SubSeq(text, p + 1, p + k) = pattern
  BY <1>1 DEF Occurs
<1>3. PICK c : c = SubSeq(text, a + 1, b)
  OBVIOUS
<1>4. IsList(c) /\ Len(c) = b - a /\ \A i \in 1..b - a : c[i] = text[a + i]
  <2>1. a <= b
    BY <1>1, <1>2
  <2> QED
    BY <1>3, <2>1, CutIsList
<1>5. p - a \in 0..Len(c) - k
  BY <1>1, <1>2, <1>4
<1>6. SubSeq(c, (p - a) + 1, (p - a) + k) = pattern
  <2>1. PICK q \in Nat : q = p - a
    BY <1>5
  <2>2. /\ IsList(SubSeq(c, q + 1, q + k)) /\ Len(SubSeq(c, q + 1, q + k)) = k
        /\ \A i \in 1..k : SubSeq(c, q + 1, q + k)[i] = c[q + i]
    <3>1. PICK e \in Nat : e = q + k
      OBVIOUS
    <3>2. e <= Len(c) /\ q <= e /\ e - q = k
      BY <1>1, <1>2, <1>4, <2>1, <3>1
    <3>3. /\ IsList(SubSeq(c, q + 1, e)) /\ Len(SubSeq(c, q + 1, e)) = e - q
          /\ \A i \in 1..e - q : SubSeq(c, q + 1, e)[i] = c[q + i]
      BY <1>4, <3>2, CutIsList
    <3> QED
      BY <3>1, <3>2, <3>3
  <2>3. \A i \in 1..k : pattern[i] = text[p + i]
    <3>1. PICK e \in Nat : e = p + k
      BY <1>2
    <3>2. e <= Len(text) /\ p \in Nat /\ e - p = k
      BY <1>1, <1>2, <3>1
    <3>3. \A i \in 1..e - p : SubSeq(text, p + 1, e)[i] = text[p + i]
      BY <3>2, CutIsList
    <3> QED
      BY <1>2, <3>1, <3>2, <3>3
  <2>4. \A i \in 1..k : c[q + i] = text[p + i]
    <3>1. ASSUME NEW i \in 1..k
          PROVE  c[q + i] = text[p + i]
      <4>1. q + i \in 1..b - a /\ a + (q + i) = p + i
        BY <1>1, <1>2, <2>1
      <4> QED
        BY <1>4, <4>1
    <3> QED
      BY <3>1
  <2>5. \A i \in 1..k : SubSeq(c, q + 1, q + k)[i] = pattern[i]
    BY <2>2, <2>3, <2>4
  <2>6. SubSeq(c, q + 1, q + k) = pattern
    <3>1. PICK z : z = SubSeq(c, q + 1, q + k)
      OBVIOUS
    <3>2. z \in Seq(ToSet(z)) /\ pattern \in Seq(ToSet(pattern)) /\ Len(z) = k /\ Len(pattern) = k
      BY <1>1, <2>2, <3>1 DEF IsList
    <3>3. z \in Seq(ToSet(z) \cup ToSet(pattern)) /\ pattern \in Seq(ToSet(z) \cup ToSet(pattern))
      BY <3>2
    <3> QED
      BY <2>5, <3>1, <3>2, <3>3, SeqEqual
  <2> QED
    BY <2>1, <2>6
<1> QED
  BY <1>1, <1>3, <1>5, <1>6 DEF Occurs

(* What a phrase of a rule says in a chunk, in a context that allows it    *)
(* and not across an earlier one, is a finding of that chunk, at its       *)
(* lines.                                                                  *)
LEMMA ChunksAreFound ==
    ASSUME NEW d \in ScanDocs, NEW limits \in ScanLimits, NEW rule, RuleIsSound(rule), "chunk" \in rule.scope,
           NEW i \in DOMAIN d.chunks, NEW pattern \in Phrases(rule), NEW p \in Occurs(d.norm, pattern),
           d.chunks[i].from <= p, p + Len(pattern) <= d.chunks[i].to,
           Unreached(SubSeq(d.norm, d.chunks[i].from + 1, d.chunks[i].to), pattern, p - d.chunks[i].from),
           ContextAllows(rule, [text |-> SubSeq(d.norm, d.chunks[i].from + 1, d.chunks[i].to)],
                         Hit(p - d.chunks[i].from, p + Len(pattern) - d.chunks[i].from))
    PROVE  \E f \in ToSet(Candidates(d, limits, rule)) :
             /\ f.rule = rule.id /\ f.chunk = i /\ f.from = p
             /\ \A s \in ToSet(d.segments) :
                  s.from <= p /\ p < s.to /\ s.first # 0 => f.place.first <= s.first /\ s.first <= f.place.last
<1>1. PICK c : c = d.chunks[i]
  OBVIOUS
<1>2. /\ IsList(d.norm) /\ IsList(d.chunks) /\ limits.input \in Nat
      /\ \A x \in ToSet(d.chunks) : x.from \in Nat /\ x.to \in x.from..Len(d.norm)
  BY StaticAssumption
<1>3. PICK a \in Nat, b \in Nat : a = c.from /\ b = c.to /\ b <= Len(d.norm)
  <2>1. c \in ToSet(d.chunks)
    BY <1>1, <1>2, ListFacts
  <2>2. Len(d.norm) \in Nat
    BY <1>2, ListFacts
  <2> QED
    BY <1>2, <2>1, <2>2
<1>4. PICK m \in ToSet(rule.matchers) : m.type = "substring_ci" /\ pattern \in ToSet(m.patterns)
  BY DEF Phrases
<1>5. /\ m.type \in MatcherTypes /\ IsList(m.patterns) /\ \A x \in ToSet(m.patterns) : IsList(x)
      /\ IsList(pattern) /\ pattern # <<>>
  BY <1>4 DEF RuleIsSound
<1>6. PICK k \in Nat : k = Len(pattern) /\ k # 0
  <2>1. pattern \in Seq(ToSet(pattern))
    BY <1>5 DEF IsList
  <2> QED
    BY <1>5, <2>1, EmptySeq
<1>7. PICK text : text = SubSeq(d.norm, a + 1, b)
  OBVIOUS
<1>8. PICK t : /\ t = Region("chunk", text, SourceForRange(d, d.place, a, b), i, a, "")
               /\ t \in ToSet(Targets(d, limits))
  BY <1>1, <1>3, <1>7, TargetsAreTexts
<1>9. t.scope = "chunk" /\ t.text = text /\ t.chunk = i /\ t.offset = a
  BY <1>8 DEF Region
<1>10. IsList(text)
  BY <1>8, <1>9, TargetsAreTexts DEF Textual
<1>11. Applies(d, rule, t)
  BY <1>9 DEF Applies
<1>12. PICK q \in Int : q = p - a /\ a + q = p /\ p + k - a = q + k /\ p \in Int /\ a + (q + k) = p + k
  <2>1. p \in Int
    BY <1>2, <1>5, ListFacts DEF Occurs
  <2> QED
    BY <2>1
<1>13. q \in Occurs(text, pattern)
  BY <1>1, <1>2, <1>3, <1>5, <1>7, <1>12, PhraseInChunk
<1>14. PICK h : h = Hit(q, q + k) /\ h \in ToSet(Matches(m, t, limits))
  <2>1. Unreached(text, pattern, q)
    BY <1>1, <1>3, <1>7, <1>12
  <2> QED
    BY <1>2, <1>4, <1>5, <1>6, <1>9, <1>10, <1>13, <2>1, MatchesAreList
<1>15. ContextAllows(rule, t, h)
  <2>1. ContextAllows(rule, [text |-> text], h)
    BY <1>1, <1>3, <1>6, <1>7, <1>12, <1>14
  <2> QED
    BY <1>9, <2>1 DEF ContextAllows
<1>16. PICK f : f = FindingOf(d, limits, rule, t, m, h)
  OBVIOUS
<1>17. f \in ToSet(FindingsAt(d, limits, rule, t, m))
  BY <1>5, <1>9, <1>10, <1>14, <1>15, <1>16, FindingsAtAre
<1>18. f \in ToSet(Candidates(d, limits, rule))
  <2>1. f \in ToSet(FindingsIn(d, limits, rule, t))
    BY <1>9, <1>10, <1>17, FindingsInAre
  <2> QED
    BY <1>8, <1>11, <2>1, CandidatesAre
<1>19. h.from = q /\ h.to = q + k
  BY <1>14 DEF Hit
<1>20. f.rule = rule.id /\ f.chunk = i /\ f.from = p /\ f.place = SourceForRange(d, t.place, p, p + k)
  BY <1>9, <1>12, <1>16, <1>19 DEF FindingOf
<1>21. ASSUME NEW s \in ToSet(d.segments), s.from <= p, p < s.to, s.first # 0
       PROVE  f.place.first <= s.first /\ s.first <= f.place.last
  <2>1. s.from \in Nat
    BY StaticAssumption
  <2>2. s.from < p + k
    BY <1>6, <1>12, <1>21, <2>1
  <2> QED
    BY <1>20, <1>21, <2>2, PlacesAreTrue
<1> QED
  BY <1>18, <1>20, <1>21

-------------------------------------------------------------------------------
(* The scan as it goes over the rules. *)

(* A list is its first member and the others. *)
LEMMA HeadAndTail ==
    ASSUME NEW s, IsList(s), s # <<>>
    PROVE  /\ Len(s) \in Nat \ {0} /\ Head(s) = s[1] /\ Head(s) \in ToSet(s)
           /\ IsList(Tail(s)) /\ Len(Tail(s)) = Len(s) - 1
           /\ \A i \in 1..Len(s) - 1 : Tail(s)[i] = s[i + 1]
           /\ \A x : x \in ToSet(s) <=> x = Head(s) \/ x \in ToSet(Tail(s))
<1>1. s \in Seq(ToSet(s))
  BY DEF IsList
<1>2. PICK n \in Nat : n = Len(s) /\ n # 0
  BY <1>1, EmptySeq
<1>3. Head(s) = s[1] /\ 1 \in 1..n
  BY <1>1, <1>2
<1>4. Head(s) \in ToSet(s)
  BY <1>2, <1>3, ListFacts
<1>5. PICK t : t = Tail(s)
  OBVIOUS
<1>6. t \in Seq(ToSet(s)) /\ Len(t) = n - 1 /\ \A i \in 1..n - 1 : t[i] = s[i + 1]
  BY <1>1, <1>2, <1>5
<1>7. IsList(t)
  BY <1>6, SeqIsList
<1>8. /\ \A x : x \in ToSet(s) <=> \E i \in 1..n : s[i] = x
      /\ \A x : x \in ToSet(t) <=> \E i \in 1..n - 1 : t[i] = x
  BY <1>2, <1>6, <1>7, ListFacts
<1>9. ASSUME NEW x, x \in ToSet(s)
      PROVE  x = Head(s) \/ x \in ToSet(t)
  <2>1. PICK i \in 1..n : s[i] = x
    BY <1>8, <1>9
  <2>2. CASE i = 1
    BY <1>3, <2>1, <2>2
  <2>3. CASE i # 1
    <3>1. i - 1 \in 1..n - 1 /\ (i - 1) + 1 = i
      BY <2>3
    <3>2. t[i - 1] = s[(i - 1) + 1]
      BY <1>6, <3>1
    <3> QED
      BY <1>8, <2>1, <3>1, <3>2
  <2> QED
    BY <2>2, <2>3
<1>10. ASSUME NEW x, x \in ToSet(t)
       PROVE  x \in ToSet(s)
  <2>1. PICK i \in 1..n - 1 : t[i] = x
    BY <1>8, <1>10
  <2>2. i + 1 \in 1..n
    OBVIOUS
  <2> QED
    BY <1>6, <1>8, <2>1, <2>2
<1> QED
  BY <1>2, <1>3, <1>4, <1>5, <1>6, <1>7, <1>9, <1>10

(* What is not among the first n comes after them. *)
LEMMA DropKeeps ==
    ASSUME NEW s, IsList(s), NEW n \in Nat
    PROVE  /\ \A x : x \in ToSet(s) <=> x \in ToSet(Take(s, n)) \/ x \in ToSet(Drop(s, n))
           /\ \A x \in ToSet(Drop(s, n)) : \E i \in 1..Len(s) : n < i /\ s[i] = x
           /\ \A x \in ToSet(Take(s, n)) : \E i \in 1..Len(s) : i <= n /\ s[i] = x
<1>1. PICK m \in Nat : m = Len(s)
  BY ListFacts
<1>2. \A x : x \in ToSet(s) <=> \E i \in 1..m : s[i] = x
  BY <1>1, ListFacts
<1>3. PICK t : t = Take(s, n)
  OBVIOUS
<1>4. PICK least \in Nat : least = Least(n, m) /\ least <= n /\ least <= m /\ (n <= least \/ m <= least)
  BY <1>1 DEF Least
<1>5. IsList(t) /\ Len(t) = least /\ \A k \in 1..least : t[k] = s[k]
  BY <1>1, <1>3, <1>4, TakenIsList
<1>6. \A x : x \in ToSet(t) <=> \E k \in 1..least : t[k] = x
  BY <1>5, ListFacts
<1>7. PICK d : d = Drop(s, n)
  OBVIOUS
<1>8. /\ IsList(d) /\ Len(d) = IF n <= m THEN m - n ELSE 0
      /\ \A i \in 1..m - n : d[i] = s[n + i]
  BY <1>1, <1>7, CutIsList DEF Drop
<1>9. \A x : x \in ToSet(d) <=> \E i \in 1..m - n : d[i] = x
  BY <1>1, <1>8, ListFacts
<1>10. \A x \in ToSet(d) : \E i \in 1..m : n < i /\ s[i] = x
  <2>1. ASSUME NEW x \in ToSet(d)
        PROVE  \E i \in 1..m : n < i /\ s[i] = x
    <3>1. PICK i \in 1..m - n : d[i] = x
      BY <1>9
    <3>2. n + i \in 1..m /\ n < n + i
      BY <1>1
    <3> QED
      BY <1>8, <3>1, <3>2
  <2> QED
    BY <2>1
<1>11. \A x \in ToSet(t) : \E i \in 1..m : i <= n /\ s[i] = x
  <2>1. ASSUME NEW x \in ToSet(t)
        PROVE  \E i \in 1..m : i <= n /\ s[i] = x
    <3>1. PICK i \in 1..least : t[i] = x
      BY <1>6
    <3> QED
      BY <1>4, <1>5, <3>1
  <2> QED
    BY <2>1
<1>12. ASSUME NEW x \in ToSet(s)
       PROVE  x \in ToSet(t) \/ x \in ToSet(d)
  <2>1. PICK i \in 1..m : s[i] = x
    BY <1>2
  <2>2. CASE i <= least
    <3>1. i \in 1..least
      BY <2>2
    <3> QED
      BY <1>5, <1>6, <2>1, <3>1
  <2>3. CASE ~(i <= least)
    <3>1. i - n \in 1..m - n /\ n + (i - n) = i
      BY <1>4, <2>3
    <3>2. d[i - n] = s[n + (i - n)]
      BY <1>8, <3>1
    <3> QED
      BY <1>9, <2>1, <3>1, <3>2
  <2> QED
    BY <2>2, <2>3
<1> QED
  BY <1>1, <1>2, <1>3, <1>7, <1>10, <1>11, <1>12

(* No two rules of a list have an id. *)
IdsDiffer(s) == \A i, j \in DOMAIN s : s[i].id = s[j].id => i = j

(* Nor have two of those that are picked from it. *)
LEMMA PickedDiffer ==
    ASSUME NEW s, IsList(s), NEW slots \in SUBSET DOMAIN s, IdsDiffer(s)
    PROVE  IdsDiffer(Picked(s, slots))
<1>1. PICK order : order = InTurn(slots)
  OBVIOUS
<1>2. PICK n \in Nat : n = Len(s) /\ DOMAIN s = 1..n
  BY ListFacts
<1>3. /\ order \in Seq(slots)
      /\ \A k, l \in 1..Len(order) : k < l => order[k] < order[l]
  <2>1. slots \in SUBSET (1..n) /\ 1 \in Int /\ n \in Int
    BY <1>2
  <2>2. IsFiniteSet(slots)
    BY <2>1, PlacesInTurn
  <2>3. Numbers(slots)
    BY <2>1 DEF Numbers
  <2> QED
    BY <1>1, <2>2, <2>3, InTurnKeeps
<1>4. PICK m \in Nat : m = Len(order) /\ DOMAIN order = 1..m
  BY <1>3
<1>5. \A k \in 1..m : order[k] \in slots /\ order[k] \in 1..n
  BY <1>2, <1>3, <1>4
<1>6. DOMAIN Picked(s, slots) = 1..m /\ \A k \in 1..m : Picked(s, slots)[k] = s[order[k]]
  BY <1>1, <1>4 DEF Picked
<1>7. ASSUME NEW k \in 1..m, NEW l \in 1..m, s[order[k]].id = s[order[l]].id
      PROVE  k = l
  <2>1. order[k] = order[l]
    BY <1>2, <1>5, <1>7 DEF IdsDiffer
  <2>2. ~(k < l) /\ ~(l < k)
    BY <1>3, <1>4, <1>5, <2>1
  <2> QED
    BY <2>2
<1> QED
  BY <1>6, <1>7 DEF IdsDiffer

(* Rules of the same id are one rule. *)
LEMMA SameRule ==
    ASSUME NEW lib \in Libraries, NEW a \in ToSet(lib), NEW b \in ToSet(lib), a.id = b.id
    PROVE  a = b
<1>1. IsList(lib) /\ \A i, j \in DOMAIN lib : lib[i].id = lib[j].id => i = j
  BY RulesAreSound
<1>2. PICK i \in DOMAIN lib, j \in DOMAIN lib : lib[i] = a /\ lib[j] = b
  BY <1>1, ListFacts
<1> QED
  BY <1>1, <1>2

(* All that is known of a scan as it goes: what it reads, the rules that   *)
(* are still to come, what it has found and said of its limits, and that   *)
(* no candidate of an evaluated rule is missing from the findings.         *)
Scanning == doc \in ScanDocs /\ library \in Libraries /\ bounds \in ScanLimits

TodoFits ==
    /\ IsList(todo) /\ IdsDiffer(todo)
    /\ \A r \in ToSet(todo) : r \in ToSet(library) /\ r.id \notin evaluated /\ r.id \notin skipped
    /\ \A id \in evaluated : id \notin skipped
    /\ \A id \in evaluated \cup skipped : \E r \in ToSet(library) : r.id = id

LimitIsTold ==
    /\ IsList(findings) /\ Len(findings) <= bounds.findings
    /\ Len(findings) = bounds.findings <=> Cautioned("maximum_findings_reached")
    /\ Cautioned("maximum_findings_reached") => todo = <<>>

RulesComing ==
    /\ sstep = "select" => todo = <<>> /\ evaluated = {} /\ skipped = {} /\ findings = <<>> /\ cautions = {}
    /\ sstep # "select" /\ ~Cautioned("maximum_findings_reached") =>
         \A r \in ToSet(library) : r.id \in evaluated \/ r.id \in skipped \/ r \in ToSet(todo)
    /\ sstep = "done" => todo = <<>>

FindingsAreSafe ==
    \A f \in ToSet(findings) :
      f.rule \in evaluated /\ (f.type = "secret_pattern" => f.shown \cap Symbols.secrets = {})

NoneMissed ==
    ~Cautioned("maximum_findings_reached") =>
      \A r \in ToSet(library) :
        r.id \in evaluated /\ <<"maximum_matches_per_rule_reached", r.id>> \notin cautions =>
          \A f \in ToSet(Candidates(doc, bounds, r)) : f \in ToSet(findings)

StaticInv ==
    /\ sstep \in {"off", "select", "scan", "done"}
    /\ sstep = "off" => StaticIdle
    /\ sstep # "off" => Scanning /\ TodoFits /\ LimitIsTold /\ RulesComing /\ FindingsAreSafe /\ NoneMissed

(* A scan starts with nothing said and nothing found. *)
LEMMA ScanStarts == StaticInit => StaticInv
<1> SUFFICES ASSUME StaticInit
             PROVE  StaticInv
  OBVIOUS
<1>1. /\ Scanning /\ sstep = "select" /\ todo = <<>> /\ evaluated = {} /\ skipped = {}
      /\ findings = <<>> /\ cautions = {}
  BY DEF StaticInit, Scanning
<1>2. bounds.findings \in Nat \ {0}
  BY <1>1, StaticAssumption DEF Scanning
<1>3. ~Cautioned("maximum_findings_reached")
  BY <1>1 DEF Cautioned
<1>4. TodoFits
  <2>1. IdsDiffer(<<>>)
    BY DEF IdsDiffer
  <2> QED
    BY <1>1, <2>1, NoneIsList DEF TodoFits
<1>5. LimitIsTold
  BY <1>1, <1>2, <1>3, NoneIsList DEF LimitIsTold
<1>6. RulesComing
  BY <1>1 DEF RulesComing
<1>7. FindingsAreSafe
  BY <1>1, NoneIsList DEF FindingsAreSafe
<1>8. NoneMissed
  BY <1>1 DEF NoneMissed
<1> QED
  BY <1>1, <1>4, <1>5, <1>6, <1>7, <1>8 DEF StaticInv

(* The selection takes each rule of the library in or leaves it out. *)
LEMMA SelectingKeeps == StaticInv /\ Selects => StaticInv'
<1> SUFFICES ASSUME StaticInv, Selects
             PROVE  StaticInv'
  OBVIOUS
<1>1. /\ Scanning /\ sstep = "select" /\ sstep' = "scan"
      /\ evaluated = {} /\ evaluated' = {} /\ findings = <<>> /\ findings' = <<>>
      /\ doc' = doc /\ library' = library /\ bounds' = bounds
  BY DEF StaticInv, Selects, RulesComing
<1>2. bounds.findings \in Nat \ {0} /\ bounds.rules \in Nat
  BY <1>1, StaticAssumption DEF Scanning
<1>3. IsList(library) /\ IdsDiffer(library)
  BY <1>1, RulesAreSound DEF Scanning, IdsDiffer
<1>4. PICK slots : slots = {i \in DOMAIN library : Accepts(library[i], selection)}
  OBVIOUS
<1>5. PICK admitted : admitted = Picked(library, slots)
  OBVIOUS
<1>6. PICK refused : refused = {r.id : r \in {r \in ToSet(library) : ~Accepts(r, selection)}}
  OBVIOUS
<1>7. PICK limit \in Nat : limit = bounds.rules
  BY <1>2
<1>8. /\ todo' = Take(admitted, limit)
      /\ skipped' = refused \cup {r.id : r \in ToSet(Drop(admitted, limit))}
  BY <1>4, <1>5, <1>6, <1>7 DEF Selects, Those
<1>9. /\ IsList(admitted) /\ IdsDiffer(admitted)
      /\ \A x : x \in ToSet(admitted) <=> \E i \in slots : library[i] = x
  BY <1>3, <1>4, <1>5, PickedIsList, PickedDiffer
<1>10. \A x : x \in ToSet(admitted) <=> x \in ToSet(library) /\ Accepts(x, selection)
  <2>1. DOMAIN library = 1..Len(library) /\ \A x : x \in ToSet(library) <=> \E i \in 1..Len(library) : library[i] = x
    BY <1>3, ListFacts
  <2> QED
    BY <1>4, <1>9, <2>1
<1>11. ~Cautioned("maximum_findings_reached")'
  BY DEF Selects, Cautioned
<1>12. /\ \A x : x \in ToSet(admitted) <=> x \in ToSet(todo') \/ x \in ToSet(Drop(admitted, limit))
       /\ \A x \in ToSet(Drop(admitted, limit)) : \E i \in 1..Len(admitted) : limit < i /\ admitted[i] = x
       /\ \A x \in ToSet(todo') : \E i \in 1..Len(admitted) : i <= limit /\ admitted[i] = x
  BY <1>8, <1>9, DropKeeps
<1>13. PICK n \in Nat : n = Len(admitted) /\ DOMAIN admitted = 1..n
  BY <1>9, ListFacts
<1>14. ASSUME NEW r \in ToSet(todo')
       PROVE  r \in ToSet(library) /\ r.id \notin skipped'
  <2>1. r \in ToSet(library) /\ Accepts(r, selection)
    BY <1>10, <1>12
  <2>2. r.id \notin refused
    <3>1. ASSUME NEW x \in ToSet(library), x.id = r.id
          PROVE  x = r
      BY <1>1, <2>1, <3>1, SameRule DEF Scanning
    <3> QED
      BY <1>6, <2>1, <3>1
  <2>3. ASSUME NEW x \in ToSet(Drop(admitted, limit)), x.id = r.id
        PROVE  FALSE
    <3>1. PICK i \in 1..n : limit < i /\ admitted[i] = x
      BY <1>12, <1>13
    <3>2. PICK j \in 1..n : j <= limit /\ admitted[j] = r
      BY <1>12, <1>13
    <3>3. i = j
      BY <1>9, <1>13, <2>3, <3>1, <3>2 DEF IdsDiffer
    <3> QED
      BY <3>1, <3>2, <3>3
  <2> QED
    BY <1>8, <2>1, <2>2, <2>3
<1>15. IsList(todo') /\ IdsDiffer(todo')
  <2>1. PICK t : t = todo'
    OBVIOUS
  <2>2. PICK m \in Nat : m = Least(limit, n) /\ m <= n
    BY DEF Least
  <2>3. IsList(t) /\ Len(t) = m /\ \A k \in 1..m : t[k] = admitted[k]
    BY <1>8, <1>9, <1>13, <2>1, <2>2, TakenIsList
  <2>4. DOMAIN t = 1..m /\ \A k \in 1..m : k \in 1..n
    BY <2>2, <2>3, ListFacts
  <2>5. IdsDiffer(t)
    BY <1>9, <1>13, <2>3, <2>4 DEF IdsDiffer
  <2> QED
    BY <2>1, <2>3, <2>5
<1>16. TodoFits'
  <2>1. ASSUME NEW id \in skipped'
        PROVE  \E r \in ToSet(library) : r.id = id
    BY <1>6, <1>8, <1>10, <1>12
  <2> QED
    BY <1>1, <1>14, <1>15, <2>1 DEF TodoFits
<1>17. LimitIsTold'
  BY <1>1, <1>2, <1>11, NoneIsList DEF LimitIsTold
<1>18. RulesComing'
  <2>1. ASSUME NEW r \in ToSet(library)
        PROVE  r.id \in skipped' \/ r \in ToSet(todo')
    <3>1. CASE Accepts(r, selection)
      BY <1>8, <1>10, <1>12, <3>1
    <3>2. CASE ~Accepts(r, selection)
      BY <1>6, <1>8, <3>2
    <3> QED
      BY <3>1, <3>2
  <2> QED
    BY <1>1, <2>1 DEF RulesComing
<1>19. FindingsAreSafe' /\ NoneMissed' /\ Scanning'
  BY <1>1, NoneIsList DEF FindingsAreSafe, NoneMissed, Scanning
<1> QED
  BY <1>1, <1>16, <1>17, <1>18, <1>19 DEF StaticInv

(* The clock puts all the rules that are left among the skipped. *)
LEMMA TimingOutKeeps == StaticInv /\ TimesOut => StaticInv'
<1> SUFFICES ASSUME StaticInv, TimesOut
             PROVE  StaticInv'
  OBVIOUS
<1>1. /\ Scanning /\ TodoFits /\ LimitIsTold /\ RulesComing /\ FindingsAreSafe /\ NoneMissed
      /\ sstep = "scan" /\ sstep' = "scan" /\ todo' = <<>> /\ todo # <<>>
      /\ evaluated' = evaluated /\ findings' = findings
      /\ doc' = doc /\ library' = library /\ bounds' = bounds
      /\ cautions' = cautions \cup {<<"scan_time_limit_reached", 0>>}
      /\ skipped' = skipped \cup {r.id : r \in ToSet(todo)}
  BY DEF StaticInv, TimesOut
<1>2. ~Cautioned("maximum_findings_reached")
  BY <1>1 DEF LimitIsTold
<1>3. ~Cautioned("maximum_findings_reached")'
  BY <1>1, <1>2 DEF Cautioned
<1>4. TodoFits'
  <2>1. IdsDiffer(<<>>)
    BY DEF IdsDiffer
  <2>2. \A r \in ToSet(todo) : r \in ToSet(library) /\ r.id \notin evaluated
    BY <1>1 DEF TodoFits
  <2>3. \A id \in evaluated \cup skipped' : \E r \in ToSet(library) : r.id = id
    BY <1>1, <2>2 DEF TodoFits
  <2>4. \A id \in evaluated : id \notin skipped'
    BY <1>1, <2>2 DEF TodoFits
  <2> QED
    BY <1>1, <2>1, <2>3, <2>4, NoneIsList DEF TodoFits
<1>5. LimitIsTold' /\ FindingsAreSafe' /\ Scanning'
  BY <1>1, <1>2, <1>3 DEF LimitIsTold, FindingsAreSafe, Scanning
<1>6. RulesComing'
  BY <1>1, <1>2 DEF RulesComing
<1>7. NoneMissed'
  BY <1>1, <1>2 DEF NoneMissed
<1> QED
  BY <1>1, <1>4, <1>5, <1>6, <1>7 DEF StaticInv

(* A rule's candidates are all found, unless a limit is said to have ended *)
(* the rule or the scan.                                                   *)
LEMMA EvaluatingKeeps == StaticInv /\ EvaluatesRule => StaticInv'
<1> SUFFICES ASSUME StaticInv, EvaluatesRule
             PROVE  StaticInv'
  OBVIOUS
<1>1. /\ Scanning /\ TodoFits /\ LimitIsTold /\ RulesComing /\ FindingsAreSafe /\ NoneMissed
      /\ sstep = "scan" /\ sstep' = "scan" /\ todo # <<>>
      /\ doc' = doc /\ library' = library /\ bounds' = bounds /\ skipped' = skipped
  BY DEF StaticInv, EvaluatesRule
<1>2. bounds.findings \in Nat \ {0} /\ bounds.perRule \in Nat \ {0}
  BY <1>1, StaticAssumption DEF Scanning
<1>3. PICK rule : rule = Head(todo)
  OBVIOUS
<1>4. /\ rule \in ToSet(todo) /\ rule \in ToSet(library) /\ rule.id \notin skipped /\ rule.id \notin evaluated
      /\ IsList(todo) /\ Len(todo) \in Nat \ {0} /\ todo[1] = rule
      /\ IsList(Tail(todo)) /\ Len(Tail(todo)) = Len(todo) - 1
      /\ \A i \in 1..Len(todo) - 1 : Tail(todo)[i] = todo[i + 1]
      /\ \A x : x \in ToSet(todo) <=> x = rule \/ x \in ToSet(Tail(todo))
  BY <1>1, <1>3, HeadAndTail DEF TodoFits
<1>5. RuleIsSound(rule)
  BY <1>1, <1>4, RulesAreSound DEF Scanning
<1>6. PICK cands : cands = Candidates(doc, bounds, rule)
  OBVIOUS
<1>7. IsList(cands)
  BY <1>1, <1>5, <1>6, CandidatesAre DEF Scanning
<1>8. \A f \in ToSet(cands) : f.rule = rule.id /\ (f.type = "secret_pattern" => f.shown \cap Symbols.secrets = {})
  BY <1>1, <1>5, <1>6, CandidatesAreSafe DEF Scanning
<1>9. PICK most \in Nat, per \in Nat, old \in Nat :
        /\ most = bounds.findings /\ per = bounds.perRule /\ old = Len(findings)
        /\ old < most /\ per # 0 /\ IsList(findings) /\ ~Cautioned("maximum_findings_reached")
  <2>1. IsList(findings) /\ Len(findings) \in Nat
    BY <1>1, ListFacts DEF LimitIsTold
  <2>2. Len(findings) <= bounds.findings /\ Len(findings) # bounds.findings /\ ~Cautioned("maximum_findings_reached")
    BY <1>1 DEF LimitIsTold
  <2> QED
    BY <1>2, <2>1, <2>2
<1>10. PICK n \in Nat : n = Least(per, most - old) /\ (n = per \/ n = most - old) /\ n <= per /\ n <= most - old
  BY <1>9 DEF Least
<1>11. PICK new : new = Take(cands, n)
  OBVIOUS
<1>12. PICK len \in Nat : len = Len(cands)
  BY <1>7, ListFacts
<1>13. PICK some \in Nat : some = Least(n, len) /\ some <= n /\ (some = n \/ some = len)
  BY <1>12 DEF Least
<1>14. /\ IsList(new) /\ Len(new) = some
       /\ \A x \in ToSet(new) : x \in ToSet(cands)
       /\ len <= n => new = cands
  BY <1>7, <1>11, <1>12, <1>13, TakenIsList
<1>15. PICK full \in BOOLEAN : full <=> new # <<>> /\ old + some >= most
  OBVIOUS
<1>16. /\ findings' = findings \o new /\ evaluated' = evaluated \cup {rule.id}
       /\ todo' = IF full THEN <<>> ELSE Tail(todo)
       /\ cautions' = cautions
            \cup (IF InputBounded(doc, bounds, rule) THEN {<<"regex_input_bounded", 0>>} ELSE {})
            \cup (IF full THEN {<<"maximum_findings_reached", 0>>}
                  ELSE IF some = per THEN {<<"maximum_matches_per_rule_reached", rule.id>>} ELSE {})
  BY <1>3, <1>6, <1>9, <1>10, <1>11, <1>14, <1>15 DEF EvaluatesRule
<1>17. new # <<>> <=> some # 0
  <2>1. new \in Seq(ToSet(new))
    BY <1>14 DEF IsList
  <2> QED
    BY <1>14, <2>1, EmptySeq
<1>18. /\ full <=> old + some = most
       /\ old + some <= most
  BY <1>9, <1>10, <1>13, <1>15, <1>17
<1>19. Cautioned("maximum_findings_reached")' <=> full
  <2>1. full => <<"maximum_findings_reached", 0>> \in cautions'
    BY <1>16
  <2>2. ASSUME ~full, NEW c \in cautions', c[1] = "maximum_findings_reached"
        PROVE  FALSE
    <3>1. c \notin cautions
      BY <1>9, <2>2 DEF Cautioned
    <3>2. c = <<"regex_input_bounded", 0>> \/ c = <<"maximum_matches_per_rule_reached", rule.id>>
      BY <1>16, <2>2, <3>1
    <3> QED
      BY <2>2, <3>2
  <2> QED
    BY <2>1, <2>2 DEF Cautioned
<1>20. /\ IsList(findings') /\ Len(findings') = old + some
       /\ \A x : x \in ToSet(findings') <=> x \in ToSet(findings) \/ x \in ToSet(new)
  BY <1>9, <1>14, <1>16, JoinedIsList
<1>21. TodoFits'
  <2>1. CASE full
    <3>1. IdsDiffer(<<>>)
      BY DEF IdsDiffer
    <3>2. todo' = <<>>
      BY <1>16, <2>1
    <3>3. \A id \in evaluated' : id \notin skipped'
      BY <1>1, <1>4, <1>16 DEF TodoFits
    <3>4. \A id \in evaluated' \cup skipped' : \E r \in ToSet(library) : r.id = id
      BY <1>1, <1>4, <1>16 DEF TodoFits
    <3> QED
      BY <1>1, <3>1, <3>2, <3>3, <3>4, NoneIsList DEF TodoFits
  <2>2. CASE ~full
    <3>1. PICK rest : rest = Tail(todo) /\ todo' = rest
      BY <1>16, <2>2
    <3>2. PICK m \in Nat : m = Len(todo) /\ DOMAIN todo = 1..m /\ DOMAIN rest = 1..m - 1
      BY <1>4, <3>1, ListFacts
    <3>3. \A i \in 1..m - 1 : rest[i] = todo[i + 1] /\ i + 1 \in 1..m
      BY <1>4, <3>1, <3>2
    <3>4. IdsDiffer(rest)
      <4>1. ASSUME NEW i \in 1..m - 1, NEW j \in 1..m - 1, rest[i].id = rest[j].id
            PROVE  i = j
        <5>1. i + 1 = j + 1
          BY <1>1, <3>2, <3>3, <4>1 DEF TodoFits, IdsDiffer
        <5> QED
          BY <5>1
      <4> QED
        BY <3>2, <4>1 DEF IdsDiffer
    <3>5. \A r \in ToSet(rest) : r.id # rule.id
      <4>1. ASSUME NEW r \in ToSet(rest), r.id = rule.id
            PROVE  FALSE
        <5>1. PICK i \in 1..m - 1 : rest[i] = r
          BY <1>4, <3>1, <3>2, ListFacts
        <5>2. 1 \in 1..m /\ i + 1 \in 1..m /\ todo[i + 1].id = todo[1].id
          BY <1>4, <3>2, <3>3, <4>1, <5>1
        <5>3. i + 1 = 1
          BY <1>1, <3>2, <5>2 DEF TodoFits, IdsDiffer
        <5> QED
          BY <5>3
      <4> QED
        BY <4>1
    <3>6. \A r \in ToSet(rest) : r \in ToSet(library) /\ r.id \notin evaluated' /\ r.id \notin skipped'
      <4>1. \A r \in ToSet(rest) : r \in ToSet(todo)
        BY <1>4, <3>1
      <4> QED
        BY <1>1, <1>16, <3>5, <4>1 DEF TodoFits
    <3>7. \A id \in evaluated' : id \notin skipped'
      BY <1>1, <1>4, <1>16 DEF TodoFits
    <3>8. \A id \in evaluated' \cup skipped' : \E r \in ToSet(library) : r.id = id
      BY <1>1, <1>4, <1>16 DEF TodoFits
    <3>9. IsList(rest)
      BY <1>4, <3>1
    <3> QED
      BY <1>1, <3>1, <3>4, <3>6, <3>7, <3>8, <3>9 DEF TodoFits
  <2> QED
    BY <2>1, <2>2
<1>22. LimitIsTold'
  BY <1>1, <1>9, <1>16, <1>18, <1>19, <1>20 DEF LimitIsTold
<1>23. RulesComing'
  <2>1. ASSUME ~full, NEW r \in ToSet(library)
        PROVE  r.id \in evaluated' \/ r.id \in skipped \/ r \in ToSet(todo')
    <3>1. r.id \in evaluated \/ r.id \in skipped \/ r = rule \/ r \in ToSet(Tail(todo))
      BY <1>1, <1>4, <1>9 DEF RulesComing
    <3> QED
      BY <1>16, <2>1, <3>1
  <2> QED
    BY <1>1, <1>19, <2>1 DEF RulesComing
<1>24. FindingsAreSafe'
  BY <1>1, <1>8, <1>14, <1>16, <1>20 DEF FindingsAreSafe
<1>25. NoneMissed'
  <2>1. ASSUME ~full, NEW r \in ToSet(library), r.id \in evaluated',
               <<"maximum_matches_per_rule_reached", r.id>> \notin cautions',
               NEW f \in ToSet(Candidates(doc, bounds, r))
        PROVE  f \in ToSet(findings')
    <3>1. CASE r.id = rule.id
      <4>1. r = rule
        BY <1>1, <1>4, <3>1, SameRule DEF Scanning
      <4>2. some # per
        BY <1>16, <2>1, <3>1
      <4>3. len <= n
        BY <1>10, <1>12, <1>13, <1>9, <1>18, <2>1, <4>2
      <4> QED
        BY <1>6, <1>14, <1>20, <2>1, <4>1, <4>3
    <3>2. CASE r.id # rule.id
      <4>1. r.id \in evaluated /\ <<"maximum_matches_per_rule_reached", r.id>> \notin cautions
        BY <1>16, <2>1, <3>2
      <4>2. f \in ToSet(findings)
        BY <1>1, <1>9, <2>1, <4>1 DEF NoneMissed
      <4> QED
        BY <1>20, <4>2
    <3> QED
      BY <3>1, <3>2
  <2> QED
    BY <1>1, <1>19, <2>1 DEF NoneMissed
<1>26. Scanning'
  BY <1>1 DEF Scanning
<1> QED
  BY <1>1, <1>21, <1>22, <1>23, <1>24, <1>25, <1>26 DEF StaticInv

(* So do the end of the scan, and what leaves it alone. *)
LEMMA ScanEndKeeps == StaticInv /\ (Scanned \/ UNCHANGED staticVars) => StaticInv'
<1>1. ASSUME StaticInv, Scanned
      PROVE  StaticInv'
  <2>1. /\ Scanning /\ TodoFits /\ LimitIsTold /\ RulesComing /\ FindingsAreSafe /\ NoneMissed
        /\ sstep = "scan" /\ sstep' = "done" /\ todo = <<>> /\ todo' = todo
        /\ doc' = doc /\ library' = library /\ bounds' = bounds /\ skipped' = skipped
        /\ evaluated' = evaluated /\ findings' = findings /\ cautions' = cautions
    BY <1>1 DEF StaticInv, Scanned
  <2>2. Cautioned("maximum_findings_reached")' <=> Cautioned("maximum_findings_reached")
    BY <2>1 DEF Cautioned
  <2>3. TodoFits' /\ LimitIsTold' /\ FindingsAreSafe' /\ NoneMissed' /\ Scanning'
    BY <2>1, <2>2 DEF TodoFits, LimitIsTold, FindingsAreSafe, NoneMissed, Scanning
  <2>4. RulesComing'
    BY <2>1, <2>2 DEF RulesComing
  <2> QED
    BY <2>1, <2>3, <2>4 DEF StaticInv
<1>2. ASSUME StaticInv, UNCHANGED staticVars
      PROVE  StaticInv'
  BY <1>2 DEF StaticInv, staticVars, StaticIdle, TodoFits, LimitIsTold, FindingsAreSafe, NoneMissed,
              Scanning, RulesComing, Cautioned
<1> QED
  BY <1>1, <1>2

LEMMA ScanSteps == StaticInv /\ [StaticNext]_staticVars => StaticInv'
BY SelectingKeeps, TimingOutKeeps, EvaluatingKeeps, ScanEndKeeps DEF StaticNext

(* Of a scan that is over, all this says what is asked of it. *)
LEMMA ScanIsTrue == StaticInv => StaticScanIsTrue
<1> SUFFICES ASSUME StaticInv, sstep = "done"
             PROVE  /\ RulesAccounted
                    /\ ChunksSearched
                    /\ \A f \in ToSet(findings) : f.type = "secret_pattern" => f.shown \cap Symbols.secrets = {}
  BY DEF StaticScanIsTrue
<1>1. /\ Scanning /\ TodoFits /\ LimitIsTold /\ RulesComing /\ FindingsAreSafe /\ NoneMissed
      /\ todo = <<>>
  BY DEF StaticInv, RulesComing
<1>2. RulesAccounted
  <2>1. ASSUME ~Cautioned("maximum_findings_reached")
        PROVE  evaluated \cup skipped = {r.id : r \in ToSet(library)}
    <3>1. \A r \in ToSet(library) : r.id \in evaluated \cup skipped
      BY <1>1, <2>1, NoneIsList DEF RulesComing
    <3>2. \A id \in evaluated \cup skipped : \E r \in ToSet(library) : r.id = id
      BY <1>1 DEF TodoFits
    <3> QED
      BY <3>1, <3>2
  <2> QED
    BY <2>1 DEF RulesAccounted
<1>3. ChunksSearched
  <2> SUFFICES ASSUME NEW rule \in ToSet(library), rule.id \in evaluated, "chunk" \in rule.scope,
                      ~Cautioned("maximum_findings_reached"),
                      <<"maximum_matches_per_rule_reached", rule.id>> \notin cautions,
                      NEW i \in DOMAIN doc.chunks, NEW pattern \in Phrases(rule),
                      NEW p \in Occurs(doc.norm, pattern),
                      doc.chunks[i].from <= p, p + Len(pattern) <= doc.chunks[i].to,
                      Unreached(SubSeq(doc.norm, doc.chunks[i].from + 1, doc.chunks[i].to), pattern,
                                p - doc.chunks[i].from),
                      ContextAllows(rule, [text |-> SubSeq(doc.norm, doc.chunks[i].from + 1, doc.chunks[i].to)],
                                    Hit(p - doc.chunks[i].from, p + Len(pattern) - doc.chunks[i].from))
               PROVE  \E f \in ToSet(findings) :
                        /\ f.rule = rule.id /\ f.chunk = i /\ f.from = p
                        /\ \A s \in ToSet(doc.segments) :
                             s.from <= p /\ p < s.to /\ s.first # 0 =>
                               f.place.first <= s.first /\ s.first <= f.place.last
    BY DEF ChunksSearched, Unreached, Hit
  <2>1. RuleIsSound(rule)
    BY <1>1, RulesAreSound DEF Scanning
  <2>2. PICK f \in ToSet(Candidates(doc, bounds, rule)) :
          /\ f.rule = rule.id /\ f.chunk = i /\ f.from = p
          /\ \A s \in ToSet(doc.segments) :
               s.from <= p /\ p < s.to /\ s.first # 0 => f.place.first <= s.first /\ s.first <= f.place.last
    BY <1>1, <2>1, ChunksAreFound DEF Scanning
  <2>3. f \in ToSet(findings)
    BY <1>1 DEF NoneMissed
  <2> QED
    BY <2>2, <2>3
<1> QED
  BY <1>1, <1>2, <1>3 DEF FindingsAreSafe

(* A scan's findings are never more than the limit, each of an evaluated   *)
(* rule, and no rule is both evaluated and skipped.                        *)
LEMMA ScanIsTyped == StaticInv => StaticTypeOK
BY DEF StaticInv, StaticIdle, StaticTypeOK, TodoFits, LimitIsTold, FindingsAreSafe

(* In the whole, the scanner is idle unless it is the part that runs.      *)
LEMMA ScanInParts ==
    /\ Init => StaticInv
    /\ StaticInv /\ [Next]_partsVars => StaticInv'
<1>1. StaticIdle => StaticInv
  BY DEF StaticIdle, StaticInv
<1>2. [Next]_partsVars => [StaticNext]_staticVars
  BY DEF Next, StillIdle, partsVars
<1> QED
  BY <1>1, <1>2, ScanStarts, ScanSteps DEF Init, AllIdle

(* A scan that ends has evaluated or skipped every rule of the library,    *)
(* unless it says that its findings filled up; has found every phrase of   *)
(* an evaluated rule in every chunk, at the chunk's lines; and shows none  *)
(* of the secrets it found (scanners/static_security.py).                  *)
THEOREM ScansAreTrue == PartsSpec => []StaticScanIsTrue
<1>1. StaticInv => StaticScanIsTrue
  BY ScanIsTrue
<1> QED
  BY <1>1, ScanInParts, PTL DEF PartsSpec
-------------------------------------------------------------------------------
(* How documents are cut into chunks (Chunking). *)

(* Natural numbers have a smallest. *)
LEMMA LeastNatural ==
    ASSUME NEW S \in SUBSET Nat, S # {}
    PROVE  \E least \in S : \A n \in S : least <= n
<1>1. PICK least \in S : \A n \in S : ~(<<n, least>> \in OpToRel(<, Nat))
  BY NatLessThanWellFounded, WFMin
<1>2. \A n \in S : ~(n < least)
  BY <1>1 DEF OpToRel
<1> QED
  BY <1>2

(* The ends of tokens lie in the stretch, so there are finitely many. *)
LEMMA EndsAreFinite ==
    ASSUME NEW from \in Int, NEW to \in Int
    PROVE  /\ TokenEnds(from, to) \in SUBSET (from + 1..to)
           /\ IsFiniteSet(TokenEnds(from, to)) /\ Count(from, to) \in Nat
<1>1. TokenEnds(from, to) \in SUBSET (from + 1..to)
  BY DEF TokenEnds
<1>2. IsFiniteSet(from + 1..to)
  BY FS_Interval
<1>3. IsFiniteSet(TokenEnds(from, to))
  BY <1>1, <1>2, FS_Subset
<1> QED
  BY <1>1, <1>3, FS_CardinalityType DEF Count

(* The end of a token in a stretch. *)
Letter(i) == Char(i) = "a"
Gap(i) == Char(i) \in {" ", "P"}
EndsToken(x, from, to) == x \in from + 1..to /\ ~Gap(x - 1) /\ (Letter(x - 1) /\ x < to => ~Letter(x))

LEMMA EndsAre ==
    ASSUME NEW from \in Int, NEW to \in Int, NEW x
    PROVE  x \in TokenEnds(from, to) <=> EndsToken(x, from, to)
BY DEF TokenEnds, EndsToken, Letter, Gap

(* The end of a stretch has the tokens that end in it. *)
LEMMA EndsOfRest ==
    ASSUME NEW from \in Int, NEW to \in Int, NEW later \in Int, from <= later
    PROVE  /\ TokenEnds(later, to) = {x \in TokenEnds(from, to) : x > later}
           /\ Count(later, to) <= Count(from, to)
<1>1. TokenEnds(later, to) = {x \in TokenEnds(from, to) : x > later}
  <2>1. \A x : EndsToken(x, later, to) <=> EndsToken(x, from, to) /\ x > later
    BY DEF EndsToken
  <2> QED
    BY <2>1, EndsAre
<1>2. IsFiniteSet(TokenEnds(from, to))
  BY EndsAreFinite
<1>3. TokenEnds(later, to) \in SUBSET TokenEnds(from, to)
  BY <1>1
<1> QED
  BY <1>1, <1>2, <1>3, FS_Subset DEF Count

(* Two stretches one after the other have all the tokens of the whole. *)
LEMMA EndsOfBoth ==
    ASSUME NEW from \in Int, NEW to \in Int, NEW middle \in Int, from <= middle, middle <= to
    PROVE  Count(from, to) <= Count(from, middle) + Count(middle, to)
<1> DEFINE A == TokenEnds(from, middle)
           B == TokenEnds(middle, to)
<1>1. TokenEnds(from, to) \in SUBSET (A \cup B)
  <2> SUFFICES ASSUME NEW x \in TokenEnds(from, to)
               PROVE  x \in A \/ x \in B
    OBVIOUS
  <2>0. EndsToken(x, from, to)
    BY EndsAre
  <2>1. CASE x <= middle
    <3>1. EndsToken(x, from, middle)
      BY <2>0, <2>1 DEF EndsToken
    <3> QED
      BY <3>1, EndsAre
  <2>2. CASE ~(x <= middle)
    <3>1. EndsToken(x, middle, to)
      BY <2>0, <2>2 DEF EndsToken
    <3> QED
      BY <3>1, EndsAre
  <2> QED
    BY <2>1, <2>2
<1>2. IsFiniteSet(A) /\ IsFiniteSet(B) /\ Cardinality(A) \in Nat /\ Cardinality(B) \in Nat
  BY EndsAreFinite DEF Count
<1>3. PICK common : common = Cardinality(A \cap B) /\ common \in Nat
  BY <1>2, FS_Intersection, FS_CardinalityType
<1>4. IsFiniteSet(A \cup B) /\ Cardinality(A \cup B) = Cardinality(A) + Cardinality(B) - common
  BY <1>2, <1>3, FS_Union
<1>5. Cardinality(TokenEnds(from, to)) <= Cardinality(A \cup B) /\ Cardinality(TokenEnds(from, to)) \in Nat
  BY <1>1, <1>4, FS_Subset, EndsAreFinite DEF Count
<1> QED
  BY <1>2, <1>3, <1>4, <1>5 DEF Count

(* Those of some numbers from x on, and up to x. *)
From(S, x) == {y \in S : y >= x}
UpTo(S, x) == {y \in S : y <= x}

(* Of finitely many numbers, one is the n-th from above, and one from below. *)
LEMMA EveryRankIsTaken ==
    ASSUME NEW S, IsFiniteSet(S), Numbers(S)
    PROVE  /\ Cardinality(S) \in Nat
           /\ \A n \in 1..Cardinality(S) : \E x \in S : Cardinality(From(S, x)) = n
           /\ \A n \in 1..Cardinality(S) : \E x \in S : Cardinality(UpTo(S, x)) = n
<1> DEFINE above == [x \in S |-> From(S, x)]
           below == [x \in S |-> UpTo(S, x)]
<1>1. \A x \in S : x \in Int
  BY DEF Numbers
<1>2. above \in [S -> SUBSET S] /\ below \in [S -> SUBSET S]
  BY DEF From, UpTo
<1>3. \A x \in S : x \in above[x] /\ x \in below[x]
  BY <1>1 DEF From, UpTo
<1>4. \A x, y \in S : x < y => /\ above[y] \subseteq above[x] /\ above[x] # above[y]
                               /\ below[x] \subseteq below[y] /\ below[x] # below[y]
  <2> SUFFICES ASSUME NEW x \in S, NEW y \in S, x < y
               PROVE  /\ above[y] \subseteq above[x] /\ above[x] # above[y]
                      /\ below[x] \subseteq below[y] /\ below[x] # below[y]
    OBVIOUS
  <2>1. x \in above[x] /\ x \notin above[y] /\ y \in below[y] /\ y \notin below[x]
    BY <1>1 DEF From, UpTo
  <2> QED
    BY <1>1, <2>1 DEF From, UpTo
<1>5. \A x, y \in S : x # y => x < y \/ y < x
  BY <1>1
<1>6. \A x, y \in S : x # y => \/ above[x] \subseteq above[y] /\ above[x] # above[y]
                               \/ above[y] \subseteq above[x] /\ above[x] # above[y]
  BY <1>4, <1>5
<1>7. \A x, y \in S : x # y => \/ below[x] \subseteq below[y] /\ below[x] # below[y]
                               \/ below[y] \subseteq below[x] /\ below[x] # below[y]
  BY <1>4, <1>5
<1>8. /\ Cardinality(S) \in Nat
      /\ \A n \in 1..Cardinality(S) : \E x \in S : Cardinality(above[x]) = n
  <2> HIDE DEF above
  <2> QED
    BY <1>2, <1>3, <1>6, EveryPlaceIsTaken
<1>9. \A n \in 1..Cardinality(S) : \E x \in S : Cardinality(below[x]) = n
  <2> HIDE DEF below
  <2> QED
    BY <1>2, <1>3, <1>7, EveryPlaceIsTaken
<1> QED
  BY <1>8, <1>9

(* The n-th last token starts in the stretch, and n tokens end behind it.  *)
LEMMA TokenStartIs ==
    ASSUME NEW from \in Nat, NEW to \in Nat, NEW n \in 1..Count(from, to)
    PROVE  /\ TokenStart(from, to, n) \in from..to - 1
           /\ Count(TokenStart(from, to, n), to) = n
<1>1. PICK E : E = TokenEnds(from, to) /\ E \in SUBSET (from + 1..to) /\ IsFiniteSet(E) /\ Count(from, to) = Cardinality(E)
  BY EndsAreFinite DEF Count
<1>2. Numbers(E)
  BY <1>1 DEF Numbers
<1>3. \E x \in E : Cardinality(From(E, x)) = n
  BY <1>1, <1>2, EveryRankIsTaken
<1>4. PICK end : end = CHOOSE x \in E : Cardinality(From(E, x)) = n
  OBVIOUS
<1>5. end \in E /\ Cardinality(From(E, end)) = n /\ end \in from + 1..to
  BY <1>1, <1>3, <1>4
<1>6. PICK start : start = TokenStart(from, to, n)
  OBVIOUS
<1>7. start = IF Char(end - 1) # "a" THEN end - 1
              ELSE CHOOSE i \in from..end - 1 :
                     /\ \A x \in i..end - 1 : Char(x) = "a"
                     /\ i > from => Char(i - 1) # "a"
  BY <1>1, <1>4, <1>6 DEF TokenStart, From
<1>8. start \in from..end - 1 /\ \A x \in start + 1..end - 1 : x - 1 >= from /\ Char(x - 1) = "a" /\ Char(x) = "a"
  <2>1. CASE Char(end - 1) # "a"
    BY <1>5, <1>7, <2>1
  <2>2. CASE Char(end - 1) = "a"
    <3> DEFINE Good == {i \in from..end - 1 : \A x \in i..end - 1 : Char(x) = "a"}
    <3>1. Good \in SUBSET Nat /\ Good # {}
      <4>1. end - 1 \in Good
        BY <1>5, <2>2
      <4> QED
        BY <1>5, <4>1
    <3>2. PICK i \in Good : \A j \in Good : i <= j
      <4> HIDE DEF Good
      <4> QED
        BY <3>1, LeastNatural
    <3>3. i > from => Char(i - 1) # "a"
      <4> SUFFICES ASSUME i > from, Char(i - 1) = "a"
                   PROVE  FALSE
        OBVIOUS
      <4>1. \A x \in i - 1..end - 1 : x = i - 1 \/ x \in i..end - 1
        BY <1>5
      <4>2. i - 1 \in Good
        BY <1>5, <4>1
      <4> QED
        BY <1>5, <3>2, <4>2
    <3>4. \E k \in from..end - 1 : /\ \A x \in k..end - 1 : Char(x) = "a"
                                   /\ k > from => Char(k - 1) # "a"
      BY <3>3
    <3>5. start \in from..end - 1 /\ \A x \in start..end - 1 : Char(x) = "a"
      BY <1>7, <2>2, <3>4
    <3> QED
      BY <1>5, <3>5
  <2> QED
    BY <2>1, <2>2
<1>9. TokenEnds(start, to) = From(E, end)
  <2>1. TokenEnds(start, to) = {x \in E : x > start}
    BY <1>1, <1>8, EndsOfRest
  <2>2. \A x \in E : x > start => x >= end
    <3> SUFFICES ASSUME NEW x \in E, x > start, x < end
                 PROVE  FALSE
      BY <1>1, <1>5
    <3>1. x \in start + 1..end - 1 /\ x < to
      BY <1>1, <1>5, <1>8
    <3>2. Letter(x - 1) /\ Letter(x)
      BY <1>8, <3>1 DEF Letter
    <3>3. EndsToken(x, from, to)
      BY <1>1, EndsAre
    <3> QED
      BY <3>1, <3>2, <3>3 DEF EndsToken
  <2>3. \A x \in E : x >= end => x > start
    BY <1>1, <1>5, <1>8
  <2> QED
    BY <2>1, <2>2, <2>3 DEF From
<1> QED
  BY <1>5, <1>6, <1>8, <1>9 DEF Count

(* A block with the kinds of all the tables and code regions it touches. *)
BlockWell(b, solid) ==
    /\ b = [from |-> b.from, to |-> b.to, kinds |-> b.kinds, pages |-> b.pages, path |-> b.path]
    /\ b.from \in Nat /\ b.to \in Nat /\ b.from < b.to
    /\ \A mk \in solid : Meets(b.from, b.to, mk.from, mk.to) => mk.kind \in b.kinds

(* Regions of a text, which end behind their start. *)
RegionsWell(solid) == \A mk \in solid : mk.from \in Nat /\ mk.to \in Nat /\ mk.from <= mk.to

(* Blocks of a list each of which begins where the one before it ends. *)
Consecutive(s, first, last, solid) ==
    /\ \A i \in first..last : BlockWell(s[i], solid)
    /\ \A i \in first..last - 1 : s[i].to = s[i + 1].from

(* Consecutive blocks grow. *)
LEMMA RunGrows ==
    ASSUME NEW s, NEW solid, NEW first \in Nat, NEW last \in Nat, first <= last, Consecutive(s, first, last, solid)
    PROVE  \A i \in first..last : s[first].from < s[i].to
<1> DEFINE Bad == {i \in first..last : ~(s[first].from < s[i].to)}
<1>1. \A i \in first..last : s[i].from \in Nat /\ s[i].to \in Nat /\ s[i].from < s[i].to
  BY DEF Consecutive, BlockWell
<1>2. ASSUME Bad # {}
      PROVE  FALSE
  <2>1. Bad \in SUBSET Nat
    OBVIOUS
  <2>2. PICK i \in Bad : \A j \in Bad : i <= j
    <3> HIDE DEF Bad
    <3> QED
      BY <1>2, <2>1, LeastNatural
  <2>3. i # first /\ i \in first..last /\ i - 1 \in first..last - 1 /\ i - 1 \in first..last
    BY <1>1, <2>2
  <2>4. s[first].from < s[i - 1].to
    BY <2>2, <2>3
  <2>5. s[i - 1].to = s[i].from
    <3>1. PICK j : j = i - 1
      OBVIOUS
    <3>2. j \in first..last - 1 /\ j + 1 = i
      BY <2>3, <3>1
    <3> QED
      BY <3>1, <3>2 DEF Consecutive
  <2>6. s[first].from < s[i].to
    BY <1>1, <2>3, <2>4, <2>5
  <2> QED
    BY <2>2, <2>6
<1> QED
  BY <1>2

(* A place in linked blocks is in one of them. *)
LEMMA PlaceInRun ==
    ASSUME NEW s, NEW solid, NEW first \in Nat, NEW last \in Nat, first <= last, Consecutive(s, first, last, solid),
           NEW p \in Nat, s[first].from <= p, p < s[last].to
    PROVE  \E i \in first..last : s[i].from <= p /\ p < s[i].to
<1> DEFINE Beyond == {i \in first..last : p < s[i].to}
<1>1. Beyond \in SUBSET Nat /\ Beyond # {}
  <2>1. last \in Beyond
    OBVIOUS
  <2> QED
    BY <2>1
<1>2. PICK i \in Beyond : \A j \in Beyond : i <= j
  <2> HIDE DEF Beyond
  <2> QED
    BY <1>1, LeastNatural
<1>3. s[i].from <= p
  <2>1. CASE i = first
    BY <2>1
  <2>2. CASE i # first
    <3>1. PICK j : j = i - 1
      OBVIOUS
    <3>2. j \in first..last - 1 /\ j + 1 = i /\ j \in first..last /\ ~(i <= j)
      BY <1>2, <2>2, <3>1
    <3>3. s[j].to = s[i].from /\ s[j].to \in Nat
      BY <3>2 DEF Consecutive, BlockWell
    <3>4. ~(p < s[j].to)
      BY <1>2, <3>2
    <3> QED
      BY <3>3, <3>4
  <2> QED
    BY <2>1, <2>2
<1> QED
  BY <1>2, <1>3

(* What touches linked blocks touches one of them. *)
LEMMA RunIsMet ==
    ASSUME NEW s, NEW solid, NEW first \in Nat, NEW last \in Nat, first <= last, Consecutive(s, first, last, solid),
           NEW a \in Nat, NEW z \in Nat, a <= z, Meets(s[first].from, s[last].to, a, z)
    PROVE  \E i \in first..last : Meets(s[i].from, s[i].to, a, z)
<1>1. \A i \in first..last : s[i].from \in Nat /\ s[i].to \in Nat /\ s[i].from < s[i].to
  BY DEF Consecutive, BlockWell
<1>2. s[first].from < s[last].to
  BY RunGrows
<1>3. first \in first..last /\ last \in first..last
  OBVIOUS
<1>4. IF a = z THEN s[first].from <= a /\ a <= s[last].to ELSE s[first].from < z /\ a < s[last].to
  BY <1>1, <1>2, <1>3 DEF Meets
<1>5. CASE a = s[last].to
  <2>1. a = z
    BY <1>1, <1>3, <1>4, <1>5
  <2>2. s[last].from < s[last].to /\ s[last].from \in Nat
    BY <1>1, <1>3
  <2>3. Meets(s[last].from, s[last].to, a, z)
    BY <1>5, <2>1, <2>2 DEF Meets
  <2> QED
    BY <1>3, <2>3
<1>6. CASE a # s[last].to /\ s[first].from <= a
  <2>1. a < s[last].to
    BY <1>1, <1>3, <1>4, <1>6
  <2>2. PICK i \in first..last : s[i].from <= a /\ a < s[i].to
    BY <1>6, <2>1, PlaceInRun
  <2>3. Meets(s[i].from, s[i].to, a, z)
    BY <1>1, <2>2 DEF Meets
  <2> QED
    BY <2>3
<1>7. CASE ~(s[first].from <= a)
  <2>1. a # z /\ s[first].from < z
    BY <1>1, <1>3, <1>4, <1>7
  <2>2. Meets(s[first].from, s[first].to, a, z)
    BY <1>1, <1>3, <1>7, <2>1 DEF Meets
  <2> QED
    BY <1>3, <2>2
<1> QED
  BY <1>5, <1>6, <1>7

(* What touches a part touches the whole. *)
LEMMA PartIsMet ==
    ASSUME NEW from \in Nat, NEW to \in Nat, NEW first \in Nat, NEW last \in Nat,
           from <= first, first < last, last <= to,
           NEW a \in Nat, NEW z \in Nat, Meets(first, last, a, z)
    PROVE  Meets(from, to, a, z)
BY DEF Meets

(* What touches a whole touches one of its two parts. *)
LEMMA HalvesAreMet ==
    ASSUME NEW from \in Nat, NEW middle \in Nat, NEW to \in Nat, from < middle, middle < to,
           NEW a \in Nat, NEW z \in Nat, a <= z, Meets(from, to, a, z)
    PROVE  Meets(from, middle, a, z) \/ Meets(middle, to, a, z)
BY DEF Meets

(* A part of a block knows what it touches. *)
LEMMA PartIsWell ==
    ASSUME NEW b, NEW solid, RegionsWell(solid), BlockWell(b, solid),
           NEW p \in Nat, b.from < p, p < b.to
    PROVE  /\ BlockWell([b EXCEPT !.to = p], solid) /\ BlockWell([b EXCEPT !.from = p], solid)
           /\ [b EXCEPT !.to = p].from = b.from /\ [b EXCEPT !.to = p].to = p
           /\ [b EXCEPT !.from = p].from = p /\ [b EXCEPT !.from = p].to = b.to
<1>1. PICK head : head = [b EXCEPT !.to = p]
  OBVIOUS
<1>2. PICK rest : rest = [b EXCEPT !.from = p]
  OBVIOUS
<1>3. /\ b = [from |-> b.from, to |-> b.to, kinds |-> b.kinds, pages |-> b.pages, path |-> b.path]
      /\ b.from \in Nat /\ b.to \in Nat
  BY DEF BlockWell
<1>4. head = [from |-> b.from, to |-> p, kinds |-> b.kinds, pages |-> b.pages, path |-> b.path]
  BY <1>1, <1>3
<1>5. rest = [from |-> p, to |-> b.to, kinds |-> b.kinds, pages |-> b.pages, path |-> b.path]
  BY <1>2, <1>3
<1>6. /\ head.from = b.from /\ head.to = p /\ head.kinds = b.kinds /\ head.pages = b.pages /\ head.path = b.path
      /\ rest.from = p /\ rest.to = b.to /\ rest.kinds = b.kinds /\ rest.pages = b.pages /\ rest.path = b.path
  BY <1>4, <1>5
<1>7. ASSUME NEW mk \in solid
      PROVE  /\ Meets(b.from, p, mk.from, mk.to) => mk.kind \in b.kinds
             /\ Meets(p, b.to, mk.from, mk.to) => mk.kind \in b.kinds
  <2>1. mk.from \in Nat /\ mk.to \in Nat
    BY DEF RegionsWell
  <2>2. Meets(b.from, b.to, mk.from, mk.to) => mk.kind \in b.kinds
    BY DEF BlockWell
  <2> QED
    BY <1>3, <2>1, <2>2, PartIsMet
<1>8. BlockWell(head, solid)
  BY <1>3, <1>4, <1>6, <1>7 DEF BlockWell
<1>9. BlockWell(rest, solid)
  BY <1>3, <1>5, <1>6, <1>7 DEF BlockWell
<1> QED
  BY <1>1, <1>2, <1>6, <1>8, <1>9

(* Consecutive blocks from one place to another. *)
Run(s, from, to, solid) ==
    /\ IsList(s) /\ Consecutive(s, 1, Len(s), solid)
    /\ IF Len(s) = 0 THEN from = to ELSE s[1].from = from /\ s[Len(s)].to = to

(* Blocks taken together are a block. *)
LEMMA CombinedIsWell ==
    ASSUME NEW s, NEW solid, RegionsWell(solid), NEW first \in Nat, NEW last \in Nat, first <= last,
           Consecutive(s, first, last, solid), NEW path
    PROVE  /\ BlockWell(Combined(s, first, last, path), solid)
           /\ Combined(s, first, last, path).from = s[first].from
           /\ Combined(s, first, last, path).to = s[last].to
<1>1. PICK kinds, pages : kinds = UNION {s[i].kinds : i \in first..last} /\ pages = UNION {s[i].pages : i \in first..last}
  OBVIOUS
<1>2. PICK b : b = Combined(s, first, last, path)
  OBVIOUS
<1>3. b = [from |-> s[first].from, to |-> s[last].to, kinds |-> kinds, pages |-> pages, path |-> path]
  BY <1>1, <1>2 DEF Combined
<1>4. b.from = s[first].from /\ b.to = s[last].to /\ b.kinds = kinds /\ b.pages = pages /\ b.path = path
  BY <1>3
<1>5. \A i \in first..last : s[i].from \in Nat /\ s[i].to \in Nat
  BY DEF Consecutive, BlockWell
<1>6. s[first].from < s[last].to
  BY RunGrows
<1>7. ASSUME NEW mk \in solid, Meets(b.from, b.to, mk.from, mk.to)
      PROVE  mk.kind \in kinds
  <2>1. mk.from \in Nat /\ mk.to \in Nat /\ mk.from <= mk.to
    BY DEF RegionsWell
  <2>2. \E i \in first..last : Meets(s[i].from, s[i].to, mk.from, mk.to)
    BY <1>4, <1>7, <2>1, RunIsMet
  <2>3. PICK i \in first..last : mk.kind \in s[i].kinds
    BY <2>2 DEF Consecutive, BlockWell
  <2> QED
    BY <1>1, <2>3
<1>8. b.from \in Nat /\ b.to \in Nat /\ b.from < b.to
  BY <1>4, <1>5, <1>6
<1>9. BlockWell(b, solid)
  BY <1>3, <1>4, <1>7, <1>8 DEF BlockWell
<1> QED
  BY <1>2, <1>4, <1>9

(* Blocks that no letter is in go with others, and nothing is lost.        *)
LEMMA AttachedIsRun ==
    ASSUME NEW s, NEW solid, RegionsWell(solid), NEW from \in Nat, NEW to \in Nat, Run(s, from, to, solid)
    PROVE  Run(Attached(s), from, to, solid)
<1>1. PICK n \in Nat : n = Len(s) /\ DOMAIN s = 1..n
  BY ListFacts DEF Run
<1>2. PICK S : S = {i \in 1..n : Semantic(s[i])}
  OBVIOUS
<1>3. S \in SUBSET (1..n) /\ IsFiniteSet(S) /\ Numbers(S)
  <2>1. S \in SUBSET (1..n)
    BY <1>2
  <2>2. IsFiniteSet(S)
    <3>1. 1 \in Int /\ n \in Int
      OBVIOUS
    <3>2. IsFiniteSet(1..n)
      BY <3>1, FS_Interval
    <3> QED
      BY <2>1, <3>2, FS_Subset
  <2> QED
    BY <2>1, <2>2 DEF Numbers
<1>4. PICK seeds : seeds = InTurn(S)
  OBVIOUS
<1>5. PICK m \in Nat : m = Len(seeds)
  <2>1. seeds \in Seq(S)
    BY <1>3, <1>4, InTurnKeeps
  <2> QED
    BY <2>1
<1>6. /\ DOMAIN seeds = 1..m /\ seeds \in Seq(S) /\ \A k \in 1..m : seeds[k] \in 1..n
      /\ \A k, l \in 1..m : k < l => seeds[k] < seeds[l]
  <2>1. seeds \in Seq(S) /\ \A k, l \in 1..m : k < l => seeds[k] < seeds[l]
    BY <1>3, <1>4, <1>5, InTurnKeeps
  <2>2. DOMAIN seeds = 1..m /\ \A k \in 1..m : seeds[k] \in S
    BY <1>5, <2>1
  <2> QED
    BY <1>3, <2>1, <2>2
<1>7. PICK A : A = Attached(s)
  OBVIOUS
<1>8. CASE m = 0
  <2>1. seeds = <<>>
    BY <1>5, <1>6, <1>8, EmptySeq
  <2>2. A = s
    BY <1>1, <1>2, <1>4, <1>7, <2>1 DEF Attached
  <2> QED
    BY <1>7, <2>2
<1>9. CASE m # 0
  <2> DEFINE first(k) == IF k = 1 THEN 1 ELSE seeds[k]
             last(k) == IF k = m THEN n ELSE seeds[k + 1] - 1
  <2>1. seeds # <<>>
    BY <1>5, <1>9
  <2>2. A = [k \in 1..m |-> Combined(s, first(k), last(k), s[seeds[k]].path)]
    BY <1>1, <1>2, <1>4, <1>5, <1>6, <1>7, <2>1 DEF Attached
  <2>3. IsList(A) /\ Len(A) = m
    BY <2>2, FilledIsList DEF Fills
  <2>4. \A k \in 1..m : first(k) \in 1..n /\ last(k) \in 1..n /\ first(k) <= last(k)
    <3> SUFFICES ASSUME NEW k \in 1..m
                 PROVE  first(k) \in 1..n /\ last(k) \in 1..n /\ first(k) <= last(k)
      OBVIOUS
    <3>1. seeds[k] \in 1..n
      BY <1>6
    <3>2. CASE k = m
      BY <3>1, <3>2
    <3>3. CASE k # m
      <4>1. k + 1 \in 1..m /\ k < k + 1
        BY <3>3
      <4>2. seeds[k + 1] \in 1..n /\ seeds[k] < seeds[k + 1]
        BY <1>6, <4>1
      <4> QED
        BY <3>1, <3>3, <4>2
    <3> QED
      BY <3>2, <3>3
  <2>5. \A k \in 1..m - 1 : last(k) + 1 = first(k + 1)
    <3> SUFFICES ASSUME NEW k \in 1..m - 1
                 PROVE  last(k) + 1 = first(k + 1)
      OBVIOUS
    <3>1. k # m /\ k + 1 # 1 /\ k + 1 \in 1..m
      OBVIOUS
    <3>2. seeds[k + 1] \in 1..n
      BY <1>6, <3>1
    <3> QED
      BY <3>1, <3>2
  <2>6. first(1) = 1 /\ last(m) = n
    OBVIOUS
  <2>7. n # 0
    <3>1. 1 \in 1..m
      BY <1>9
    <3> QED
      BY <2>4, <3>1
  <2>8. Consecutive(s, 1, n, solid) /\ s[1].from = from /\ s[n].to = to
    BY <1>1, <2>7 DEF Run
  <2>9. \A k \in 1..m : /\ BlockWell(A[k], solid)
                        /\ A[k].from = s[first(k)].from /\ A[k].to = s[last(k)].to
    <3> SUFFICES ASSUME NEW k \in 1..m
                 PROVE  /\ BlockWell(A[k], solid)
                        /\ A[k].from = s[first(k)].from /\ A[k].to = s[last(k)].to
      OBVIOUS
    <3>0. PICK path : path = s[seeds[k]].path
      OBVIOUS
    <3>1. PICK f \in 1..n, l \in 1..n : f = first(k) /\ l = last(k)
      BY <2>4
    <3>2. f <= l
      BY <2>4, <3>1
    <3>3. A[k] = Combined(s, f, l, path)
      BY <2>2, <3>0, <3>1
    <3>4. Consecutive(s, f, l, solid)
      BY <2>8, <3>2 DEF Consecutive
    <3>5. f \in Nat /\ l \in Nat
      OBVIOUS
    <3>6. /\ BlockWell(Combined(s, f, l, path), solid)
          /\ Combined(s, f, l, path).from = s[f].from /\ Combined(s, f, l, path).to = s[l].to
      BY <3>2, <3>4, <3>5, CombinedIsWell
    <3> QED
      BY <3>1, <3>3, <3>6
  <2>10. \A k \in 1..m - 1 : A[k].to = A[k + 1].from
    <3> SUFFICES ASSUME NEW k \in 1..m - 1
                 PROVE  A[k].to = A[k + 1].from
      OBVIOUS
    <3>1. k \in 1..m /\ k + 1 \in 1..m
      OBVIOUS
    <3>2. PICK l \in 1..n, f \in 1..n : l = last(k) /\ f = first(k + 1)
      BY <2>4, <3>1
    <3>3. l + 1 = f /\ l \in 1..n - 1
      BY <2>5, <3>2
    <3>4. s[l].to = s[f].from
      BY <2>8, <3>3 DEF Consecutive
    <3> QED
      BY <2>9, <3>1, <3>2, <3>4
  <2>11. A[1].from = from /\ A[m].to = to
    <3>1. 1 \in 1..m /\ m \in 1..m
      BY <1>9
    <3> QED
      BY <2>6, <2>8, <2>9, <3>1
  <2>12. Consecutive(A, 1, m, solid)
    BY <2>9, <2>10 DEF Consecutive
  <2> QED
    BY <1>7, <1>9, <2>3, <2>11, <2>12 DEF Run
<1> QED
  BY <1>8, <1>9

(* The regions that are kept whole if the settings say so. *)
Solid == Marks("table") \cup Marks("code")

(* What is known of a document. *)
LEMMA PaperIs ==
    ASSUME paper \in Papers
    PROVE  /\ Len(Text) \in Nat /\ (Text = <<>> <=> Len(Text) = 0)
           /\ RegionsWell(Solid)
<1>1. PICK p \in Papers : p = paper
  OBVIOUS
<1>2. p.text \in Seq({"a", ".", "-", " ", "P"})
  BY PaperAssumption
<1>0. PICK T : T = {"a", ".", "-", " ", "P"}
  OBVIOUS
<1>3. PICK t : t = p.text /\ t \in Seq(T)
  BY <1>0, <1>2
<1>4. Len(t) \in Nat /\ (t = <<>> <=> Len(t) = 0)
  BY <1>3, EmptySeq
<1>5. \A mk \in p.marks : mk.from \in Nat /\ mk.to \in Nat /\ mk.from <= mk.to
  BY PaperAssumption
<1>6. Solid \subseteq p.marks
  BY <1>1 DEF Solid, Marks
<1> QED
  BY <1>1, <1>3, <1>4, <1>5, <1>6 DEF Text, RegionsWell

(* A block has the kinds of the regions it touches. *)
LEMMA BlockIsWell ==
    ASSUME NEW from \in Nat, NEW to \in Nat, from < to
    PROVE  BlockWell(Block(from, to), Solid) /\ Block(from, to).from = from /\ Block(from, to).to = to
<1>1. PICK b : b = Block(from, to)
  OBVIOUS
<1>2. PICK kinds : kinds = {mk.kind : mk \in {x \in paper.marks : Meets(from, to, x.from, x.to)}}
  OBVIOUS
<1>3. PICK pages : pages = {s.page : s \in {x \in ToSet(paper.pages) : Meets(from, to, x.from, x.to)}} \ {0}
  OBVIOUS
<1>4. PICK path : path = IF knobs.strategy = "window" THEN <<>> ELSE HeadingPath(from)
  OBVIOUS
<1>5. b = [from |-> from, to |-> to, kinds |-> kinds, pages |-> pages, path |-> path]
  BY <1>1, <1>2, <1>3, <1>4 DEF Block
<1>6. b.from = from /\ b.to = to /\ b.kinds = kinds /\ b.pages = pages /\ b.path = path
  BY <1>5
<1>7. \A mk \in Solid : Meets(from, to, mk.from, mk.to) => mk.kind \in kinds
  BY <1>2 DEF Solid, Marks
<1>8. BlockWell(b, Solid)
  BY <1>5, <1>6, <1>7 DEF BlockWell
<1> QED
  BY <1>1, <1>6, <1>8

(* The places where blocks end are in the text, its start and end first.   *)
LEMMA BoundariesAre ==
    ASSUME paper \in Papers
    PROVE  Boundaries \in SUBSET (0..Len(Text)) /\ 0 \in Boundaries /\ Len(Text) \in Boundaries
<1>1. PICK len \in Nat : len = Len(Text)
  BY PaperIs
<1>2. PICK others : Boundaries = {0, len} \cup (others \cap 0..len)
  BY <1>1 DEF Boundaries
<1> QED
  BY <1>1, <1>2

(* From numbers in turn, the first is the smallest and the last the largest. *)
LEMMA EndsInTurn ==
    ASSUME NEW top \in Nat \ {0}, NEW S \in SUBSET (0..top), 0 \in S, top \in S
    PROVE  /\ IsList(InTurn(S)) /\ Len(InTurn(S)) \in Nat /\ Len(InTurn(S)) >= 2
           /\ InTurn(S)[1] = 0 /\ InTurn(S)[Len(InTurn(S))] = top
           /\ \A k \in 1..Len(InTurn(S)) : InTurn(S)[k] \in Nat
           /\ \A k, l \in 1..Len(InTurn(S)) : k < l => InTurn(S)[k] < InTurn(S)[l]
<1>1. IsFiniteSet(S) /\ Numbers(S)
  <2>1. 0 \in Int /\ top \in Int
    OBVIOUS
  <2>2. IsFiniteSet(0..top)
    BY <2>1, FS_Interval
  <2>3. IsFiniteSet(S)
    BY <2>2, FS_Subset
  <2> QED
    BY <2>3 DEF Numbers
<1>2. PICK cuts : cuts = InTurn(S)
  OBVIOUS
<1>3. /\ cuts \in Seq(S) /\ \A x \in S : \E k \in 1..Len(cuts) : cuts[k] = x
      /\ \A k, l \in 1..Len(cuts) : k < l => cuts[k] < cuts[l]
  BY <1>1, <1>2, InTurnKeeps
<1>4. PICK n \in Nat : n = Len(cuts)
  BY <1>3
<1>5. \A k \in 1..n : cuts[k] \in 0..top
  <2>1. \A k \in 1..n : cuts[k] \in S
    BY <1>3, <1>4
  <2> QED
    BY <2>1
<1>6. PICK i \in 1..n : cuts[i] = 0
  BY <1>3, <1>4
<1>7. PICK j \in 1..n : cuts[j] = top
  BY <1>3, <1>4
<1>8. i = 1
  <2>1. CASE 1 < i
    <3>1. 1 \in 1..n
      OBVIOUS
    <3>2. cuts[1] < cuts[i]
      BY <1>3, <1>4, <2>1, <3>1
    <3> QED
      BY <1>5, <1>6, <3>1, <3>2
  <2> QED
    BY <2>1
<1>9. j = n
  <2>1. CASE j < n
    <3>1. n \in 1..n
      OBVIOUS
    <3>2. cuts[j] < cuts[n]
      BY <1>3, <1>4, <2>1, <3>1
    <3> QED
      BY <1>5, <1>7, <3>1, <3>2
  <2> QED
    BY <2>1
<1>10. n >= 2
  <2>1. i # j
    BY <1>6, <1>7
  <2> QED
    BY <1>8, <1>9, <2>1
<1>11. IsList(cuts)
  BY <1>3, SeqIsList
<1> QED
  BY <1>2, <1>3, <1>4, <1>5, <1>6, <1>7, <1>8, <1>9, <1>10, <1>11

(* The blocks of a text go from its start to its end. *)
LEMMA BlocksAreRun ==
    ASSUME paper \in Papers, Text # <<>>
    PROVE  Run(Blocks, 0, Len(Text), Solid)
<1>1. PICK top \in Nat \ {0} : top = Len(Text)
  BY PaperIs
<1>2. RegionsWell(Solid)
  BY PaperIs
<1>3. PICK solid : solid = Solid
  OBVIOUS
<1>4. CASE knobs.strategy = "window"
  <2>1. PICK b : b = Block(0, top)
    OBVIOUS
  <2>2. BlockWell(b, solid) /\ b.from = 0 /\ b.to = top
    <3>1. 0 \in Nat /\ 0 < top
      OBVIOUS
    <3> QED
      BY <1>3, <2>1, <3>1, BlockIsWell
  <2>3. Blocks = <<b>>
    BY <1>1, <1>4, <2>1 DEF Blocks
  <2>4. IsList(<<b>>) /\ Len(<<b>>) = 1 /\ <<b>>[1] = b
    BY OneIsList
  <2>5. Consecutive(<<b>>, 1, 1, solid)
    BY <2>2, <2>4 DEF Consecutive
  <2> QED
    BY <1>1, <1>3, <2>2, <2>3, <2>4, <2>5 DEF Run
<1>5. CASE knobs.strategy # "window"
  <2>1. PICK cuts : cuts = InTurn(Boundaries)
    OBVIOUS
  <2>2. PICK n \in Nat : n = Len(cuts)
    BY <1>1, <2>1, BoundariesAre, EndsInTurn
  <2>3. /\ n >= 2 /\ cuts[1] = 0 /\ cuts[n] = top
        /\ \A k \in 1..n : cuts[k] \in Nat
        /\ \A k, l \in 1..n : k < l => cuts[k] < cuts[l]
    BY <1>1, <2>1, <2>2, BoundariesAre, EndsInTurn
  <2>4. PICK list : list = [i \in 1..n - 1 |-> Block(cuts[i], cuts[i + 1])]
    OBVIOUS
  <2>5. Blocks = Attached(list)
    BY <1>5, <2>1, <2>2, <2>4 DEF Blocks
  <2>6. IsList(list) /\ Len(list) = n - 1
    <3>1. n - 1 \in Nat /\ Fills(list, n - 1)
      BY <2>3, <2>4 DEF Fills
    <3> QED
      BY <3>1, FilledIsList
  <2>7. \A i \in 1..n - 1 : BlockWell(list[i], solid) /\ list[i].from = cuts[i] /\ list[i].to = cuts[i + 1]
    <3> SUFFICES ASSUME NEW i \in 1..n - 1
                 PROVE  BlockWell(list[i], solid) /\ list[i].from = cuts[i] /\ list[i].to = cuts[i + 1]
      OBVIOUS
    <3>1. i \in 1..n /\ i + 1 \in 1..n /\ i < i + 1
      OBVIOUS
    <3>2. PICK f \in Nat, t \in Nat : f = cuts[i] /\ t = cuts[i + 1]
      BY <2>3, <3>1
    <3>3. f < t
      BY <2>3, <3>1, <3>2
    <3>4. list[i] = Block(f, t)
      BY <2>4, <3>2
    <3> QED
      BY <1>3, <3>2, <3>3, <3>4, BlockIsWell
  <2>8. Consecutive(list, 1, n - 1, solid)
    <3>1. \A i \in 1..(n - 1) - 1 : i \in 1..n - 1 /\ i + 1 \in 1..n - 1
      OBVIOUS
    <3> QED
      BY <2>7, <3>1 DEF Consecutive
  <2>9. list[1].from = 0 /\ list[n - 1].to = top
    <3>1. 1 \in 1..n - 1 /\ n - 1 \in 1..n - 1 /\ (n - 1) + 1 = n
      BY <2>3
    <3> QED
      BY <2>3, <2>7, <3>1
  <2>10. Run(list, 0, top, solid)
    BY <2>3, <2>6, <2>8, <2>9 DEF Run
  <2> QED
    BY <1>1, <1>2, <1>3, <2>5, <2>10, AttachedIsRun
<1> QED
  BY <1>4, <1>5

(* What is known of the settings. *)
LEMMA KnobsAre ==
    ASSUME knobs \in ChunkConfigs
    PROVE  /\ knobs.tokens \in Nat \ {0} /\ knobs.overlap \in Nat
           /\ knobs.chars \in Nat \ {0} /\ knobs.ratio \in 0..50
BY ChunkConfigAssumption

(* Of some bounded numbers one is the largest. *)
LEMMA LargestIsThere ==
    ASSUME NEW top \in Nat, NEW S \in SUBSET (0..top), S # {}
    PROVE  Max(S) \in S
<1>0. \A x \in S : x \in Nat
  OBVIOUS
<1> DEFINE above == {n \in Nat : \A x \in S : x <= n}
<1>1. above \in SUBSET Nat /\ above # {}
  <2>1. top \in above
    OBVIOUS
  <2> QED
    BY <2>1
<1>2. PICK n \in above : \A m \in above : n <= m
  <2> HIDE DEF above
  <2> QED
    BY <1>1, LeastNatural
<1>3. n \in S
  <2> SUFFICES ASSUME n \notin S
               PROVE  FALSE
    OBVIOUS
  <2>1. PICK x \in S : x \in Nat
    BY <1>0
  <2>2. \A y \in S : y <= n - 1
    BY <1>2
  <2>3. n - 1 \in above
    BY <1>2, <2>1, <2>2
  <2> QED
    BY <1>2, <2>3
<1>4. \E y \in S : \A x \in S : y >= x
  BY <1>2, <1>3
<1> QED
  BY <1>4 DEF Max

(* A start of a stretch has no more tokens than the places of the stretch  *)
(* up to its end, if no word is cut in two or the last half counts.        *)
LEMMA EndsOfStart ==
    ASSUME NEW from \in Int, NEW to \in Int, NEW i \in Int, i <= to,
           Gap(i - 1) \/ i \in TokenEnds(from, to)
    PROVE  /\ TokenEnds(from, i) \subseteq UpTo(TokenEnds(from, to), i)
           /\ Count(from, i) <= Cardinality(UpTo(TokenEnds(from, to), i))
<1>1. PICK E : E = TokenEnds(from, to) /\ E \in SUBSET (from + 1..to) /\ IsFiniteSet(E)
  BY EndsAreFinite
<1>2. TokenEnds(from, i) \subseteq UpTo(E, i)
  <2> SUFFICES ASSUME NEW x \in TokenEnds(from, i)
               PROVE  x \in E /\ x <= i
    BY DEF UpTo
  <2>1. EndsToken(x, from, i)
    BY EndsAre
  <2>2. CASE x = i
    <3>1. ~Gap(i - 1)
      BY <2>1, <2>2 DEF EndsToken
    <3> QED
      BY <1>1, <2>2, <3>1
  <2>3. CASE x # i
    <3>1. EndsToken(x, from, to)
      BY <2>1, <2>3 DEF EndsToken
    <3>2. x <= i
      BY <2>1 DEF EndsToken
    <3> QED
      BY <1>1, <3>1, <3>2, EndsAre
  <2> QED
    BY <2>2, <2>3
<1>3. PICK U : U = UpTo(E, i)
  OBVIOUS
<1>4. U \in SUBSET E
  BY <1>3 DEF UpTo
<1>5. IsFiniteSet(U)
  BY <1>1, <1>4, FS_Subset
<1>6. TokenEnds(from, i) \in SUBSET U
  BY <1>2, <1>3
<1>7. Cardinality(TokenEnds(from, i)) <= Cardinality(U)
  BY <1>5, <1>6, FS_Subset
<1> QED
  BY <1>1, <1>2, <1>3, <1>7 DEF Count

(* The farthest a piece of a block may reach is within the limits. *)
LEMMA MaximumEndFits ==
    ASSUME knobs \in ChunkConfigs, NEW b, b.from \in Nat, b.to \in Nat, b.from < b.to
    PROVE  /\ MaximumEnd(b, b.from) \in b.from + 1..b.to
           /\ WithinLimit(b.from, MaximumEnd(b, b.from))
<1>1. PICK from \in Nat, to \in Nat : from = b.from /\ to = b.to
  OBVIOUS
<1>2. PICK chars \in Nat \ {0}, tokens \in Nat \ {0} : chars = knobs.chars /\ tokens = knobs.tokens
  BY KnobsAre
<1>3. PICK far : far = Least(to, from + chars)
  OBVIOUS
<1>4. far \in from + 1..to /\ far - from <= chars
  BY <1>1, <1>2, <1>3 DEF Least
<1>5. PICK end : end = MaximumEnd(b, from)
  OBVIOUS
<1>6. CASE Count(from, far) <= tokens
  <2>1. end = far
    BY <1>1, <1>2, <1>3, <1>5, <1>6 DEF MaximumEnd
  <2> QED
    BY <1>1, <1>2, <1>4, <1>5, <1>6, <2>1 DEF WithinLimit
<1>7. CASE ~(Count(from, far) <= tokens)
  <2>0. from \in Int /\ far \in Int
    BY <1>4
  <2>1. PICK E : /\ E = TokenEnds(from, far) /\ E \in SUBSET (from + 1..far) /\ IsFiniteSet(E)
                 /\ Count(from, far) = Cardinality(E) /\ Cardinality(E) \in Nat
    BY <2>0, EndsAreFinite DEF Count
  <2>2. Numbers(E)
    BY <1>4, <2>1 DEF Numbers
  <2>3. tokens \in 1..Cardinality(E)
    BY <1>7, <2>1
  <2>4. \E i \in E : Cardinality(UpTo(E, i)) = tokens
    BY <2>1, <2>2, <2>3, EveryRankIsTaken
  <2>5. end = CHOOSE i \in E : Cardinality({x \in E : x <= i}) = tokens
    BY <1>1, <1>2, <1>3, <1>5, <1>7, <2>1 DEF MaximumEnd
  <2>6. end \in E /\ Cardinality(UpTo(E, end)) = tokens
    BY <2>4, <2>5 DEF UpTo
  <2>7. end \in from + 1..to /\ end - from <= chars /\ end <= far
    BY <1>2, <1>4, <2>1, <2>6
  <2>8. Count(from, end) <= tokens
    <3>1. from \in Int /\ far \in Int /\ end \in Int
      BY <1>4, <2>7
    <3>2. end \in TokenEnds(from, far)
      BY <2>1, <2>6
    <3>3. Count(from, end) <= Cardinality(UpTo(TokenEnds(from, far), end))
      BY <2>7, <3>1, <3>2, EndsOfStart
    <3> QED
      BY <2>1, <2>6, <3>3
  <2> QED
    BY <1>1, <1>2, <1>5, <2>7, <2>8 DEF WithinLimit
<1> QED
  BY <1>6, <1>7

(* A piece of a block is within the limits. *)
LEMMA PieceFits ==
    ASSUME knobs \in ChunkConfigs, NEW b, b.from \in Nat, b.to \in Nat, b.from < b.to
    PROVE  Piece(b) \in b.from + 1..b.to /\ WithinLimit(b.from, Piece(b))
<1>1. PICK from \in Nat, to \in Nat : from = b.from /\ to = b.to /\ from < to
  OBVIOUS
<1>2. PICK end : end = MaximumEnd(b, from)
  OBVIOUS
<1>3. end \in from + 1..to /\ WithinLimit(from, end)
  BY <1>1, <1>2, MaximumEndFits
<1>4. PICK ends : ends = {i \in SentenceEnds(b) : i <= end}
  OBVIOUS
<1>5. PICK piece : piece = Piece(b)
  OBVIOUS
<1>6. piece = IF ends # {} THEN Max(ends) ELSE end
  BY <1>1, <1>2, <1>4, <1>5 DEF Piece
<1>7. CASE ends = {}
  BY <1>1, <1>3, <1>5, <1>6, <1>7
<1>8. CASE ends # {}
  <2>1. ends \in SUBSET (from + 2..end)
    BY <1>1, <1>3, <1>4 DEF SentenceEnds
  <2>2. piece \in ends
    <3>1. ends \in SUBSET (0..end) /\ end \in Nat
      BY <1>3, <2>1
    <3> QED
      BY <1>6, <1>8, <3>1, LargestIsThere
  <2>3. piece \in from + 1..to /\ piece <= end
    BY <1>3, <2>1, <2>2
  <2>4. Gap(piece - 1)
    <3>1. Blank(piece - 1, piece)
      BY <1>4, <2>2 DEF SentenceEnds
    <3>2. piece - 1 \in piece - 1..piece - 1
      BY <2>3
    <3> QED
      BY <3>1, <3>2 DEF Blank, Gap
  <2>5. Count(from, piece) <= Count(from, end)
    <3>1. PICK E : /\ E = TokenEnds(from, end) /\ IsFiniteSet(E) /\ Count(from, end) = Cardinality(E)
                   /\ Cardinality(E) \in Nat
      BY <1>3, EndsAreFinite DEF Count
    <3>2. Count(from, piece) <= Cardinality(UpTo(E, piece))
      <4>1. from \in Int /\ end \in Int /\ piece \in Int
        BY <1>3, <2>3
      <4> QED
        BY <2>3, <2>4, <3>1, <4>1, EndsOfStart
    <3>3. PICK U : U = UpTo(E, piece)
      OBVIOUS
    <3>4. U \in SUBSET E
      BY <3>3 DEF UpTo
    <3>5. Cardinality(U) <= Cardinality(E) /\ Cardinality(U) \in Nat
      BY <3>1, <3>4, FS_Subset, FS_CardinalityType
    <3>6. Count(from, piece) \in Nat
      <4>1. from \in Int /\ piece \in Int
        BY <2>3
      <4> QED
        BY <4>1, EndsAreFinite
    <3> QED
      BY <3>1, <3>2, <3>3, <3>5, <3>6
  <2>6. WithinLimit(from, piece)
    <3>1. PICK chars \in Nat \ {0}, tokens \in Nat \ {0} : chars = knobs.chars /\ tokens = knobs.tokens
      BY KnobsAre
    <3>0. from \in Int /\ piece \in Int /\ end \in Int
      BY <1>3, <2>3
    <3>2. /\ end - from <= chars /\ Count(from, end) <= tokens
          /\ Count(from, end) \in Nat /\ Count(from, piece) \in Nat
      <4>1. Count(from, end) \in Nat /\ Count(from, piece) \in Nat
        BY <3>0, EndsAreFinite
      <4> QED
        BY <1>3, <3>1, <4>1 DEF WithinLimit
    <3>3. piece - from <= chars /\ Count(from, piece) <= tokens
      BY <1>3, <2>3, <2>5, <3>2
    <3> QED
      BY <3>1, <3>3 DEF WithinLimit
  <2> QED
    BY <1>1, <1>5, <2>3, <2>6
<1> QED
  BY <1>7, <1>8

(* The first block of a run, and the rest of it. *)
LEMMA RunBegins ==
    ASSUME NEW s, NEW solid, NEW from, NEW to, Run(s, from, to, solid), s # <<>>
    PROVE  /\ BlockWell(Head(s), solid) /\ Head(s).from = from
           /\ Run(Tail(s), Head(s).to, to, solid)
<1>1. IsList(s)
  BY DEF Run
<1>2. PICK n \in Nat \ {0} : n = Len(s)
  BY <1>1, HeadAndTail
<1>3. PICK b, t : b = Head(s) /\ t = Tail(s)
  OBVIOUS
<1>4. b = s[1] /\ IsList(t) /\ Len(t) = n - 1 /\ \A i \in 1..n - 1 : t[i] = s[i + 1]
  BY <1>1, <1>2, <1>3, HeadAndTail
<1>5. Consecutive(s, 1, n, solid) /\ s[1].from = from /\ s[n].to = to
  BY <1>2 DEF Run
<1>6. BlockWell(b, solid)
  BY <1>4, <1>5 DEF Consecutive
<1>7. Consecutive(t, 1, n - 1, solid)
  <2>1. \A i \in 1..n - 1 : i + 1 \in 1..n
    OBVIOUS
  <2>2. \A i \in 1..n - 1 : BlockWell(t[i], solid)
    BY <1>4, <1>5, <2>1 DEF Consecutive
  <2>3. \A i \in 1..(n - 1) - 1 : i \in 1..n - 1 /\ i + 1 \in 1..n - 1
    OBVIOUS
  <2>4. \A i \in 1..(n - 1) - 1 : t[i].to = t[i + 1].from
    BY <1>4, <1>5, <2>3 DEF Consecutive
  <2> QED
    BY <2>2, <2>4 DEF Consecutive
<1>8. IF n - 1 = 0 THEN b.to = to ELSE t[1].from = b.to /\ t[n - 1].to = to
  <2>1. CASE n = 1
    BY <1>4, <1>5, <2>1
  <2>2. CASE n # 1
    <3>1. 1 \in 1..n - 1 /\ n - 1 \in 1..n - 1 /\ (n - 1) + 1 = n /\ n - 1 # 0
      BY <2>2
    <3>2. t[1] = s[2] /\ t[n - 1] = s[n] /\ s[1].to = s[2].from
      BY <1>4, <1>5, <3>1 DEF Consecutive
    <3> QED
      BY <1>4, <1>5, <3>1, <3>2
  <2> QED
    BY <2>1, <2>2
<1> QED
  BY <1>3, <1>4, <1>5, <1>6, <1>7, <1>8 DEF Run

(* A run with one more block at its end. *)
LEMMA RunAppended ==
    ASSUME NEW s, NEW solid, NEW from, NEW to, Run(s, from, to, solid),
           NEW b, BlockWell(b, solid), b.from = to
    PROVE  Run(Append(s, b), from, b.to, solid)
<1>1. IsList(s)
  BY DEF Run
<1>2. PICK n \in Nat : n = Len(s)
  BY <1>1, ListFacts
<1>3. PICK t : t = Append(s, b)
  OBVIOUS
<1>4. IsList(t) /\ Len(t) = n + 1 /\ t[n + 1] = b /\ \A i \in 1..n : t[i] = s[i]
  BY <1>1, <1>2, <1>3, AppendedIsList
<1>5. Consecutive(s, 1, n, solid) /\ IF n = 0 THEN from = to ELSE s[1].from = from /\ s[n].to = to
  BY <1>2 DEF Run
<1>6. Consecutive(t, 1, n + 1, solid)
  <2>1. \A i \in 1..n + 1 : i \in 1..n \/ i = n + 1
    OBVIOUS
  <2>2. \A i \in 1..n + 1 : BlockWell(t[i], solid)
    BY <1>4, <1>5, <2>1 DEF Consecutive
  <2>3. \A i \in 1..(n + 1) - 1 : i \in 1..n /\ (i = n \/ (i \in 1..n - 1 /\ i + 1 \in 1..n))
    OBVIOUS
  <2>4. \A i \in 1..(n + 1) - 1 : t[i].to = t[i + 1].from
    BY <1>4, <1>5, <2>3 DEF Consecutive
  <2> QED
    BY <2>2, <2>4 DEF Consecutive
<1>7. t[1].from = from /\ t[n + 1].to = b.to
  <2>1. CASE n = 0
    BY <1>4, <1>5, <2>1
  <2>2. CASE n # 0
    <3>1. 1 \in 1..n
      BY <2>2
    <3> QED
      BY <1>4, <1>5, <2>2, <3>1
  <2> QED
    BY <2>1, <2>2
<1>8. n + 1 # 0
  OBVIOUS
<1> QED
  BY <1>3, <1>4, <1>6, <1>7, <1>8 DEF Run

(* A run with one more block at its start. *)
LEMMA RunPrepended ==
    ASSUME NEW s, NEW solid, NEW to, NEW b, BlockWell(b, solid), Run(s, b.to, to, solid)
    PROVE  Run(<<b>> \o s, b.from, to, solid)
<1>1. IsList(s)
  BY DEF Run
<1>2. PICK n \in Nat : n = Len(s)
  BY <1>1, ListFacts
<1>3. PICK t : t = <<b>> \o s
  OBVIOUS
<1>4. IsList(t) /\ Len(t) = n + 1
  BY <1>1, <1>2, <1>3, OneIsList, JoinedIsList
<1>5. t[1] = b /\ \A i \in 1..n : t[i + 1] = s[i]
  <2>1. PICK T : T = ToSet(s) \cup {b}
    OBVIOUS
  <2>2. s \in Seq(T)
    <3>1. s \in Seq(ToSet(s)) /\ ToSet(s) \subseteq T
      BY <1>1, <2>1 DEF IsList
    <3> QED
      BY <3>1
  <2>3. b \in T
    BY <2>1
  <2> QED
    BY <1>2, <1>3, <2>2, <2>3
<1>6. Consecutive(s, 1, n, solid) /\ IF n = 0 THEN b.to = to ELSE s[1].from = b.to /\ s[n].to = to
  BY <1>2 DEF Run
<1>7. Consecutive(t, 1, n + 1, solid)
  <2>1. \A i \in 1..n + 1 : BlockWell(t[i], solid)
    <3> SUFFICES ASSUME NEW i \in 1..n + 1
                 PROVE  BlockWell(t[i], solid)
      OBVIOUS
    <3>1. CASE i = 1
      BY <1>5, <3>1
    <3>2. CASE i # 1
      <4>1. PICK j : j = i - 1
        OBVIOUS
      <4>2. j \in 1..n /\ j + 1 = i
        BY <3>2, <4>1
      <4>3. t[i] = s[j] /\ BlockWell(s[j], solid)
        BY <1>5, <1>6, <4>2 DEF Consecutive
      <4> QED
        BY <4>3
    <3> QED
      BY <3>1, <3>2
  <2>2. \A i \in 1..(n + 1) - 1 : t[i].to = t[i + 1].from
    <3> SUFFICES ASSUME NEW i \in 1..n
                 PROVE  t[i].to = t[i + 1].from
      OBVIOUS
    <3>1. CASE i = 1
      BY <1>5, <1>6, <3>1
    <3>2. CASE i # 1
      <4>1. PICK j : j = i - 1
        OBVIOUS
      <4>2. j \in 1..n - 1 /\ j \in 1..n /\ j + 1 = i
        BY <3>2, <4>1
      <4>3. t[i] = s[j] /\ t[i + 1] = s[i] /\ s[j].to = s[j + 1].from
        BY <1>5, <1>6, <4>2 DEF Consecutive
      <4> QED
        BY <4>2, <4>3
    <3> QED
      BY <3>1, <3>2
  <2> QED
    BY <2>1, <2>2 DEF Consecutive
<1>8. t[1].from = b.from /\ t[n + 1].to = to
  <2>1. CASE n = 0
    BY <1>5, <1>6, <2>1
  <2>2. CASE n # 0
    <3>1. n \in 1..n
      BY <2>2
    <3> QED
      BY <1>5, <1>6, <2>2, <3>1
  <2> QED
    BY <2>1, <2>2
<1>9. n + 1 # 0
  OBVIOUS
<1> QED
  BY <1>3, <1>4, <1>7, <1>8, <1>9 DEF Run

(* No blocks at all. *)
LEMMA RunOfNone ==
    ASSUME NEW solid, NEW from, NEW s, IsList(s)
    PROVE  /\ s = <<>> <=> Len(s) = 0
           /\ s = <<>> => Run(s, from, from, solid)
<1>1. s \in Seq(ToSet(s))
  BY DEF IsList
<1>2. s = <<>> <=> Len(s) = 0
  BY <1>1, EmptySeq
<1>3. Len(s) = 0 => Consecutive(s, 1, Len(s), solid)
  BY DEF Consecutive
<1> QED
  BY <1>2, <1>3 DEF Run

(* What is counted in a document stays the same while it is. *)
LEMMA CountsStay ==
    ASSUME paper' = paper, knobs' = knobs
    PROVE  /\ Text' = Text /\ Solid' = Solid
           /\ \A from, to : Count(from, to)' = Count(from, to)
           /\ \A from, to : WithinLimit(from, to)' <=> WithinLimit(from, to)
           /\ \A c : ChunkFits(c)' <=> ChunkFits(c)
<1>1. Text' = Text
  BY DEF Text
<1>2. Solid' = Solid
  BY DEF Solid, Marks
<1>3. ASSUME NEW from, NEW to
      PROVE  Count(from, to)' = Count(from, to)
  BY <1>1 DEF Count, TokenEnds, Char
<1>4. ASSUME NEW from, NEW to
      PROVE  WithinLimit(from, to)' <=> WithinLimit(from, to)
  BY <1>3 DEF WithinLimit
<1>5. ASSUME NEW c
      PROVE  ChunkFits(c)' <=> ChunkFits(c)
  <2>1. (Marks("table") \cup Marks("code"))' = Marks("table") \cup Marks("code")
    BY DEF Marks
  <2> QED
    BY <1>3, <2>1 DEF ChunkFits
<1> QED
  BY <1>1, <1>2, <1>3, <1>4, <1>5

(* A chunk is a run of blocks, with an overlap before it or not. *)
SpanWell(c, solid) ==
    /\ c = [from |-> c.from, to |-> c.to, own |-> c.own, blocks |-> c.blocks]
    /\ c.from \in Nat /\ c.own \in Nat /\ c.to \in Nat /\ c.from <= c.own /\ c.own < c.to
    /\ Len(c.blocks) # 0 /\ Run(c.blocks, c.own, c.to, solid)

(* Chunks that continue one another, from the start of the text. *)
SpansTo(list, to, solid) ==
    /\ IsList(list) /\ \A i \in 1..Len(list) : SpanWell(list[i], solid)
    /\ \A i \in 1..Len(list) - 1 : list[i].to = list[i + 1].own
    /\ IF Len(list) = 0 THEN to = 0 ELSE list[1].own = 0 /\ list[Len(list)].to = to

BlocksFit(list) == \A i \in 1..Len(list) : \A b : b = list[i] => WithinLimit(b.from, b.to)

(* While blocks are split, all that has been split and what has not yet are the text. *)
SplittingWell ==
    /\ Text # <<>> /\ spans = <<>>
    /\ \E m \in Nat : Run(whole, 0, m, Solid) /\ Run(blocks, m, Len(Text), Solid)
    /\ BlocksFit(whole)

(* While they are packed, chunks and blocks are the text, and no chunk has an overlap. *)
PackingWell ==
    /\ Text # <<>>
    /\ \E m \in Nat : SpansTo(spans, m, Solid) /\ Run(blocks, m, Len(Text), Solid)
    /\ BlocksFit(blocks)
    /\ \A i \in 1..Len(spans) : \A c : c = spans[i] => c.from = c.own /\ WithinLimit(c.own, c.to)

(* Then the chunks are the text, and those not looked at yet have no overlap. *)
OverlappingWell ==
    /\ Text # <<>> /\ SpansTo(spans, Len(Text), Solid)
    /\ overlapped \in Nat \ {0}
    /\ \A i \in 1..Len(spans) : \A c : c = spans[i] =>
          ChunkFits(c) /\ (i > overlapped => c.from = c.own)

(* What is known of a document at each step of the chunker. *)
ChunkingInv ==
    /\ cstep \in {"off", "start", "split", "pack", "overlap", "done", "failed"}
    /\ cstep # "off" => paper \in Papers /\ knobs \in ChunkConfigs
    /\ cstep = "start" => blocks = <<>> /\ whole = <<>> /\ spans = <<>>
    /\ cstep = "split" => SplittingWell
    /\ cstep = "pack" => PackingWell
    /\ cstep = "overlap" => OverlappingWell
    /\ cstep = "done" => ChunksAreWhole

(* Before anything is chunked there is nothing to break. *)
LEMMA ChunkingStarts == ChunkingInit \/ ChunkingIdle => ChunkingInv
BY DEF ChunkingInit, ChunkingIdle, ChunkingInv

(* The first blocks are the text. *)
LEMMA StartingKeeps == ChunkingInv /\ Starts => ChunkingInv'
<1> SUFFICES ASSUME ChunkingInv, Starts
             PROVE  ChunkingInv'
  OBVIOUS
<1>1. /\ cstep = "start" /\ paper \in Papers /\ knobs \in ChunkConfigs /\ whole = <<>> /\ spans = <<>>
      /\ paper' = paper /\ knobs' = knobs /\ whole' = whole /\ spans' = spans
  BY DEF ChunkingInv, Starts
<1>2. Text' = Text /\ Solid' = Solid
  BY <1>1, CountsStay
<1>3. CASE Text = <<>>
  <2>1. cstep' = "done"
    BY <1>3 DEF Starts
  <2>2. ChunksAreWhole'
    <3>1. spans' = <<>> /\ Text' = <<>>
      BY <1>1, <1>2, <1>3
    <3>2. TextIsCovered'
      BY <3>1, NoneIsList DEF TextIsCovered
    <3>3. DOMAIN spans' = {}
      BY <3>1
    <3> QED
      BY <3>2, <3>3 DEF ChunksAreWhole
  <2> QED
    BY <1>1, <2>1, <2>2 DEF ChunkingInv
<1>4. CASE Text # <<>>
  <2>1. cstep' \in {"split", "failed"} /\ blocks' = Blocks
    BY <1>4 DEF Starts
  <2>2. Run(Blocks, 0, Len(Text), Solid)
    BY <1>1, <1>4, BlocksAreRun
  <2>3. SplittingWell'
    <3>1. Run(<<>>, 0, 0, Solid)
      BY NoneIsList, RunOfNone
    <3>2. Run(whole, 0, 0, Solid)'
      BY <1>1, <1>2, <3>1
    <3>3. Run(blocks, 0, Len(Text), Solid)'
      BY <1>2, <2>1, <2>2
    <3>4. BlocksFit(whole)'
      BY <1>1, NoneIsList DEF BlocksFit
    <3> QED
      BY <1>1, <1>2, <1>4, <3>2, <3>3, <3>4 DEF SplittingWell
  <2> QED
    BY <1>1, <2>1, <2>3 DEF ChunkingInv
<1> QED
  BY <1>3, <1>4

(* A piece is split off the first block, or the block is whole. *)
LEMMA SplittingKeeps == ChunkingInv /\ Splits => ChunkingInv'
<1> SUFFICES ASSUME ChunkingInv, Splits
             PROVE  ChunkingInv'
  OBVIOUS
<1>1. /\ cstep = "split" /\ blocks # <<>> /\ paper \in Papers /\ knobs \in ChunkConfigs /\ SplittingWell
      /\ paper' = paper /\ knobs' = knobs /\ cstep' = cstep /\ spans' = spans
  BY DEF ChunkingInv, Splits
<1>2. /\ Text' = Text /\ Solid' = Solid
      /\ \A from, to : WithinLimit(from, to)' <=> WithinLimit(from, to)
  BY <1>1, CountsStay
<1>3. RegionsWell(Solid)
  BY <1>1, PaperIs
<1>4. PICK m \in Nat : Run(whole, 0, m, Solid) /\ Run(blocks, m, Len(Text), Solid)
  BY <1>1 DEF SplittingWell
<1>5. PICK b, rest : b = Head(blocks) /\ rest = Tail(blocks)
  OBVIOUS
<1>6. BlockWell(b, Solid) /\ b.from = m /\ Run(rest, b.to, Len(Text), Solid)
  BY <1>1, <1>4, <1>5, RunBegins
<1>7. b.from \in Nat /\ b.to \in Nat /\ b.from < b.to
  BY <1>6 DEF BlockWell
<1>8. ASSUME NEW piece, BlockWell(piece, Solid), piece.from = m, WithinLimit(piece.from, piece.to),
             whole' = Append(whole, piece), Run(blocks', piece.to, Len(Text), Solid)
      PROVE  SplittingWell'
  <2>1. Run(whole', 0, piece.to, Solid)
    BY <1>4, <1>8, RunAppended
  <2>2. piece.to \in Nat
    BY <1>8 DEF BlockWell
  <2>3. BlocksFit(whole)'
    <3>1. IsList(whole)
      BY <1>4 DEF Run
    <3>2. PICK n \in Nat : n = Len(whole)
      BY <3>1, ListFacts
    <3>3. Len(whole') = n + 1 /\ whole'[n + 1] = piece /\ \A i \in 1..n : whole'[i] = whole[i]
      BY <1>8, <3>1, <3>2, AppendedIsList
    <3>4. \A i \in 1..n : \A x : x = whole[i] => WithinLimit(x.from, x.to)
      BY <1>1, <3>2 DEF SplittingWell, BlocksFit
    <3>5. \A i \in 1..n + 1 : \A x : x = whole'[i] => WithinLimit(x.from, x.to)
      BY <1>8, <3>3, <3>4
    <3> QED
      BY <1>2, <3>3, <3>5 DEF BlocksFit
  <2> QED
    BY <1>1, <1>2, <1>8, <2>1, <2>2, <2>3 DEF SplittingWell
<1>9. CASE WithinLimit(b.from, b.to)
  <2>1. whole' = Append(whole, b) /\ blocks' = rest
    BY <1>5, <1>9 DEF Splits
  <2>2. SplittingWell'
    BY <1>6, <1>8, <1>9, <2>1
  <2> QED
    BY <1>1, <2>2 DEF ChunkingInv
<1>10. CASE ~WithinLimit(b.from, b.to)
  <2>1. PICK end : end = Piece(b)
    OBVIOUS
  <2>2. end \in b.from + 1..b.to /\ WithinLimit(b.from, end)
    BY <1>1, <1>7, <2>1, PieceFits
  <2>3. end # b.to
    BY <1>10, <2>2
  <2>4. PICK piece, other : piece = [b EXCEPT !.to = end] /\ other = [b EXCEPT !.from = end]
    OBVIOUS
  <2>5. whole' = Append(whole, piece) /\ blocks' = <<other>> \o rest
    BY <1>5, <1>10, <2>1, <2>3, <2>4 DEF Splits
  <2>6. end \in Nat /\ b.from < end /\ end < b.to
    BY <1>7, <2>2, <2>3
  <2>7. /\ BlockWell(piece, Solid) /\ BlockWell(other, Solid)
        /\ piece.from = b.from /\ piece.to = end /\ other.from = end /\ other.to = b.to
    BY <1>3, <1>6, <2>4, <2>6, PartIsWell
  <2>8. Run(blocks', piece.to, Len(Text), Solid)
    BY <1>6, <2>5, <2>7, RunPrepended
  <2>9. SplittingWell'
    BY <1>6, <1>8, <2>2, <2>5, <2>7, <2>8
  <2> QED
    BY <1>1, <2>9 DEF ChunkingInv
<1> QED
  BY <1>9, <1>10

(* A chunk more continues the chunks. *)
LEMMA SpansAppended ==
    ASSUME NEW s, NEW solid, NEW to, SpansTo(s, to, solid), NEW c, SpanWell(c, solid), c.own = to
    PROVE  SpansTo(Append(s, c), c.to, solid)
<1>1. IsList(s)
  BY DEF SpansTo
<1>2. PICK n \in Nat : n = Len(s)
  BY <1>1, ListFacts
<1>3. PICK t : t = Append(s, c)
  OBVIOUS
<1>4. IsList(t) /\ Len(t) = n + 1 /\ t[n + 1] = c /\ \A i \in 1..n : t[i] = s[i]
  BY <1>1, <1>2, <1>3, AppendedIsList
<1>5. /\ \A i \in 1..n : SpanWell(s[i], solid)
      /\ \A i \in 1..n - 1 : s[i].to = s[i + 1].own
      /\ IF n = 0 THEN to = 0 ELSE s[1].own = 0 /\ s[n].to = to
  BY <1>2 DEF SpansTo
<1>6. \A i \in 1..n + 1 : SpanWell(t[i], solid)
  <2>1. \A i \in 1..n + 1 : i \in 1..n \/ i = n + 1
    OBVIOUS
  <2> QED
    BY <1>4, <1>5, <2>1
<1>7. \A i \in 1..(n + 1) - 1 : t[i].to = t[i + 1].own
  <2>1. \A i \in 1..(n + 1) - 1 : i \in 1..n /\ (i = n \/ (i \in 1..n - 1 /\ i + 1 \in 1..n))
    OBVIOUS
  <2> QED
    BY <1>4, <1>5, <2>1
<1>8. t[1].own = 0 /\ t[n + 1].to = c.to
  <2>1. CASE n = 0
    BY <1>4, <1>5, <2>1
  <2>2. CASE n # 0
    <3>1. 1 \in 1..n
      BY <2>2
    <3> QED
      BY <1>4, <1>5, <2>2, <3>1
  <2> QED
    BY <2>1, <2>2
<1>9. n + 1 # 0
  OBVIOUS
<1> QED
  BY <1>3, <1>4, <1>6, <1>7, <1>8, <1>9 DEF SpansTo

(* Without the last chunk they reach to where it begins. *)
LEMMA SpansReopened ==
    ASSUME NEW s, NEW solid, NEW to, SpansTo(s, to, solid), s # <<>>
    PROVE  /\ Len(s) \in Nat \ {0} /\ Last(s) = s[Len(s)] /\ SpanWell(Last(s), solid) /\ Last(s).to = to
           /\ SpansTo(Front(s), Last(s).own, solid)
           /\ Len(Front(s)) = Len(s) - 1 /\ \A i \in 1..Len(s) - 1 : Front(s)[i] = s[i]
<1>1. s \in Seq(ToSet(s)) /\ IsList(s)
  BY DEF SpansTo, IsList
<1>2. PICK n \in Nat \ {0} : n = Len(s)
  BY <1>1, HeadAndTail
<1>3. PICK c : c = Last(s)
  OBVIOUS
<1>4. c = s[n]
  BY <1>2, <1>3 DEF Last
<1>5. /\ \A i \in 1..n : SpanWell(s[i], solid)
      /\ \A i \in 1..n - 1 : s[i].to = s[i + 1].own
      /\ s[1].own = 0 /\ s[n].to = to
  BY <1>2 DEF SpansTo
<1>6. PICK t : t = Front(s)
  OBVIOUS
<1>7. t = SubSeq(s, 1, n - 1)
  BY <1>2, <1>6 DEF Front
<1>8. t \in Seq(ToSet(s)) /\ Len(t) = n - 1 /\ \A i \in 1..n - 1 : t[i] = s[i]
  BY <1>1, <1>2, <1>7
<1>9. IsList(t)
  BY <1>8, SeqIsList
<1>10. /\ \A i \in 1..n - 1 : SpanWell(t[i], solid)
       /\ \A i \in 1..(n - 1) - 1 : t[i].to = t[i + 1].own
  <2>1. \A i \in 1..n - 1 : i \in 1..n
    OBVIOUS
  <2>2. \A i \in 1..(n - 1) - 1 : i \in 1..n - 1 /\ i + 1 \in 1..n - 1
    OBVIOUS
  <2> QED
    BY <1>5, <1>8, <2>1, <2>2
<1>11. IF n - 1 = 0 THEN c.own = 0 ELSE t[1].own = 0 /\ t[n - 1].to = c.own
  <2>1. CASE n = 1
    BY <1>4, <1>5, <2>1
  <2>2. CASE n # 1
    <3>1. 1 \in 1..n - 1 /\ n - 1 \in 1..n - 1 /\ (n - 1) + 1 = n /\ n - 1 # 0
      BY <2>2
    <3> QED
      BY <1>4, <1>5, <1>8, <3>1
  <2> QED
    BY <2>1, <2>2
<1>12. SpansTo(t, c.own, solid)
  BY <1>8, <1>9, <1>10, <1>11 DEF SpansTo
<1>13. SpanWell(c, solid) /\ c.to = to
  BY <1>4, <1>5
<1> QED
  BY <1>2, <1>3, <1>4, <1>6, <1>8, <1>12, <1>13

(* Packing begins with all the blocks, and no chunk. *)
LEMMA BeginningToPackKeeps == ChunkingInv /\ BeginsPacking => ChunkingInv'
<1> SUFFICES ASSUME ChunkingInv, BeginsPacking
             PROVE  ChunkingInv'
  OBVIOUS
<1>1. /\ paper \in Papers /\ knobs \in ChunkConfigs /\ SplittingWell /\ blocks = <<>>
      /\ paper' = paper /\ knobs' = knobs /\ cstep' = "pack" /\ spans' = spans /\ blocks' = whole
  BY DEF ChunkingInv, BeginsPacking
<1>2. /\ Text' = Text /\ Solid' = Solid
      /\ \A from, to : WithinLimit(from, to)' <=> WithinLimit(from, to)
  BY <1>1, CountsStay
<1>3. PICK m \in Nat : Run(whole, 0, m, Solid) /\ Run(blocks, m, Len(Text), Solid)
  BY <1>1 DEF SplittingWell
<1>4. m = Len(Text)
  BY <1>1, <1>3, NoneIsList DEF Run
<1>5. Run(blocks, 0, Len(Text), Solid)'
  BY <1>1, <1>2, <1>3, <1>4
<1>6. SpansTo(spans, 0, Solid)'
  <2>1. SpansTo(<<>>, 0, Solid)
    BY NoneIsList DEF SpansTo
  <2>2. spans' = <<>>
    BY <1>1 DEF SplittingWell
  <2> QED
    BY <1>2, <2>1, <2>2
<1>7. BlocksFit(blocks)'
  BY <1>1, <1>2 DEF SplittingWell, BlocksFit
<1>8. \A i \in 1..Len(spans') : FALSE
  BY <1>1, NoneIsList DEF SplittingWell
<1>9. Text' # <<>>
  BY <1>1, <1>2 DEF SplittingWell
<1>10. PackingWell'
  BY <1>5, <1>6, <1>7, <1>8, <1>9 DEF PackingWell
<1> QED
  BY <1>1, <1>10 DEF ChunkingInv

(* A block opens a chunk or joins the open one. *)
LEMMA PackingKeeps == ChunkingInv /\ Packs => ChunkingInv'
<1> SUFFICES ASSUME ChunkingInv, Packs
             PROVE  ChunkingInv'
  OBVIOUS
<1>1. /\ paper \in Papers /\ knobs \in ChunkConfigs /\ PackingWell /\ blocks # <<>>
      /\ paper' = paper /\ knobs' = knobs /\ cstep' = "pack" /\ blocks' = Tail(blocks)
  BY DEF ChunkingInv, Packs
<1>2. /\ Text' = Text /\ Solid' = Solid
      /\ \A from, to : WithinLimit(from, to)' <=> WithinLimit(from, to)
  BY <1>1, CountsStay
<1>3. PICK m \in Nat : SpansTo(spans, m, Solid) /\ Run(blocks, m, Len(Text), Solid)
  BY <1>1 DEF PackingWell
<1>4. PICK b : b = Head(blocks)
  OBVIOUS
<1>5. BlockWell(b, Solid) /\ b.from = m /\ Run(blocks', b.to, Len(Text), Solid)
  BY <1>1, <1>3, <1>4, RunBegins
<1>6. b.from \in Nat /\ b.to \in Nat /\ b.from < b.to
  BY <1>5 DEF BlockWell
<1>7. WithinLimit(b.from, b.to) /\ BlocksFit(blocks)'
  <2>1. IsList(blocks)
    BY <1>3 DEF Run
  <2>2. PICK n \in Nat \ {0} : n = Len(blocks)
    BY <1>1, <2>1, HeadAndTail
  <2>3. b = blocks[1] /\ Len(blocks') = n - 1 /\ \A i \in 1..n - 1 : blocks'[i] = blocks[i + 1]
    BY <1>1, <1>4, <2>1, <2>2, HeadAndTail
  <2>4. \A i \in 1..n : \A x : x = blocks[i] => WithinLimit(x.from, x.to)
    BY <1>1, <2>2 DEF PackingWell, BlocksFit
  <2>5. 1 \in 1..n /\ \A i \in 1..n - 1 : i + 1 \in 1..n
    OBVIOUS
  <2>6. \A i \in 1..n - 1 : \A x : x = blocks'[i] => WithinLimit(x.from, x.to)
    BY <2>3, <2>4, <2>5
  <2>7. BlocksFit(blocks)'
    BY <1>2, <2>3, <2>6 DEF BlocksFit
  <2> QED
    BY <2>3, <2>4, <2>5, <2>7
<1>8. ASSUME NEW before, NEW k \in Nat, Len(before) = k, \A i \in 1..k : before[i] = spans[i], k <= Len(spans), Len(spans) \in Nat,
             NEW c, SpanWell(c, Solid), SpansTo(before, c.own, Solid), c.to = b.to,
             c.from = c.own, WithinLimit(c.own, c.to), spans' = Append(before, c)
      PROVE  PackingWell'
  <2>1. SpansTo(spans', b.to, Solid)
    BY <1>8, SpansAppended
  <2>2. IsList(before)
    BY <1>8 DEF SpansTo
  <2>3. Len(spans') = k + 1 /\ spans'[k + 1] = c /\ \A i \in 1..k : spans'[i] = spans[i]
    BY <1>8, <2>2, AppendedIsList
  <2>4. \A i \in 1..k : \A x : x = spans[i] => x.from = x.own /\ WithinLimit(x.own, x.to)
    <3>1. \A i \in 1..k : i \in 1..Len(spans)
      BY <1>8
    <3> QED
      BY <1>1, <3>1 DEF PackingWell
  <2>5. \A i \in 1..k + 1 : \A x : x = spans'[i] => x.from = x.own /\ WithinLimit(x.own, x.to)
    <3>1. \A i \in 1..k + 1 : i \in 1..k \/ i = k + 1
      OBVIOUS
    <3> QED
      BY <1>8, <2>3, <2>4, <3>1
  <2> QED
    BY <1>1, <1>2, <1>5, <1>6, <1>7, <2>1, <2>3, <2>5 DEF PackingWell
<1>9. CASE spans' = Append(spans, [from |-> b.from, to |-> b.to, own |-> b.from, blocks |-> <<b>>])
  <2>1. PICK c : c = [from |-> b.from, to |-> b.to, own |-> b.from, blocks |-> <<b>>]
    OBVIOUS
  <2>2. c.from = b.from /\ c.to = b.to /\ c.own = b.from /\ c.blocks = <<b>>
    BY <2>1
  <2>3. Run(<<b>>, b.from, b.to, Solid) /\ Len(<<b>>) = 1
    <3>1. IsList(<<b>>) /\ Len(<<b>>) = 1 /\ <<b>>[1] = b
      BY OneIsList
    <3>2. Consecutive(<<b>>, 1, 1, Solid)
      BY <1>5, <3>1 DEF Consecutive
    <3> QED
      BY <3>1, <3>2 DEF Run
  <2>4. c = [from |-> c.from, to |-> c.to, own |-> c.own, blocks |-> c.blocks]
    BY <2>1, <2>2
  <2>5. SpanWell(c, Solid)
    BY <1>6, <2>2, <2>3, <2>4 DEF SpanWell
  <2>6. IsList(spans)
    BY <1>3 DEF SpansTo
  <2>7. PICK k \in Nat : k = Len(spans)
    BY <2>6, ListFacts
  <2>8. spans' = Append(spans, c)
    BY <1>9, <2>1
  <2>9. PackingWell'
    BY <1>3, <1>5, <1>7, <1>8, <2>2, <2>5, <2>7, <2>8
  <2> QED
    BY <1>1, <2>9 DEF ChunkingInv
<1>10. CASE /\ spans # <<>> /\ WithinLimit(Last(spans).from, b.to)
            /\ spans' = Append(Front(spans), [Last(spans) EXCEPT !.to = b.to, !.blocks = Append(@, b)])
  <2>1. PICK open, before : open = Last(spans) /\ before = Front(spans)
    OBVIOUS
  <2>2. PICK n \in Nat \ {0} : n = Len(spans)
    BY <1>3, <1>10, SpansReopened
  <2>3. /\ open = spans[n] /\ SpanWell(open, Solid) /\ open.to = m /\ SpansTo(before, open.own, Solid)
        /\ Len(before) = n - 1 /\ \A i \in 1..n - 1 : before[i] = spans[i]
    BY <1>3, <1>10, <2>1, <2>2, SpansReopened
  <2>4. open.from = open.own
    <3>1. n \in 1..n
      OBVIOUS
    <3> QED
      BY <1>1, <2>2, <2>3, <3>1 DEF PackingWell
  <2>5. /\ open = [from |-> open.from, to |-> open.to, own |-> open.own, blocks |-> open.blocks]
        /\ open.own \in Nat /\ open.own < m /\ Len(open.blocks) # 0 /\ Run(open.blocks, open.own, m, Solid)
    BY <2>3 DEF SpanWell
  <2>6. PICK more : more = Append(open.blocks, b)
    OBVIOUS
  <2>7. PICK c : c = [open EXCEPT !.to = b.to, !.blocks = Append(@, b)]
    OBVIOUS
  <2>8. c = [from |-> open.from, to |-> b.to, own |-> open.own, blocks |-> more]
    BY <2>5, <2>6, <2>7
  <2>9. c.from = open.own /\ c.to = b.to /\ c.own = open.own /\ c.blocks = more
    BY <2>4, <2>8
  <2>10. Run(more, open.own, b.to, Solid)
    BY <1>5, <2>5, <2>6, RunAppended
  <2>11. Len(more) # 0
    <3>1. IsList(open.blocks)
      BY <2>5 DEF Run
    <3>2. Len(more) = Len(open.blocks) + 1 /\ Len(open.blocks) \in Nat
      BY <2>6, <3>1, AppendedIsList, ListFacts
    <3> QED
      BY <3>2
  <2>12. c = [from |-> c.from, to |-> c.to, own |-> c.own, blocks |-> c.blocks]
    BY <2>8, <2>9, <2>4
  <2>13. SpanWell(c, Solid)
    BY <1>5, <1>6, <2>5, <2>9, <2>10, <2>11, <2>12 DEF SpanWell
  <2>14. spans' = Append(before, c)
    BY <1>10, <2>1, <2>7
  <2>15. WithinLimit(c.own, c.to)
    BY <1>10, <2>1, <2>4, <2>9
  <2>16. PICK k \in Nat : k = n - 1
    OBVIOUS
  <2>18. /\ Len(before) = k /\ k <= Len(spans) /\ Len(spans) \in Nat
         /\ \A i \in 1..k : before[i] = spans[i]
    BY <2>2, <2>3, <2>16
  <2>19. SpansTo(before, c.own, Solid) /\ c.to = b.to /\ c.from = c.own
    BY <2>3, <2>4, <2>9
  <2>17. PackingWell'
    BY <1>8, <2>13, <2>14, <2>15, <2>18, <2>19
  <2> QED
    BY <1>1, <2>17 DEF ChunkingInv
<1>11. \/ spans' = Append(spans, [from |-> b.from, to |-> b.to, own |-> b.from, blocks |-> <<b>>])
       \/ /\ spans # <<>> /\ WithinLimit(Last(spans).from, b.to)
          /\ spans' = Append(Front(spans), [Last(spans) EXCEPT !.to = b.to, !.blocks = Append(@, b)])
  BY <1>4 DEF Packs
<1> QED
  BY <1>9, <1>10, <1>11

(* A chunk without an overlap fits if it is within the limits. *)
LEMMA OwnTextFits ==
    ASSUME knobs \in ChunkConfigs, NEW c, NEW solid, SpanWell(c, solid), c.from = c.own, WithinLimit(c.own, c.to)
    PROVE  ChunkFits(c)
<1>1. PICK own \in Nat : own = c.own
  BY DEF SpanWell
<1>2. PICK zero \in Nat : zero = Count(own, own) /\ zero = 0
  <2>1. own \in Int
    OBVIOUS
  <2>2. TokenEnds(own, own) \in SUBSET (own + 1..own)
    BY <2>1, EndsAreFinite
  <2>3. TokenEnds(own, own) = {}
    BY <2>2
  <2>4. Cardinality({}) = 0
    BY FS_EmptySet
  <2> QED
    BY <2>3, <2>4 DEF Count
<1>3. Count(c.from, c.to) <= knobs.tokens /\ c.to - c.own <= knobs.chars
  BY <1>1 DEF WithinLimit
<1>4. PICK most \in Nat : most = knobs.overlap
  BY KnobsAre
<1>5. Count(c.from, c.own) <= knobs.overlap
  BY <1>1, <1>2, <1>4
<1>6. ~(c.from < c.own)
  BY <1>1
<1> QED
  BY <1>3, <1>5, <1>6 DEF ChunkFits

(* The overlaps begin when all blocks are packed. *)
LEMMA BeginningToOverlapKeeps == ChunkingInv /\ BeginsOverlap => ChunkingInv'
<1> SUFFICES ASSUME ChunkingInv, BeginsOverlap
             PROVE  ChunkingInv'
  OBVIOUS
<1>1. /\ paper \in Papers /\ knobs \in ChunkConfigs /\ PackingWell /\ blocks = <<>>
      /\ paper' = paper /\ knobs' = knobs /\ cstep' = "overlap" /\ spans' = spans /\ overlapped' = 1
  BY DEF ChunkingInv, BeginsOverlap
<1>2. /\ Text' = Text /\ Solid' = Solid
      /\ \A c : ChunkFits(c)' <=> ChunkFits(c)
  BY <1>1, CountsStay
<1>3. PICK m \in Nat : SpansTo(spans, m, Solid) /\ Run(blocks, m, Len(Text), Solid)
  BY <1>1 DEF PackingWell
<1>4. m = Len(Text)
  BY <1>1, <1>3, NoneIsList DEF Run
<1>5. SpansTo(spans, Len(Text), Solid)'
  BY <1>1, <1>2, <1>3, <1>4
<1>6. ASSUME NEW i \in 1..Len(spans), NEW c, c = spans[i]
      PROVE  ChunkFits(c) /\ c.from = c.own
  <2>1. SpanWell(c, Solid)
    BY <1>3, <1>6 DEF SpansTo
  <2>2. c.from = c.own /\ WithinLimit(c.own, c.to)
    BY <1>1, <1>6 DEF PackingWell
  <2> QED
    BY <1>1, <2>1, <2>2, OwnTextFits
<1>7. Text' # <<>>
  BY <1>1, <1>2 DEF PackingWell
<1>8. overlapped' \in Nat \ {0}
  BY <1>1
<1>9. OverlappingWell'
  BY <1>1, <1>2, <1>5, <1>6, <1>7, <1>8 DEF OverlappingWell
<1> QED
  BY <1>1, <1>9 DEF ChunkingInv

(* A share of a number of tokens is a number of tokens. *)
LEMMA ShareIsNatural ==
    ASSUME NEW count \in Nat, NEW ratio \in 0..50
    PROVE  (count * ratio) \div (100 - ratio) \in Nat
<1>1. ratio \in Nat /\ 100 - ratio \in Nat \ {0}
  OBVIOUS
<1>2. count * ratio \in Nat
  BY <1>1
<1> QED
  BY <1>1, <1>2

(* What a chunk takes over is there, not too much for it, and of text. *)
LEMMA OverlapIs ==
    ASSUME knobs \in ChunkConfigs, NEW solid, NEW prev, SpanWell(prev, solid), NEW cur, SpanWell(cur, solid),
           prev.to = cur.own, cur.from = cur.own, ChunkFits(cur),
           NEW n, n = Overlap(prev, cur), n # 0
    PROVE  /\ n \in 1..Count(prev.from, prev.to) /\ n <= knobs.overlap
           /\ Count(TokenStart(prev.from, prev.to, n), cur.to) <= knobs.tokens
           /\ \A i \in DOMAIN prev.blocks : {"table", "code"} \cap prev.blocks[i].kinds = {}
<1>1. PICK from \in Nat, middle \in Nat, to \in Nat : from = prev.from /\ middle = prev.to /\ to = cur.to
  BY DEF SpanWell
<1>2. from < middle /\ middle < to /\ cur.from = middle
  BY <1>1 DEF SpanWell
<1>3. PICK before \in Nat, count \in Nat : before = Count(from, middle) /\ count = Count(middle, to)
  <2>1. from \in Int /\ middle \in Int /\ to \in Int
    OBVIOUS
  <2> QED
    BY <2>1, EndsAreFinite
<1>4. PICK tokens \in Nat, most \in Nat, ratio \in 0..50 :
         tokens = knobs.tokens /\ most = knobs.overlap /\ ratio = knobs.ratio
  BY KnobsAre
<1>5. PICK share : share = (count * ratio) \div (100 - ratio)
  OBVIOUS
<1>6. share \in Nat
  BY <1>5, ShareIsNatural
<1>7. PICK wanted : wanted = Least(Least(most, Most(0, before - 1)), share)
  OBVIOUS
<1>8. wanted \in Nat /\ wanted <= most /\ (wanted # 0 => wanted \in 1..before)
  BY <1>6, <1>7 DEF Least, Most
<1>10. /\ wanted # 0
       /\ \A i \in DOMAIN prev.blocks : {"table", "code"} \cap prev.blocks[i].kinds = {}
       /\ n = IF Count(TokenStart(from, middle, wanted), to) > tokens THEN Least(wanted, Most(0, tokens - count)) ELSE wanted
  BY <1>1, <1>2, <1>3, <1>4, <1>5, <1>7 DEF Overlap
<1>11. CASE ~(Count(TokenStart(from, middle, wanted), to) > tokens)
  <2>1. n = wanted /\ n \in 1..before
    BY <1>8, <1>10, <1>11
  <2>2. TokenStart(from, middle, n) \in from..middle - 1
    BY <1>3, <2>1, TokenStartIs
  <2>3. Count(TokenStart(from, middle, n), to) \in Nat
    <3>1. TokenStart(from, middle, n) \in Int /\ to \in Int
      BY <2>2
    <3> QED
      BY <3>1, EndsAreFinite
  <2>4. Count(TokenStart(from, middle, n), to) <= tokens
    BY <1>11, <2>1, <2>3
  <2> QED
    BY <1>1, <1>3, <1>4, <1>8, <1>10, <2>1, <2>4
<1>12. CASE Count(TokenStart(from, middle, wanted), to) > tokens
  <2>1. n = Least(wanted, Most(0, tokens - count))
    BY <1>10, <1>12
  <2>2. n \in 1..before /\ n <= most /\ n + count <= tokens
    BY <1>8, <1>10, <2>1 DEF Least, Most
  <2>3. PICK start : start = TokenStart(from, middle, n)
    OBVIOUS
  <2>4. start \in from..middle - 1 /\ Count(start, middle) = n
    BY <1>3, <2>2, <2>3, TokenStartIs
  <2>5. Count(start, to) <= Count(start, middle) + Count(middle, to)
    <3>1. start \in Int /\ middle \in Int /\ to \in Int /\ start <= middle /\ middle <= to
      BY <1>2, <2>4
    <3> QED
      BY <3>1, EndsOfBoth
  <2>6. Count(start, to) \in Nat
    <3>1. start \in Int /\ to \in Int
      BY <2>4
    <3> QED
      BY <3>1, EndsAreFinite
  <2>7. Count(start, to) <= tokens
    BY <1>3, <2>2, <2>4, <2>5, <2>6
  <2> QED
    BY <1>1, <1>3, <1>4, <1>10, <2>2, <2>3, <2>7
<1> QED
  BY <1>11, <1>12

(* What is taken over of a chunk without a table or code has none of it. *)
LEMMA TextIsTakenOver ==
    ASSUME NEW solid, RegionsWell(solid), \A mk \in solid : mk.kind \in {"table", "code"},
           NEW prev, SpanWell(prev, solid),
           prev.from < prev.own => \A mk \in solid : ~Meets(prev.from, prev.own, mk.from, mk.to),
           \A i \in DOMAIN prev.blocks : {"table", "code"} \cap prev.blocks[i].kinds = {},
           NEW start \in prev.from..prev.to - 1
    PROVE  \A mk \in solid : ~Meets(start, prev.to, mk.from, mk.to)
<1>1. PICK from \in Nat, own \in Nat, to \in Nat : from = prev.from /\ own = prev.own /\ to = prev.to
  BY DEF SpanWell
<1>2. from <= own /\ own < to /\ start \in Nat /\ from <= start /\ start < to
  BY <1>1 DEF SpanWell
<1>3. SUFFICES ASSUME NEW mk \in solid, Meets(start, to, mk.from, mk.to)
               PROVE  FALSE
  BY <1>1
<1>4. PICK a \in Nat, z \in Nat : a = mk.from /\ z = mk.to /\ a <= z
  BY DEF RegionsWell
<1>5. PICK s : s = prev.blocks
  OBVIOUS
<1>6. Run(s, own, to, solid) /\ Len(s) # 0
  BY <1>1, <1>5 DEF SpanWell
<1>7. PICK n \in Nat \ {0} : n = Len(s) /\ DOMAIN s = 1..n
  BY <1>6, ListFacts DEF Run
<1>8. Consecutive(s, 1, n, solid) /\ s[1].from = own /\ s[n].to = to
  BY <1>6, <1>7 DEF Run
<1>9. ~Meets(own, to, a, z)
  <2> SUFFICES ASSUME Meets(own, to, a, z)
               PROVE  FALSE
    OBVIOUS
  <2>1. 1 \in Nat /\ n \in Nat /\ 1 <= n
    OBVIOUS
  <2>2. Meets(s[1].from, s[n].to, a, z)
    BY <1>8
  <2>3. \E i \in 1..n : Meets(s[i].from, s[i].to, a, z)
    BY <1>4, <1>8, <2>1, <2>2, RunIsMet
  <2>4. PICK i \in 1..n : Meets(s[i].from, s[i].to, a, z)
    BY <2>3
  <2>5. mk.kind \in s[i].kinds
    BY <1>4, <1>8, <2>4 DEF Consecutive, BlockWell
  <2>6. {"table", "code"} \cap s[i].kinds = {}
    BY <1>5, <1>7
  <2> QED
    BY <2>5, <2>6
<1>10. CASE own <= start
  <2>1. Meets(own, to, a, z)
    BY <1>2, <1>3, <1>4, <1>10, PartIsMet
  <2> QED
    BY <1>9, <2>1
<1>11. CASE ~(own <= start)
  <2>1. Meets(start, own, a, z)
    <3>1. start < own
      BY <1>2, <1>11
    <3> QED
      BY <1>2, <1>3, <1>4, <1>9, <3>1, HalvesAreMet
  <2>2. from < own
    BY <1>2, <1>11
  <2>3. ~Meets(from, own, a, z)
    BY <1>1, <1>4, <2>2
  <2>4. start < own /\ own <= own
    BY <1>2, <1>11
  <2>5. Meets(from, own, a, z)
    BY <1>2, <2>1, <2>4, PartIsMet
  <2> QED
    BY <2>3, <2>5
<1> QED
  BY <1>10, <1>11

(* One chunk of those that continue one another begins elsewhere. *)
LEMMA SpanReplaced ==
    ASSUME NEW s, NEW solid, NEW to, SpansTo(s, to, solid), NEW k \in 1..Len(s),
           NEW c, SpanWell(c, solid), c.own = s[k].own, c.to = s[k].to
    PROVE  /\ SpansTo([s EXCEPT ![k] = c], to, solid)
           /\ Len([s EXCEPT ![k] = c]) = Len(s)
           /\ [s EXCEPT ![k] = c][k] = c
           /\ \A i \in 1..Len(s) : i # k => [s EXCEPT ![k] = c][i] = s[i]
<1>1. IsList(s)
  BY DEF SpansTo
<1>2. PICK n \in Nat : n = Len(s) /\ DOMAIN s = 1..n
  BY <1>1, ListFacts
<1>3. PICK t : t = [s EXCEPT ![k] = c]
  OBVIOUS
<1>4. DOMAIN t = 1..n /\ t[k] = c /\ \A i \in 1..n : i # k => t[i] = s[i]
  BY <1>2, <1>3
<1>5. t = [i \in 1..n |-> t[i]]
  BY <1>2, <1>3
<1>6. IsList(t) /\ Len(t) = n
  BY <1>4, <1>5, FilledIsList DEF Fills
<1>7. /\ \A i \in 1..n : SpanWell(s[i], solid)
      /\ \A i \in 1..n - 1 : s[i].to = s[i + 1].own
      /\ IF n = 0 THEN to = 0 ELSE s[1].own = 0 /\ s[n].to = to
  BY <1>2 DEF SpansTo
<1>8. \A i \in 1..n : SpanWell(t[i], solid) /\ t[i].own = s[i].own /\ t[i].to = s[i].to
  BY <1>4, <1>7
<1>9. \A i \in 1..n - 1 : t[i].to = t[i + 1].own
  <2>1. \A i \in 1..n - 1 : i \in 1..n /\ i + 1 \in 1..n
    OBVIOUS
  <2> QED
    BY <1>7, <1>8, <2>1
<1>10. n # 0 /\ 1 \in 1..n /\ n \in 1..n
  BY <1>2
<1>11. t[1].own = 0 /\ t[n].to = to
  BY <1>7, <1>8, <1>10
<1>12. SpansTo(t, to, solid)
  BY <1>6, <1>8, <1>9, <1>10, <1>11 DEF SpansTo
<1> QED
  BY <1>2, <1>3, <1>4, <1>6, <1>12

(* The next chunk takes over the end of the one before it. *)
LEMMA OverlappingKeeps == ChunkingInv /\ Overlaps => ChunkingInv'
<1> SUFFICES ASSUME ChunkingInv, Overlaps
             PROVE  ChunkingInv'
  OBVIOUS
<1>1. /\ paper \in Papers /\ knobs \in ChunkConfigs /\ OverlappingWell /\ overlapped < Len(spans)
      /\ paper' = paper /\ knobs' = knobs /\ cstep' = "overlap" /\ overlapped' = overlapped + 1
  BY DEF ChunkingInv, Overlaps
<1>2. /\ Text' = Text /\ Solid' = Solid
      /\ \A c : ChunkFits(c)' <=> ChunkFits(c)
  BY <1>1, CountsStay
<1>3. PICK k \in Nat \ {0}, len \in Nat : k = overlapped /\ len = Len(spans)
  <2>1. IsList(spans)
    BY <1>1 DEF OverlappingWell, SpansTo
  <2> QED
    BY <1>1, <2>1, ListFacts DEF OverlappingWell
<1>4. k \in 1..len /\ k + 1 \in 1..len /\ k \in 1..len - 1
  BY <1>1, <1>3
<1>5. PICK solid : solid = Solid
  OBVIOUS
<1>6. PICK prev, cur : prev = spans[k] /\ cur = spans[k + 1]
  OBVIOUS
<1>7. /\ SpansTo(spans, Len(Text), solid) /\ Text # <<>>
      /\ \A i \in 1..len : \A c : c = spans[i] => ChunkFits(c) /\ (i > k => c.from = c.own)
  BY <1>1, <1>3, <1>5 DEF OverlappingWell
<1>8. /\ SpanWell(prev, solid) /\ SpanWell(cur, solid) /\ prev.to = cur.own
  BY <1>3, <1>4, <1>6, <1>7 DEF SpansTo
<1>9. ChunkFits(prev) /\ ChunkFits(cur) /\ cur.from = cur.own
  <2>1. k + 1 > k
    OBVIOUS
  <2> QED
    BY <1>4, <1>6, <1>7, <2>1
<1>10. PICK n : n = Overlap(prev, cur)
  OBVIOUS
<1>11. CASE n = 0
  <2>1. spans' = spans
    BY <1>3, <1>6, <1>10, <1>11 DEF Overlaps
  <2>2. SpansTo(spans, Len(Text), Solid)'
    BY <1>2, <1>5, <1>7, <2>1
  <2>3. \A i \in 1..len : \A c : c = spans[i] => ChunkFits(c) /\ (i > k + 1 => c.from = c.own)
    BY <1>7
  <2>4. overlapped' \in Nat \ {0} /\ overlapped' = k + 1
    BY <1>1, <1>3
  <2>5. OverlappingWell'
    BY <1>2, <1>3, <1>7, <2>1, <2>2, <2>3, <2>4 DEF OverlappingWell
  <2> QED
    BY <1>1, <2>5 DEF ChunkingInv
<1>12. CASE n # 0
  <2>1. PICK start : start = TokenStart(prev.from, prev.to, n)
    OBVIOUS
  <2>2. PICK c : c = [cur EXCEPT !.from = start]
    OBVIOUS
  <2>3. spans' = [spans EXCEPT ![k + 1] = c]
    <3>1. spans' = [spans EXCEPT ![k + 1].from = start]
      BY <1>3, <1>6, <1>10, <1>12, <2>1 DEF Overlaps
    <3> QED
      BY <1>6, <2>2, <3>1
  <2>4. /\ n \in 1..Count(prev.from, prev.to) /\ n <= knobs.overlap
        /\ Count(start, cur.to) <= knobs.tokens
        /\ \A i \in DOMAIN prev.blocks : {"table", "code"} \cap prev.blocks[i].kinds = {}
    BY <1>1, <1>8, <1>9, <1>10, <1>12, <2>1, OverlapIs
  <2>5. PICK from \in Nat, to \in Nat, end \in Nat :
           /\ from = prev.from /\ to = prev.to /\ end = cur.to /\ from < to /\ to < end /\ cur.own = to
    BY <1>8 DEF SpanWell
  <2>6. start \in from..to - 1 /\ Count(start, to) = n
    BY <2>1, <2>4, <2>5, TokenStartIs
  <2>7. c = [from |-> start, to |-> end, own |-> to, blocks |-> cur.blocks]
    <3>1. cur = [from |-> cur.from, to |-> cur.to, own |-> cur.own, blocks |-> cur.blocks]
      BY <1>8 DEF SpanWell
    <3> QED
      BY <2>2, <2>5, <3>1
  <2>8. c.from = start /\ c.to = end /\ c.own = to /\ c.blocks = cur.blocks
    BY <2>7
  <2>9. SpanWell(c, solid)
    <3>1. c = [from |-> c.from, to |-> c.to, own |-> c.own, blocks |-> c.blocks]
      BY <2>7, <2>8
    <3>2. start \in Nat /\ start <= to
      BY <2>6
    <3>3. Len(c.blocks) # 0 /\ Run(c.blocks, to, end, solid)
      BY <1>8, <2>5, <2>8 DEF SpanWell
    <3> QED
      BY <2>5, <2>8, <3>1, <3>2, <3>3 DEF SpanWell
  <2>10. ChunkFits(c)
    <3>1. Count(c.from, c.to) <= knobs.tokens
      BY <2>4, <2>5, <2>8
    <3>2. c.to - c.own <= knobs.chars
      BY <1>9, <2>5, <2>8 DEF ChunkFits
    <3>3. Count(c.from, c.own) <= knobs.overlap
      BY <2>4, <2>6, <2>8
    <3>4. \A mk \in solid : ~Meets(c.from, c.own, mk.from, mk.to)
      <4>1. RegionsWell(solid)
        BY <1>1, <1>5, PaperIs
      <4>2. \A mk \in solid : mk.kind \in {"table", "code"}
        BY <1>5 DEF Solid, Marks
      <4>3. prev.from < prev.own => \A mk \in solid : ~Meets(prev.from, prev.own, mk.from, mk.to)
        BY <1>5, <1>9 DEF ChunkFits, Solid
      <4>4. start \in prev.from..prev.to - 1
        BY <2>5, <2>6
      <4>5. \A mk \in solid : ~Meets(start, prev.to, mk.from, mk.to)
        BY <1>8, <2>4, <4>1, <4>2, <4>3, <4>4, TextIsTakenOver
      <4> QED
        BY <2>5, <2>8, <4>5
    <3> QED
      BY <1>5, <3>1, <3>2, <3>3, <3>4 DEF ChunkFits, Solid
  <2>11. /\ SpansTo(spans', Len(Text), solid) /\ Len(spans') = len /\ spans'[k + 1] = c
         /\ \A i \in 1..len : i # k + 1 => spans'[i] = spans[i]
    <3>1. PICK j \in 1..Len(spans) : j = k + 1
      BY <1>3, <1>4
    <3>2. c.own = spans[j].own /\ c.to = spans[j].to
      BY <1>6, <2>5, <2>8, <3>1
    <3>3. PICK t : t = [spans EXCEPT ![j] = c]
      OBVIOUS
    <3>4. /\ SpansTo(t, Len(Text), solid) /\ Len(t) = Len(spans) /\ t[j] = c
          /\ \A i \in 1..Len(spans) : i # j => t[i] = spans[i]
      <4>1. PICK top, s : top = Len(Text) /\ s = spans
        OBVIOUS
      <4>2. SpansTo(s, top, solid) /\ j \in 1..Len(s) /\ c.own = s[j].own /\ c.to = s[j].to /\ t = [s EXCEPT ![j] = c]
        BY <1>7, <3>2, <3>3, <4>1
      <4>3. SpansTo(t, top, solid)
        BY <2>9, <4>2, SpanReplaced
      <4>4. Len(t) = Len(s) /\ t[j] = c
        BY <2>9, <4>2, SpanReplaced
      <4>5. \A i \in 1..Len(s) : i # j => t[i] = s[i]
        BY <2>9, <4>2, SpanReplaced
      <4> QED
        BY <4>1, <4>3, <4>4, <4>5
    <3>5. spans' = t
      BY <2>3, <3>1, <3>3
    <3> QED
      BY <1>3, <3>1, <3>4, <3>5
  <2>12. \A i \in 1..len : \A x : x = spans'[i] => ChunkFits(x) /\ (i > k + 1 => x.from = x.own)
    <3> SUFFICES ASSUME NEW i \in 1..len, NEW x, x = spans'[i]
                 PROVE  ChunkFits(x) /\ (i > k + 1 => x.from = x.own)
      OBVIOUS
    <3>1. CASE i = k + 1
      BY <2>10, <2>11, <3>1
    <3>2. CASE i # k + 1
      BY <1>7, <2>11, <3>2
    <3> QED
      BY <3>1, <3>2
  <2>13. overlapped' \in Nat \ {0} /\ overlapped' = k + 1
    BY <1>1, <1>3
  <2>14. OverlappingWell'
    BY <1>2, <1>5, <1>7, <2>11, <2>12, <2>13 DEF OverlappingWell
  <2> QED
    BY <1>1, <2>14 DEF ChunkingInv
<1> QED
  BY <1>11, <1>12

(* The chunks that are returned are the text, each within its limits. *)
LEMMA OverlappedIsWhole == paper \in Papers /\ OverlappingWell => TextIsCovered /\ \A i \in DOMAIN spans : ChunkFits(spans[i])
<1> SUFFICES ASSUME paper \in Papers, OverlappingWell
             PROVE  TextIsCovered /\ \A i \in DOMAIN spans : ChunkFits(spans[i])
  OBVIOUS
<1>1. SpansTo(spans, Len(Text), Solid) /\ Text # <<>> /\ IsList(spans)
  BY DEF OverlappingWell, SpansTo
<1>2. PICK n \in Nat : n = Len(spans) /\ DOMAIN spans = 1..n
  BY <1>1, ListFacts
<1>3. /\ \A i \in 1..n - 1 : spans[i].to = spans[i + 1].own
      /\ IF n = 0 THEN Len(Text) = 0 ELSE spans[1].own = 0 /\ spans[n].to = Len(Text)
  BY <1>1, <1>2 DEF SpansTo
<1>4. n # 0
  BY <1>1, <1>3, PaperIs
<1>5. spans # <<>>
  BY <1>2, <1>4, NoneIsList
<1>6. Head(spans) = spans[1] /\ Last(spans) = spans[n]
  BY <1>1, <1>2, <1>5, HeadAndTail DEF Last
<1>7. TextIsCovered
  BY <1>1, <1>2, <1>3, <1>4, <1>5, <1>6 DEF TextIsCovered
<1>8. \A i \in DOMAIN spans : ChunkFits(spans[i])
  BY <1>2 DEF OverlappingWell
<1> QED
  BY <1>7, <1>8

(* With that the chunks are returned, or nothing is. *)
LEMMA ReturningKeeps == ChunkingInv /\ (Chunked \/ UNCHANGED chunkingVars) => ChunkingInv'
<1> SUFFICES ASSUME ChunkingInv, Chunked \/ UNCHANGED chunkingVars
             PROVE  ChunkingInv'
  OBVIOUS
<1>1. /\ paper' = paper /\ knobs' = knobs /\ spans' = spans /\ blocks' = blocks /\ whole' = whole
      /\ overlapped' = overlapped
  BY DEF Chunked, chunkingVars
<1>2. /\ Text' = Text /\ Solid' = Solid
      /\ \A from, to : WithinLimit(from, to)' <=> WithinLimit(from, to)
      /\ \A c : ChunkFits(c)' <=> ChunkFits(c)
  BY <1>1, CountsStay
<1>3. TextIsCovered /\ (\A i \in DOMAIN spans : ChunkFits(spans[i])) =>
        (TextIsCovered /\ \A i \in DOMAIN spans : ChunkFits(spans[i]))'
  BY <1>1, <1>2 DEF TextIsCovered
<1>4. CASE Chunked
  <2>1. /\ paper \in Papers /\ knobs \in ChunkConfigs /\ OverlappingWell /\ cstep' \in {"failed", "done"}
    BY <1>4 DEF ChunkingInv, Chunked
  <2>2. ChunksAreWhole'
    BY <1>3, <2>1, OverlappedIsWhole DEF ChunksAreWhole
  <2> QED
    BY <1>1, <2>1, <2>2 DEF ChunkingInv
<1>5. CASE UNCHANGED chunkingVars
  <2>1. cstep' = cstep
    BY <1>5 DEF chunkingVars
  <2>2. SplittingWell => SplittingWell'
    BY <1>1, <1>2 DEF SplittingWell, BlocksFit
  <2>3. PackingWell => PackingWell'
    BY <1>1, <1>2 DEF PackingWell, BlocksFit
  <2>4. OverlappingWell => OverlappingWell'
    BY <1>1, <1>2 DEF OverlappingWell
  <2>5. ChunksAreWhole => ChunksAreWhole'
    BY <1>3, <2>1 DEF ChunksAreWhole
  <2> QED
    BY <1>1, <2>1, <2>2, <2>3, <2>4, <2>5 DEF ChunkingInv
<1> QED
  BY <1>4, <1>5

(* No step of the chunker breaks the invariant. *)
LEMMA ChunkingSteps == ChunkingInv /\ [ChunkingNext]_chunkingVars => ChunkingInv'
BY StartingKeeps, SplittingKeeps, BeginningToPackKeeps, PackingKeeps, BeginningToOverlapKeeps,
   OverlappingKeeps, ReturningKeeps DEF ChunkingNext

(* So it is within the composition the runs check. *)
LEMMA ChunkingInParts ==
    /\ Init => ChunkingInv
    /\ ChunkingInv /\ [Next]_partsVars => ChunkingInv'
<1>1. Init => ChunkingInit \/ ChunkingIdle
  BY DEF Init, AllIdle
<1>2. [Next]_partsVars => [ChunkingNext]_chunkingVars
  BY DEF Next, StillIdle, partsVars
<1> QED
  BY <1>1, <1>2, ChunkingStarts, ChunkingSteps

(* Whatever the document and the settings: the chunks that are returned,   *)
(* without what they take over, are the text from its start to its end,    *)
(* each one begins where the one before it ends, none has more tokens or   *)
(* characters than allowed, and what it takes over of the one before it is *)
(* no more than the overlap and has no table or code region in it          *)
(* (chunking/pipeline.py).                                                 *)
THEOREM ChunksStayWhole == PartsSpec => []ChunksAreWhole
<1>1. ChunkingInv => ChunksAreWhole
  BY DEF ChunkingInv, ChunksAreWhole
<1> QED
  BY <1>1, ChunkingInParts, PTL DEF PartsSpec
===============================================================================
