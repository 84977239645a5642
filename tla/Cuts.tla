--------------------------------- MODULE Cuts ---------------------------------
(***************************************************************************)
(* Python's slices, sums and ordered deduplication, as several modules     *)
(* need them.                                                              *)
(***************************************************************************)
EXTENDS Integers, FiniteSets, Sequences, SequencesExt

(* A value that is a sequence. *)
IsList(s) == s \in Seq(ToSet(s))

(* s[:n] *)
Take(s, n) == IF n <= 0 THEN <<>> ELSE SubSeq(s, 1, IF n < Len(s) THEN n ELSE Len(s))

(* s[n:] *)
Drop(s, n) == SubSeq(s, n + 1, Len(s))

(* sorted(S, key=Key), for keys that are different numbers. *)
Ordered(S, Key(_)) ==
    [i \in 1..Cardinality(S) |-> CHOOSE x \in S : Cardinality({y \in S : Key(y) <= Key(x)}) = i]

(* sorted(S), for different numbers. *)
InTurn(S) == Ordered(S, LAMBDA n : n)

(* sorted(S), where Before says which of two different members comes first. *)
Ranked(S, Before(_, _)) ==
    [i \in 1..Cardinality(S) |-> CHOOSE x \in S : Cardinality({y \in S : y = x \/ Before(y, x)}) = i]

(* What a sequence has at some of its places, in its order. *)
Picked(s, places) == LET order == InTurn(places) IN [k \in DOMAIN order |-> s[order[k]]]

(* [x for s in ss for x in s] *)
Chained(ss) ==
    LET upTo[n \in 0..Len(ss)] == IF n = 0 THEN <<>> ELSE upTo[n - 1] \o ss[n] IN upTo[Len(ss)]

(* [x for x in s if P(x)] *)
Those(s, P(_)) == Picked(s, {i \in DOMAIN s : P(s[i])})

(* list(dict.fromkeys(s)) *)
Distinct(s) == Picked(s, {i \in DOMAIN s : \A j \in 1..i - 1 : s[j] # s[i]})

(* sorted(s), for numbers. *)
Sorted(s) ==
    [k \in 1..Len(s) |->
        s[CHOOSE i \in DOMAIN s : Cardinality({j \in DOMAIN s : s[j] < s[i] \/ (s[j] = s[i] /\ j <= i)}) = k]]

(* sum(f[x] for x in S) *)
Total(S, f) ==
    LET total[T \in SUBSET S] ==
            IF T = {} THEN 0 ELSE LET x == CHOOSE x \in T : TRUE IN f[x] + total[T \ {x}]
    IN  total[S]

(* The smaller of two numbers. *)
Least(a, b) == IF a < b THEN a ELSE b

(* The larger of two numbers. *)
Most(a, b) == IF a > b THEN a ELSE b
===============================================================================
