----------------------------- MODULE Selections -----------------------------
(***************************************************************************)
(* What a list comprehension with a condition makes of a list: the kept    *)
(* items, in their order.  Python's [x for x in xs if p(x)] is written     *)
(* KeepAt(xs, {i \in DOMAIN xs : p(xs[i])}).                               *)
(***************************************************************************)
EXTENDS Integers, FiniteSets, Sequences

(* How many elements of S come before x. *)
Rank(S, x) == Cardinality({y \in S : y < x})

(* The elements of a finite set of integers in ascending order.            *)
Ascending(S) == [n \in 1..Cardinality(S) |-> CHOOSE x \in S : Rank(S, x) = n - 1]

(* The items of s at these places. *)
KeepAt(s, S) == LET at == Ascending(S) IN [n \in 1..Cardinality(S) |-> s[at[n]]]

(* The newest n items of a list whose newest come last: xs[-n:].            *)
LastOf(s, n) == IF Len(s) <= n THEN s ELSE SubSeq(s, Len(s) - n + 1, Len(s))
=============================================================================
