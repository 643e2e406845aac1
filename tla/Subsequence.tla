---------------------------- MODULE Subsequence ----------------------------
(***************************************************************************)
(* The order-preserving filter the proxy applies to its vectors of command *)
(* references: util::erase_if, the "skip the null references" loops and    *)
(* the loops that pick the commands bound for one server.                  *)
(*                                                                         *)
(* Keep(s, S) is what SelectSeq(s, LAMBDA x : x \in S) is.  It is written  *)
(* in closed form (the k-th element kept is the one at the k-th smallest   *)
(* kept index) because SelectSeq is defined by recursion, about which      *)
(* nothing can be proved here.                                             *)
(***************************************************************************)
EXTENDS Integers, Sequences, FiniteSets

KeptAt(s, S) == {i \in DOMAIN s : s[i] \in S}

\* The k-th smallest element of a finite set I of positive integers.
Nth(I, k) == CHOOSE i \in I : Cardinality(I \cap (1..i)) = k

Keep(s, S) ==
    LET I == KeptAt(s, S)
    IN  [k \in 1..Cardinality(I) |-> s[Nth(I, k)]]

NoRepeat(s) == \A i, j \in DOMAIN s : s[i] = s[j] => i = j
=============================================================================
