------------------------------- MODULE Ordine -------------------------------
(* The members of a finite set as a sequence, by a strict total order: an      *)
(* operator, or a relation given as a set of pairs.  The rank of a member      *)
(* gives its place, so nothing larger than the set is built.                   *)
EXTENDS Naturals, FiniteSets

InOrdine(S, Prima(_, _)) ==
    [ k \in 1 .. Cardinality(S) |->
        CHOOSE x \in S : Cardinality({y \in S : Prima(y, x)}) = k - 1 ]

AlPosto(S, R, k) == CHOOSE x \in S : Cardinality({y \in S : <<y, x>> \in R}) = k - 1
PerRelazione(S, R) == [k \in 1 .. Cardinality(S) |-> AlPosto(S, R, k)]

\* Numbers, the smallest first.
Crescente(S) == PerRelazione(S, {p \in S \X S : p[1] < p[2]})

\* Pairs, or longer tuples, by their first and then by their second number.
CoppieInFila(S) ==
    PerRelazione(S, {p \in S \X S : \/ p[1][1] < p[2][1]
                                    \/ p[1][1] = p[2][1] /\ p[1][2] < p[2][2]})
=============================================================================
