----------------------------- MODULE MCArtefatti -----------------------------
(* Instance of Artefatti for TLC. *)
EXTENDS Artefatti

\* What is checked of a source: the signature always, size and digest on request.
S(attesi) == attesi \cup {"firma"}

MCRichieste ==
    { [difetto |-> "nessuno", sorgenti |-> s, outputs |-> o] :
        s \in {<<S({})>>, <<S({"size"}), S({"sha256"})>>},
        o \in {<<>>, <<"x">>, <<"x", "y">>, <<"y", "x", "z">>} }
    \cup { [difetto |-> d, sorgenti |-> <<S({})>>, outputs |-> <<"x">>] :
             d \in {"contratto", "InvalidConfiguration", "InvalidPlan"} }

=============================================================================
