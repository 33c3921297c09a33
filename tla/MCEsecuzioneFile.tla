-------------------------- MODULE MCEsecuzioneFile --------------------------
(* Instances of EsecuzioneFile for TLC. *)
EXTENDS EsecuzioneFile

\* Two names for each of two entries, and a path without a known format.
MCVoce == [ing |-> "e1", ing_alias |-> "e1", out |-> "e2", out_alias |-> "e2", ignoto |-> "e2"]
MCRiconosciuti == {"ing", "ing_alias", "out", "out_alias"}

F(p) == [tipo |-> "file", percorso |-> p, buffer |-> {}]
T(b) == [tipo |-> "tabella", percorso |-> "nessuno", buffer |-> b]
U(n, p) == [nome |-> n, percorso |-> p]
R(modo, ins, outs, us, s) ==
    [modo |-> modo, ingressi |-> ins, outputs |-> outs, uscite |-> us, sovrascrivi |-> s]

B1 == [inizio |-> 1, capacita |-> 1]
B2 == [inizio |-> 2, capacita |-> 2]
MCBuffer == {B1, B2}

\* Two outputs on two names of one entry, an output on another name of the input,
\* paths that do not match the outputs, a path without a format.
MCRichieste ==
    { R("file", ins, <<"x", "y">>, us, s) :
        ins \in {<<F("ing")>>},
        us \in {<<U("x", "out"), U("y", "out_alias")>>,
                <<U("y", "ing_alias"), U("x", "out")>>},
        s \in BOOLEAN }
    \cup { R("file", <<T({B1}), F("ing")>>, <<"x">>, <<U("x", "out")>>, FALSE) }
    \cup { R("file", <<F(p)>>, <<"x">>, us, TRUE) :
             p \in {"ing", "ignoto"},
             us \in {<<>>, <<U("x", "out")>>, <<U("x", "ignoto")>>, <<U("x", "ing")>>,
                     <<U("x", "out"), U("x", "ing_alias")>>} }
    \cup { R(modo, ins, <<"x">>, <<>>, FALSE) :
             modo \in {"memoria", "valida"},
             ins \in {<<F("ing"), T({B1})>>, <<T({B2}), F("ing")>>, <<T({B1}), T({B2})>>, <<>>} }

=============================================================================
