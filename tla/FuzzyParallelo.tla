--------------------------- MODULE FuzzyParallelo ---------------------------
(***************************************************************************)
(* The probe of table.fuzzy_join (plenora-kernels-table/src/fuzzy.rs).     *)
(*                                                                         *)
(* Chunks of left rows run in parallel, each with its own output.  They    *)
(* share a counter of the rows produced and a flag that max_rows is        *)
(* exceeded: whichever chunk passes the limit raises the flag, and the     *)
(* others stop at their next row.  A key is a value or Nulla; Blocco is    *)
(* the blocking key of a value and Simili the pairs of values whose score  *)
(* reaches the threshold; how a score is computed is left out.             *)
(***************************************************************************)
EXTENDS Integers, Sequences, FiniteSets, SequencesExt, Functions, Ordine

CONSTANTS Nulla, MaxUsize, Blocco, Simili

VARIABLES caso, fase, lavori, condiviso, esito

vars == <<caso, fase, lavori, condiviso, esito>>

Limite == [tipo |-> "ResourceLimit"]
TroppiCandidati == [tipo |-> "max_candidates"]
Righe(righe) == [tipo |-> "righe", righe |-> righe]

\* The right rows of each block, in row order.
blocks(c) ==
    [ b \in {Blocco[v] : v \in Range(c.destra) \ {Nulla}} |->
        Crescente({j \in DOMAIN c.destra : c.destra[j] # Nulla /\ Blocco[c.destra[j]] = b}) ]

\* The largest block is checked before the probe, even if no left row falls in it.
TroppoGrande(c) == \E b \in DOMAIN blocks(c) : Len(blocks(c)[b]) > c.max_candidates

\* What one left row of probe_chunk produces.
Prodotte(c, riga) ==
    LET v == c.sinistra[riga]
        candidates == IF v # Nulla /\ Blocco[v] \in DOMAIN blocks(c) THEN blocks(c)[Blocco[v]] ELSE <<>>
        emesse == Crescente({j \in Range(candidates) : <<v, c.destra[j]>> \in Simili})
    IN  IF emesse = <<>> /\ c.how = "left" THEN << <<riga, Nulla>> >>
        ELSE [k \in DOMAIN emesse |-> <<riga, emesse[k]>>]

Intervalli(c) ==
    [ k \in 1 .. (Len(c.sinistra) + c.chunk - 1) \div c.chunk |->
        [ da |-> (k - 1) * c.chunk + 1,
          a  |-> IF k * c.chunk < Len(c.sinistra) THEN k * c.chunk ELSE Len(c.sinistra) ] ]

InitFuzzy(c) ==
    /\ caso = c
    /\ fase = "blocchi"
    /\ lavori = [ k \in DOMAIN Intervalli(c) |->
                    [riga |-> Intervalli(c)[k].da, uscita |-> <<>>, in_corso |-> 0, passo |-> "riga"] ]
    /\ condiviso = [prodotte |-> 0, superato |-> FALSE]
    /\ esito = Nulla

VerificaBlocchi ==
    /\ fase = "blocchi"
    /\ IF TroppoGrande(caso)
         THEN fase' = "fine" /\ esito' = TroppiCandidati
         ELSE fase' = "probe" /\ UNCHANGED esito
    /\ UNCHANGED <<caso, lavori, condiviso>>

\* The next left row of a chunk, unless the flag is up: its output goes to the
\* chunk, and is counted next; a row without output is not counted.
Riga(chunk) ==
    LET l == lavori[chunk]
        nuove == Prodotte(caso, l.riga)
    IN  /\ fase = "probe" /\ l.passo = "riga" /\ l.riga <= Intervalli(caso)[chunk].a
        /\ lavori' = [lavori EXCEPT ![chunk] =
             IF condiviso.superato THEN [l EXCEPT !.passo = "fermo"]
             ELSE [l EXCEPT !.uscita = l.uscita \o nuove,
                            !.in_corso = Len(nuove),
                            !.riga = l.riga + 1,
                            !.passo = IF nuove = <<>> THEN "riga" ELSE "conta"]]
        /\ UNCHANGED <<caso, fase, condiviso, esito>>

\* ContatoreUscita::aggiungi, the fetch_update: a sum past usize leaves the counter
\* as it is, and is past the limit.
Aggiungi(chunk) ==
    LET l == lavori[chunk]
        somma == condiviso.prodotte + l.in_corso
        entro == somma <= MaxUsize /\ somma <= caso.max_rows
    IN  /\ fase = "probe" /\ l.passo = "conta"
        /\ condiviso' = [condiviso EXCEPT !.prodotte = IF somma <= MaxUsize THEN somma ELSE condiviso.prodotte]
        /\ lavori' = [lavori EXCEPT ![chunk] =
             IF entro THEN [l EXCEPT !.passo = "riga", !.in_corso = 0]
             ELSE [l EXCEPT !.passo = "segnala"]]
        /\ UNCHANGED <<caso, fase, esito>>

\* Mutant: the chunk stops without raising the flag.
Segnala_muta(chunk) ==
    /\ fase = "probe" /\ lavori[chunk].passo = "segnala"
    /\ lavori' = [lavori EXCEPT ![chunk].passo = "fermo"]
    /\ UNCHANGED <<caso, fase, condiviso, esito>>

\* ContatoreUscita::aggiungi, the flag; the chunk stops there.
Segnala(chunk) ==
    /\ fase = "probe" /\ lavori[chunk].passo = "segnala"
    /\ condiviso' = [condiviso EXCEPT !.superato = TRUE]
    /\ lavori' = [lavori EXCEPT ![chunk].passo = "fermo"]
    /\ UNCHANGED <<caso, fase, esito>>

Finito(chunk) ==
    \/ lavori[chunk].passo = "fermo"
    \/ lavori[chunk].passo = "riga" /\ lavori[chunk].riga > Intervalli(caso)[chunk].a

\* The chunks in order, or the limit.
Concatena ==
    /\ fase = "probe" /\ \A k \in DOMAIN lavori : Finito(k)
    /\ esito' = IF condiviso.superato THEN Limite
                ELSE Righe(FlattenSeq([k \in DOMAIN lavori |-> lavori[k].uscita]))
    /\ fase' = "fine"
    /\ UNCHANGED <<caso, lavori, condiviso>>

NextFuzzy ==
    \/ VerificaBlocchi \/ Concatena
    \/ \E chunk \in DOMAIN lavori : Riga(chunk) \/ Aggiungi(chunk) \/ Segnala(chunk)

-----------------------------------------------------------------------------
\* What one thread on the whole left side returns: the total is past max_rows or
\* the rows come in the order of the left, and of the right within a row.
Scansione(c) ==
    LET tutte == FlattenSeq([i \in DOMAIN c.sinistra |-> Prodotte(c, i)])
    IN  IF \E b \in Range(Blocco) :
              Cardinality({j \in DOMAIN c.destra : c.destra[j] # Nulla /\ Blocco[c.destra[j]] = b})
                > c.max_candidates
          THEN TroppiCandidati
        ELSE IF Len(tutte) > c.max_rows THEN Limite
        ELSE Righe(tutte)

\* The rows held by the chunks, less the last row each has not counted yet.
RigheContate ==
    UNION {{k} \X (1 .. Len(lavori[k].uscita) - lavori[k].in_corso) : k \in DOMAIN lavori}
=============================================================================
