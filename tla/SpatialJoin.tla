---------------------------- MODULE SpatialJoin ----------------------------
(***************************************************************************)
(* The pairs of geo.spatial_join                                           *)
(* (plenora-kernels-geo/src/spatial_join.rs).                              *)
(*                                                                         *)
(* Every left row is a task of its own; the rows share a counter of the    *)
(* pairs accepted, which never passes the cap (max_pairs or what the       *)
(* memory margin holds).  Which row meets the cap depends on the threads:  *)
(* a row that does stops collecting and still evaluates its candidates,    *)
(* and any other error wins over the cap, the first in row order.          *)
(*                                                                         *)
(* A left row is its candidates, in the order in which the R-tree gives    *)
(* them, each with what the exact predicate answers: "si", "no", or an     *)
(* error (a predicate that does not conclude).  A row without a geometry   *)
(* has none; one whose envelope is refused is invalida.                    *)
(***************************************************************************)
EXTENDS Integers, Sequences, FiniteSets, FiniteSetsExt, SequencesExt, Functions, Margine, Ordine

CONSTANTS Nulla, BytePerCoppia

VARIABLES caso, fase, lavori, condiviso, esito

vars == <<caso, fase, lavori, condiviso, esito>>

Coppie(coppie) == [tipo |-> "righe", righe |-> coppie]
Errore(riga, causa) == [tipo |-> "errore", riga |-> riga, causa |-> causa]

Tetto(c) == tetto(c.max_pairs, c.margine, BytePerCoppia)
ErroreDelTetto(c) ==
    [tipo |-> IF superato_dalla_memoria(c.max_pairs, c.margine, BytePerCoppia)
                THEN "MargineMemoria" ELSE "PairLimitExceeded"]

InitSpaziale(c) ==
    /\ caso = c
    /\ fase = "indice"
    /\ lavori = [i \in DOMAIN c.righe |-> [prossimo |-> 1, tenuti |-> <<>>, oltre |-> FALSE, reso |-> Nulla]]
    /\ condiviso = [conto |-> 0]
    /\ esito = Nulla

\* A limit of zero is refused; then the envelopes of the right side, in order,
\* and the R-tree.
Indice ==
    /\ fase = "indice"
    /\ IF caso.max_pairs = 0 THEN fase' = "fine" /\ esito' = [tipo |-> "InvalidPairLimit"]
       ELSE IF caso.destra_invalida # Nulla
         THEN fase' = "fine" /\ esito' = Errore(0, caso.destra_invalida)
       ELSE fase' = "righe" /\ UNCHANGED esito
    /\ UNCHANGED <<caso, lavori, condiviso>>

InCorso(i) == fase = "righe" /\ lavori[i].reso = Nulla

\* A left row without candidates to evaluate: no geometry, or one refused.
RigaInvalida(i) ==
    /\ InCorso(i) /\ caso.righe[i].invalida
    /\ lavori' = [lavori EXCEPT ![i].reso = Errore(i, "invalida")]
    /\ UNCHANGED <<caso, fase, condiviso, esito>>

\* One candidate: the predicate, then the cap before the pair is kept.
Candidato(i) ==
    LET l == lavori[i]
        candidato == caso.righe[i].candidati[l.prossimo]
        accettata == Accettati(condiviso.conto, 1, Tetto(caso))
        conferma == candidato.predicato = "si" /\ ~l.oltre
    IN  /\ InCorso(i) /\ ~caso.righe[i].invalida /\ l.prossimo <= Len(caso.righe[i].candidati)
        /\ condiviso' = [condiviso EXCEPT !.conto = condiviso.conto + (IF conferma /\ accettata THEN 1 ELSE 0)]
        /\ lavori' = [lavori EXCEPT ![i] =
             IF candidato.predicato \notin {"si", "no"}
               THEN [l EXCEPT !.reso = Errore(i, candidato.predicato), !.tenuti = <<>>]
             ELSE [l EXCEPT !.prossimo = l.prossimo + 1,
                            !.oltre = l.oltre \/ (conferma /\ ~accettata),
                            !.tenuti = IF ~conferma THEN l.tenuti
                                       ELSE IF accettata THEN Append(l.tenuti, candidato.destra)
                                       ELSE <<>>]]
        /\ UNCHANGED <<caso, fase, esito>>

\* The candidates are over: the cap, or the pairs by right row.
RigaFinita(i) ==
    LET l == lavori[i]
        ordinati == Crescente(Range(l.tenuti))
    IN  /\ InCorso(i) /\ ~caso.righe[i].invalida /\ l.prossimo > Len(caso.righe[i].candidati)
        /\ lavori' = [lavori EXCEPT ![i].reso =
             IF l.oltre THEN ErroreDelTetto(caso)
             ELSE Coppie([k \in DOMAIN ordinati |-> <<i, ordinati[k]>>])]
        /\ UNCHANGED <<caso, fase, condiviso, esito>>

\* Mutant: the first error in row order, the cap included, as collecting into a
\* Result does.
Raccoglie_primo ==
    LET resi == [i \in DOMAIN lavori |-> lavori[i].reso]
        errori == {i \in DOMAIN resi : resi[i].tipo # "righe"}
    IN  /\ fase = "righe" /\ \A i \in DOMAIN lavori : lavori[i].reso # Nulla
        /\ esito' = IF errori # {} THEN resi[Min(errori)]
                    ELSE Coppie(FlattenSeq([i \in DOMAIN resi |-> resi[i].righe]))
        /\ fase' = "fine"
        /\ UNCHANGED <<caso, lavori, condiviso>>

\* The groups in row order: the first error that is not the cap, then the cap.
Raccoglie ==
    LET resi == [i \in DOMAIN lavori |-> lavori[i].reso]
        errori == {i \in DOMAIN resi : resi[i].tipo = "errore"}
        limiti == {i \in DOMAIN resi : resi[i].tipo \notin {"errore", "righe"}}
    IN  /\ fase = "righe" /\ \A i \in DOMAIN lavori : lavori[i].reso # Nulla
        /\ esito' = IF errori # {} THEN resi[Min(errori)]
                    ELSE IF limiti # {} THEN resi[Min(limiti)]
                    ELSE Coppie(FlattenSeq([i \in DOMAIN resi |-> resi[i].righe]))
        /\ fase' = "fine"
        /\ UNCHANGED <<caso, lavori, condiviso>>

NextSpaziale ==
    \/ Indice \/ Raccoglie
    \/ \E i \in DOMAIN lavori : RigaInvalida(i) \/ Candidato(i) \/ RigaFinita(i)

-----------------------------------------------------------------------------
\* What the call owes, whatever the threads do: the first error in row order, the
\* limit if the pairs confirmed are more than it, or all of them in order.
Confermate(c) ==
    UNION { {<<i, x.destra>> : x \in {x \in Range(c.righe[i].candidati) : x.predicato = "si"}}
            : i \in DOMAIN c.righe }
RigheInErrore(c) ==
    {i \in DOMAIN c.righe :
        c.righe[i].invalida \/ \E x \in Range(c.righe[i].candidati) : x.predicato \notin {"si", "no"}}
PrimoErrore(riga) ==
    IF riga.invalida THEN "invalida"
    ELSE SelectSeq(riga.candidati, LAMBDA x : x.predicato \notin {"si", "no"})[1].predicato

Dovuto(c) ==
    LET errori == RigheInErrore(c)
        byte == BytePerCoppia + c.margine.uscita_per_risultato
    IN  IF c.max_pairs = 0 THEN [tipo |-> "InvalidPairLimit"]
        ELSE IF c.destra_invalida # Nulla THEN Errore(0, c.destra_invalida)
        ELSE IF errori # {}
          THEN Errore(Min(errori), PrimoErrore(c.righe[Min(errori)]))
        ELSE IF Cardinality(Confermate(c)) > c.max_pairs
                /\ (c.margine.byte = MaxByte \/ c.max_pairs * byte <= c.margine.byte)
          THEN [tipo |-> "PairLimitExceeded"]
        ELSE IF c.margine.byte # MaxByte /\ Cardinality(Confermate(c)) * byte > c.margine.byte
          THEN [tipo |-> "MargineMemoria"]
        ELSE Coppie(CoppieInFila(Confermate(c)))

\* The pairs the rows hold: collected, or already in a group.
Tenute(l) ==
    IF l.reso = Nulla THEN DOMAIN l.tenuti
    ELSE IF l.reso.tipo = "righe" THEN DOMAIN l.reso.righe ELSE {}
CoppieTenute == UNION {{i} \X Tenute(lavori[i]) : i \in DOMAIN lavori}
=============================================================================
