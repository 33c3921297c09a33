------------------------------- MODULE Vicini -------------------------------
(***************************************************************************)
(* The nearest neighbours of geo.nearest                                   *)
(* (plenora-kernels-geo/src/analysis.rs).                                  *)
(*                                                                         *)
(* Every left row is a task of its own: an R-tree on the right envelopes   *)
(* gives it the rows that may be nearest, it finds the minimum and how     *)
(* many rows are at it, takes room for all of them at once from the        *)
(* counter the rows share, and collects them in a second pass.             *)
(*                                                                         *)
(* A geometry is a finite set of points of a line, its envelope the        *)
(* interval around them.  The distance the code computes is the true one,  *)
(* twice, plus an error of at most MaxErrore (none where the geometries    *)
(* touch).                                                                 *)
(* A distance may also be NaN or end in a panic.  An irregular geometry is *)
(* one the error estimate does not cover; the R-tree does not hold it.     *)
(***************************************************************************)
EXTENDS Integers, Sequences, FiniteSets, FiniteSetsExt, SequencesExt, Functions, Margine, Ordine

CONSTANTS
    Nulla, NaN, Panico,
    BytePerVicino,
    MaxErrore,      \* the largest error of a distance
    MargineRelativo \* the margin the window is widened by, MARGINE_RELATIVO * modulo

VARIABLES caso, fase, lavori, condiviso, esito

vars == <<caso, fase, lavori, condiviso, esito>>

Vicini(righe) == [tipo |-> "righe", righe |-> righe]
NonConcluso(riga) == [tipo |-> "errore", riga |-> riga, causa |-> "panico"]

\* usable_right: neither null nor empty.
usable_right(c) == Crescente({j \in DOMAIN c.destra : c.destra[j].punti # {}})
UtileSinistra(c, i) == c.sinistra[i].punti # {}

\* f64::min ignores NaN; NaN is neither below nor equal to anything.
MinF(a, b) == IF a = NaN THEN b ELSE IF b = NaN THEN a ELSE IF b < a THEN b ELSE a
Sotto(a, b) == a # NaN /\ b # NaN /\ a < b
Uguale(a, b) == a # NaN /\ a = b

Distanza(x, y) == IF x < y THEN y - x ELSE x - y
DistanzaVera(p, q) == 2 * Min({Distanza(x, y) : x \in p, y \in q})

\* Euclidean.distance, as the call computes it.
distanza_protetta(c, i, j) ==
    LET vera == DistanzaVera(c.sinistra[i].punti, c.destra[j].punti)
        scarto == c.scarti[i][j]
    IN  IF scarto \in {NaN, Panico} THEN scarto
        ELSE IF vera = 0 THEN 0 ELSE vera + scarto

Involucro(punti) == [lower |-> 2 * Min(punti), upper |-> 2 * Max(punti)]
Interseca(a, b) == a.lower <= b.upper /\ b.lower <= a.upper
\* Twice the distance of an envelope from the centre of another.
DalCentro(a, b) ==
    LET centro == a.lower + a.upper
    IN  Max({0, 2 * b.lower - centro, centro - 2 * b.upper})

-----------------------------------------------------------------------------
\* Mutant: the window is not widened by the error of the distances.
Espansione_senzaMargine(limite) == limite

\* How far the window goes beyond the left envelope: the distance found, and the
\* error of that distance and of the one compared with it.
Espansione(limite) == limite + (MargineRelativo + MargineRelativo)

\* IndiceVicini::visita_candidati: the right rows a left row is compared with, in
\* the order of the visit; Panico if the distance of the first one does.  A row
\* the estimate does not cover is compared with all of them.
visita_candidati(c, i) ==
    LET tutti == usable_right(c)
        albero == Crescente({j \in Range(tutti) : c.destra[j].regolare})
        sempre == Crescente({j \in Range(tutti) : ~c.destra[j].regolare})
        a == Involucro(c.sinistra[i].punti)
        DaQui(j) == DalCentro(a, Involucro(c.destra[j].punti))
        primo == CHOOSE j \in Range(albero) : \A k \in Range(albero) : DaQui(j) <= DaQui(k)
        limite == distanza_protetta(c, i, primo)
        finestra == [lower |-> a.lower - Espansione(limite), upper |-> a.upper + Espansione(limite)]
        trovati == Crescente({j \in Range(albero) : Interseca(Involucro(c.destra[j].punti), finestra)})
    IN  IF ~c.sinistra[i].regolare \/ albero = <<>> THEN tutti
        ELSE IF limite = Panico THEN Panico
        ELSE IF limite = NaN THEN tutti
        ELSE trovati \o sempre
             \o (IF primo \in Range(trovati) THEN <<>> ELSE <<primo>>)

\* The first pass, one distance: the minimum so far, and how many rows are at it.
DopoLaDistanza(prima, d) ==
    LET nuovo == IF prima.minimo = Nulla THEN d ELSE MinF(prima.minimo, d)
        alMinimo == IF Uguale(d, nuovo) THEN 1 ELSE 0
    IN  IF prima.panico \/ d = Panico THEN [prima EXCEPT !.panico = TRUE]
        ELSE IF prima.minimo = Nulla \/ prima.minimo = NaN \/ Sotto(nuovo, prima.minimo)
          THEN [prima EXCEPT !.minimo = nuovo, !.pari = alMinimo]
        ELSE [prima EXCEPT !.pari = prima.pari + alMinimo]

\* The first pass over the rows visited; it ends at a distance that panics.
PrimoGiro(c, i, visita) ==
    LET giro[k \in 0 .. Len(visita)] ==
          IF k = 0 THEN [minimo |-> Nulla, pari |-> 0, panico |-> FALSE]
          ELSE DopoLaDistanza(giro[k - 1], distanza_protetta(c, i, visita[k]))
    IN  giro[Len(visita)]

\* The second pass: the rows at the minimum, by right row, never more than foreseen.
SecondoGiro(c, i, visita, minimo, pari) ==
    LET alMinimo == {k \in DOMAIN visita : Uguale(distanza_protetta(c, i, visita[k]), minimo)}
        primi == {k \in alMinimo : Cardinality({h \in alMinimo : h <= k}) <= pari}
    IN  Crescente({visita[k] : k \in primi})

Tetto(c) == tetto(c.max_results, c.margine, BytePerVicino)
ErroreDelTetto(c) ==
    [tipo |-> IF superato_dalla_memoria(c.max_results, c.margine, BytePerVicino)
                THEN "MargineMemoria" ELSE "ResultLimitExceeded"]

-----------------------------------------------------------------------------
InitVicini(c) ==
    /\ caso = c
    /\ fase = "confronti"
    /\ lavori = [i \in DOMAIN c.sinistra |-> [reso |-> Nulla]]
    /\ condiviso = [conto |-> 0]
    /\ esito = Nulla

DistanzaNonValida(c) == c.max_distance # Nulla /\ c.max_distance < 0

\* The limits that do not depend on the geometries, then the comparisons of the
\* brute force: an empty left geometry counts, an empty right one does not.
Confronti ==
    LET confronti == Cardinality({i \in DOMAIN caso.sinistra : ~caso.sinistra[i].nulla})
                     * Len(usable_right(caso))
    IN  /\ fase = "confronti"
        /\ IF caso.max_comparisons = 0 \/ caso.max_results = 0
             THEN fase' = "fine" /\ esito' = [tipo |-> "InvalidWorkLimit"]
           ELSE IF DistanzaNonValida(caso)
             THEN fase' = "fine" /\ esito' = [tipo |-> "InvalidMaximumDistance"]
           ELSE IF confronti > caso.max_comparisons
             THEN fase' = "fine" /\ esito' = [tipo |-> "WorkLimitExceeded"]
           ELSE fase' = "righe" /\ UNCHANGED esito
        /\ UNCHANGED <<caso, lavori, condiviso>>

\* A left row: everything but the counter is the row's own, so a row is one step.
Riga(i) ==
    LET visita == visita_candidati(caso, i)
        primo == PrimoGiro(caso, i, visita)
        oltre == caso.max_distance # Nulla /\ Sotto(caso.max_distance, primo.minimo)
        accettati == Accettati(condiviso.conto, primo.pari, Tetto(caso))
        trovati == SecondoGiro(caso, i, visita, primo.minimo, primo.pari)
        reso == IF ~UtileSinistra(caso, i) THEN Vicini(<<>>)
                ELSE IF visita = Panico THEN NonConcluso(i)
                ELSE IF primo.panico THEN NonConcluso(i)
                ELSE IF primo.minimo = Nulla \/ oltre THEN Vicini(<<>>)
                ELSE IF ~accettati THEN ErroreDelTetto(caso)
                ELSE IF Len(trovati) # primo.pari THEN [NonConcluso(i) EXCEPT !.causa = "pari"]
                ELSE Vicini([k \in DOMAIN trovati |->
                               <<i, trovati[k], distanza_protetta(caso, i, trovati[k])>>])
    IN  /\ fase = "righe" /\ lavori[i].reso = Nulla
        /\ lavori' = [lavori EXCEPT ![i].reso = reso]
        /\ condiviso' = [condiviso EXCEPT !.conto =
             IF reso.tipo = "righe" THEN condiviso.conto + Len(reso.righe)
             ELSE IF reso = [NonConcluso(i) EXCEPT !.causa = "pari"] THEN condiviso.conto + primo.pari
             ELSE condiviso.conto]
        /\ UNCHANGED <<caso, fase, esito>>

\* As in the spatial join: any other error, the first in row order, before the cap.
Raccoglie ==
    LET resi == [i \in DOMAIN lavori |-> lavori[i].reso]
        errori == {i \in DOMAIN resi : resi[i].tipo = "errore"}
        limiti == {i \in DOMAIN resi : resi[i].tipo \notin {"errore", "righe"}}
    IN  /\ fase = "righe" /\ \A i \in DOMAIN lavori : lavori[i].reso # Nulla
        /\ esito' = IF errori # {} THEN resi[Min(errori)]
                    ELSE IF limiti # {} THEN resi[Min(limiti)]
                    ELSE Vicini(FlattenSeq([i \in DOMAIN resi |-> resi[i].righe]))
        /\ fase' = "fine"
        /\ UNCHANGED <<caso, lavori, condiviso>>

NextVicini ==
    \/ Confronti \/ Raccoglie
    \/ \E i \in DOMAIN lavori : Riga(i)

-----------------------------------------------------------------------------
\* minimum_distances_impl, the row of geo.distance: the minimum over every usable
\* right row, Nulla without one, Panico if a distance does not conclude.
minimum_distances(c, i) ==
    LET destre == usable_right(c)
        giro == PrimoGiro(c, i, destre)
    IN  IF ~UtileSinistra(c, i) \/ destre = <<>> THEN Nulla
        ELSE IF giro.panico THEN Panico ELSE giro.minimo

\* The brute force: every right row at the smallest distance that is a number.  A
\* distance that would not conclude counts for nothing unless the row visits it.
AlMinimo(c, i) ==
    LET distanze == [j \in Range(usable_right(c)) |-> distanza_protetta(c, i, j)]
        numeri == {j \in DOMAIN distanze : distanze[j] \notin {NaN, Panico}}
        minimo == Min({distanze[j] : j \in numeri})
    IN  IF ~UtileSinistra(c, i) \/ numeri = {} THEN {}
        ELSE IF c.max_distance # Nulla /\ minimo > c.max_distance THEN {}
        ELSE {<<i, j, minimo>> : j \in {j \in numeri : distanze[j] = minimo}}

\* Owed for a call in which every distance visited concludes.
Dovuto(c) ==
    LET tutti == UNION {AlMinimo(c, i) : i \in DOMAIN c.sinistra}
        byte == BytePerVicino + c.margine.uscita_per_risultato
        confronti == Cardinality({i \in DOMAIN c.sinistra : ~c.sinistra[i].nulla})
                     * Cardinality({j \in DOMAIN c.destra : c.destra[j].punti # {}})
    IN  IF c.max_comparisons = 0 \/ c.max_results = 0 THEN [tipo |-> "InvalidWorkLimit"]
        ELSE IF DistanzaNonValida(c) THEN [tipo |-> "InvalidMaximumDistance"]
        ELSE IF confronti > c.max_comparisons THEN [tipo |-> "WorkLimitExceeded"]
        ELSE IF Cardinality(tutti) > c.max_results
                /\ (c.margine.byte = MaxByte \/ c.max_results * byte <= c.margine.byte)
          THEN [tipo |-> "ResultLimitExceeded"]
        ELSE IF c.margine.byte # MaxByte /\ Cardinality(tutti) * byte > c.margine.byte
          THEN [tipo |-> "MargineMemoria"]
        ELSE Vicini(CoppieInFila(tutti))

\* A left row whose visit meets a panic, whatever the other rows do.
InPanico(c, i) ==
    /\ UtileSinistra(c, i)
    /\ \/ visita_candidati(c, i) = Panico
       \/ PrimoGiro(c, i, visita_candidati(c, i)).panico

Tenuti(l) == IF l.reso # Nulla /\ l.reso.tipo = "righe" THEN DOMAIN l.reso.righe ELSE {}
ViciniTenuti == UNION {{i} \X Tenuti(lavori[i]) : i \in DOMAIN lavori}
=============================================================================
