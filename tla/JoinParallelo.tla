--------------------------- MODULE JoinParallelo ---------------------------
(***************************************************************************)
(* The rows of table.join (plenora-kernels-table/src/joins.rs).            *)
(*                                                                         *)
(* The fast path counts first and fills later, both over chunks of left    *)
(* rows that run in parallel: the counts decide whether the output fits    *)
(* max_rows before anything is allocated, and the prefix sums of the       *)
(* counts give every chunk its own segment of the output.  With right and  *)
(* outer, the chunks also mark the right rows that found a match, in flags *)
(* they share.  Keys of a type the fast path does not take go through the  *)
(* generic path, which is sequential.                                      *)
(*                                                                         *)
(* A key is a value or Nulla (a null in some key column); a row of the     *)
(* output is a pair of row numbers, Nulla where one side is missing, and   *)
(* the key it shows.                                                       *)
(***************************************************************************)
EXTENDS Integers, Sequences, FiniteSets, SequencesExt, Functions, Ordine

CONSTANTS
    Nulla,          \* no value
    SogliaProbe,    \* MIN_RIGHE_PROBE_PARALLELO
    ChunkProbe,     \* CHUNK_PROBE
    MaxUsize        \* the largest usize

VARIABLES
    caso,           \* the call
    fase,           \* the phase the call is in
    lavori,         \* what each chunk has of its own
    condiviso,      \* what the chunks share
    esito           \* what the call returns, Nulla before

vars == <<caso, fase, lavori, condiviso, esito>>

\* Mutant: saturating_add, so that an overflow looks like the largest limit.
Somma_satura(a, b) == IF a + b > MaxUsize THEN MaxUsize ELSE a + b

\* A sum the code makes with checked_add: past usize it stays past it, and every
\* such overflow is reported as max_rows exceeded.
Somma(a, b) == IF a + b > MaxUsize THEN MaxUsize + 1 ELSE a + b
Totale(conti) ==
    LET fino[k \in 0 .. Len(conti)] == IF k = 0 THEN 0 ELSE Somma(fino[k - 1], conti[k])
    IN  fino[Len(conti)]

Limite == [tipo |-> "ResourceLimit"]
Interno == [tipo |-> "Internal"]
Righe(coppie) == [tipo |-> "righe", righe |-> coppie]

TieneSinistra(c) == c.how \in {"left", "outer"}
serve_destra(c) == c.how \in {"right", "outer"}

\* RightMap::build: the right rows of every key that is not null, in row order.
build(c) ==
    [ k \in Range(c.destra) \ {Nulla} |->
        Crescente({j \in DOMAIN c.destra : c.destra[j] = k}) ]

\* RightMap::get: the matches of a left row, none for a null key.
get(c, riga) ==
    LET mappa == build(c)
    IN  IF c.sinistra[riga] \in DOMAIN mappa THEN mappa[c.sinistra[riga]] ELSE <<>>

\* What a left row adds to the count, and what it writes: two readings of the
\* same match, which have to agree.
ContoDellaRiga(c, riga) ==
    IF get(c, riga) # <<>> THEN Len(get(c, riga))
    ELSE IF TieneSinistra(c) THEN 1 ELSE 0

CoppieDellaRiga(c, riga) ==
    IF get(c, riga) # <<>> THEN [k \in DOMAIN get(c, riga) |-> <<riga, get(c, riga)[k]>>]
    ELSE IF TieneSinistra(c) THEN << <<riga, Nulla>> >> ELSE <<>>

Abbinate(c, riga) == IF serve_destra(c) THEN Range(get(c, riga)) ELSE {}

\* The right rows without a match, in row order.
Spaiate(c, abbinate) ==
    IF serve_destra(c) THEN Crescente(DOMAIN c.destra \ abbinate) ELSE <<>>

\* join_impl: the key column of the output.  With right and outer the left key
\* gives way to the right one where it is null.
ChiaveMostrata(c, coppia) ==
    LET sinistra == IF coppia[1] = Nulla THEN Nulla ELSE c.sinistra[coppia[1]]
        destra   == IF coppia[2] = Nulla THEN Nulla ELSE c.destra[coppia[2]]
    IN  IF serve_destra(c) /\ sinistra = Nulla THEN destra ELSE sinistra

Consegna(c, coppie) ==
    Righe([k \in DOMAIN coppie |-> <<coppie[k][1], coppie[k][2], ChiaveMostrata(c, coppie[k])>>])

-----------------------------------------------------------------------------
\* join_rows_generic: the limit is checked after every left row, then once more
\* with the right rows left over.
join_rows_generic(c) ==
    LET righe    == DOMAIN c.sinistra
        conti    == [i \in righe |-> ContoDellaRiga(c, i)]
        abbinate == UNION {Abbinate(c, i) : i \in righe}
        coda     == Spaiate(c, abbinate)
        totale   == Somma(Totale(conti), Len(coda))
        coppie   == FlattenSeq([i \in righe |-> CoppieDellaRiga(c, i)])
                    \o [k \in DOMAIN coda |-> <<Nulla, coda[k]>>]
    IN  IF \E i \in righe : Totale(SubSeq(conti, 1, i)) > c.max_rows THEN Limite
        ELSE IF totale > c.max_rows THEN Limite
        ELSE IF Len(coppie) # totale THEN Interno
        ELSE Consegna(c, coppie)

-----------------------------------------------------------------------------
\* The chunks: contiguous ranges of left rows, one range below the threshold.
DimensioneChunk(c) ==
    IF Len(c.sinistra) >= SogliaProbe THEN ChunkProbe
    ELSE IF c.sinistra = <<>> THEN 1 ELSE Len(c.sinistra)
Intervalli(c) ==
    LET n == DimensioneChunk(c)
        chunk == (Len(c.sinistra) + n - 1) \div n
    IN  [ k \in 1 .. chunk |->
            [ da |-> (k - 1) * n + 1,
              a  |-> IF k * n < Len(c.sinistra) THEN k * n ELSE Len(c.sinistra) ] ]

\* The chunks below the threshold run one after the other.
PuoLavorare(chunk) ==
    \/ Len(caso.sinistra) >= SogliaProbe
    \/ \A k \in 1 .. chunk - 1 : lavori[k].riga > Intervalli(caso)[k].a

Conti == [k \in DOMAIN lavori |-> lavori[k].conto]
probe_total == Totale(Conti)
\* The first slot of a chunk's segment, less one.
Offset(chunk) == Totale(SubSeq(Conti, 1, chunk - 1))

InitJoin(c) ==
    /\ caso = c
    /\ fase = IF c.veloce THEN "conta" ELSE "generico"
    /\ lavori = [k \in DOMAIN Intervalli(c) |-> [riga |-> Intervalli(c)[k].da, conto |-> 0, scritte |-> 0]]
    /\ condiviso = [abbinate |-> {}, uscita |-> <<>>, guasto |-> FALSE]
    /\ esito = Nulla

\* FastKeys::new refuses the type of a key.
Generico ==
    /\ fase = "generico"
    /\ esito' = join_rows_generic(caso)
    /\ fase' = "fine"
    /\ UNCHANGED <<caso, lavori, condiviso>>

\* count_range, one left row: its matches, and their flags.  A count past usize
\* ends the chunk.
Conta(chunk) ==
    LET l == lavori[chunk]
        conto == Somma(l.conto, ContoDellaRiga(caso, l.riga))
    IN  /\ fase = "conta" /\ l.riga <= Intervalli(caso)[chunk].a /\ PuoLavorare(chunk)
        /\ lavori' = [lavori EXCEPT ![chunk] =
             [l EXCEPT !.conto = conto,
                       !.riga = IF conto > MaxUsize THEN Intervalli(caso)[chunk].a + 1 ELSE l.riga + 1]]
        /\ condiviso' = [condiviso EXCEPT !.abbinate = @ \cup Abbinate(caso, l.riga)]
        /\ UNCHANGED <<caso, fase, esito>>

\* The limit, before the only allocation; the segments are the prefix sums.
Alloca ==
    LET totale == Somma(probe_total, Len(Spaiate(caso, condiviso.abbinate)))
    IN  /\ fase = "conta" /\ \A k \in DOMAIN lavori : lavori[k].riga > Intervalli(caso)[k].a
        /\ IF totale > caso.max_rows
             THEN /\ esito' = Limite /\ fase' = "fine"
                  /\ UNCHANGED <<lavori, condiviso>>
             ELSE /\ fase' = "riempie"
                  /\ condiviso' = [condiviso EXCEPT !.uscita = [k \in 1 .. totale |-> <<Nulla, Nulla>>]]
                  /\ lavori' = [k \in DOMAIN lavori |-> [lavori[k] EXCEPT !.riga = Intervalli(caso)[k].da]]
                  /\ UNCHANGED esito
        /\ UNCHANGED caso

\* fill_range, one left row: its pairs into the next slots of the segment.  A pair
\* that finds no slot is an error of the program, as is a segment not filled up.
Riempie(chunk) ==
    LET l == lavori[chunk]
        coppie == CoppieDellaRiga(caso, l.riga)
        oltre == l.scritte + Len(coppie) > l.conto
        ultima == l.riga = Intervalli(caso)[chunk].a
        primo == Offset(chunk) + l.scritte
    IN  /\ fase = "riempie" /\ l.riga <= Intervalli(caso)[chunk].a /\ PuoLavorare(chunk)
        /\ lavori' = [lavori EXCEPT ![chunk] =
             [l EXCEPT !.riga = l.riga + 1, !.scritte = l.scritte + Len(coppie)]]
        /\ condiviso' = [condiviso EXCEPT
             !.guasto = condiviso.guasto \/ oltre \/ (ultima /\ l.scritte + Len(coppie) # l.conto),
             !.uscita = [k \in DOMAIN condiviso.uscita |->
                 IF k - primo \in DOMAIN coppie /\ ~oltre THEN coppie[k - primo]
                 ELSE condiviso.uscita[k]]]
        /\ UNCHANGED <<caso, fase, esito>>

\* The tail: the right rows whose flag is down, after the segments.
Coda ==
    LET coda == Spaiate(caso, condiviso.abbinate)
        uscita == [ k \in DOMAIN condiviso.uscita |->
                      IF k - probe_total \in DOMAIN coda THEN <<Nulla, coda[k - probe_total]>>
                      ELSE condiviso.uscita[k] ]
    IN  /\ fase = "riempie" /\ \A k \in DOMAIN lavori : lavori[k].riga > Intervalli(caso)[k].a
        /\ esito' = IF condiviso.guasto \/ Len(uscita) # probe_total + Len(coda)
                      THEN Interno ELSE Consegna(caso, uscita)
        /\ fase' = "fine"
        /\ UNCHANGED <<caso, lavori, condiviso>>

NextJoin ==
    \/ Generico \/ Alloca \/ Coda
    \/ \E chunk \in DOMAIN lavori : Conta(chunk) \/ Riempie(chunk)

-----------------------------------------------------------------------------
\* What a join is: every pair of rows with the same key, in the order of the left
\* and then of the right; the left rows without a match where they are kept, at
\* their place; the right rows without a match at the end.
CoppieVere(c) ==
    {p \in (DOMAIN c.sinistra) \X (DOMAIN c.destra) :
        c.sinistra[p[1]] # Nulla /\ c.sinistra[p[1]] = c.destra[p[2]]}
SinistreSole(c) == {i \in DOMAIN c.sinistra : \A j \in DOMAIN c.destra : <<i, j>> \notin CoppieVere(c)}
DestreSole(c) == {j \in DOMAIN c.destra : \A i \in DOMAIN c.sinistra : <<i, j>> \notin CoppieVere(c)}

Relazionale(c) ==
    LET Chiave(p) == IF p[1] = Nulla THEN <<Len(c.sinistra) + 1, p[2]>>
                     ELSE <<p[1], IF p[2] = Nulla THEN 0 ELSE p[2]>>
        tutte == CoppieVere(c)
                 \cup (IF TieneSinistra(c) THEN SinistreSole(c) \X {Nulla} ELSE {})
                 \cup (IF serve_destra(c) THEN {Nulla} \X DestreSole(c) ELSE {})
        Prima == {x \in tutte \X tutte :
                     \/ Chiave(x[1])[1] < Chiave(x[2])[1]
                     \/ Chiave(x[1])[1] = Chiave(x[2])[1] /\ Chiave(x[1])[2] < Chiave(x[2])[2]}
        coppie == PerRelazione(tutte, Prima)
    IN  IF Cardinality(tutte) > c.max_rows THEN Limite
        ELSE Righe([k \in DOMAIN coppie |->
                 LET i == coppie[k][1]
                     j == coppie[k][2]
                 IN  <<i, j, IF i = Nulla THEN c.destra[j]
                             ELSE IF j # Nulla THEN c.destra[j] ELSE c.sinistra[i]>>])

\* The rows the call holds at any time.
RigheTenute == Len(condiviso.uscita)
=============================================================================
