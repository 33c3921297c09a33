------------------------------ MODULE MCKernel ------------------------------
(***************************************************************************)
(* The kernels whose outcome must not depend on the order of the threads,  *)
(* and the one that walks a queue, each on every small case: a call is in  *)
(* a phase, its tasks have a state each, they share another, and it ends   *)
(* with an outcome.                                                        *)
(***************************************************************************)
EXTENDS Integers, Sequences, FiniteSets, TLC, FiniteSetsExt, Margine, Ordine

CONSTANTS
    Nulla, NaN, Panico, Altra,
    k1, k2, k3,                         \* values of keys
    SogliaProbe, ChunkProbe, MaxUsize,
    BytePerCoppia, BytePerVicino, MaxErrore, MargineRelativo,
    Chiavi, Blocco, Simili,
    CasiJoin, CasiFuzzy, CasiSpaziali, CasiVicini, CasiDbscan   \* the calls

\* What the code says of its estimate: the margin covers the error of a distance.
ASSUME ViciniAssumption == MargineRelativo \in Nat /\ MaxErrore \in 0 .. MargineRelativo

ASSUME LimitiAssunti ==
    /\ MaxUsize \in Nat /\ ChunkProbe \in Nat \ {0} /\ SogliaProbe \in Nat
    /\ {BytePerCoppia, BytePerVicino} \subseteq Nat

\* Every key that is a value has a blocking key.
ASSUME BlocchiAssunti == DOMAIN Blocco = Chiavi \ {Nulla}

\* The calls: limits in the types of the code, columns of any length.
Candidati == [destra : Nat \ {0}, predicato : STRING]
RigaSpaziale == [invalida : BOOLEAN, candidati : Seq(Candidati)]
Geometria == [nulla : BOOLEAN, punti : SUBSET Int, regolare : BOOLEAN]

ASSUME CasiAssunti ==
    /\ CasiJoin \subseteq [ kernel : {"join"}, how : {"inner", "left", "right", "outer"}, veloce : BOOLEAN,
                            sinistra : Seq(Chiavi), destra : Seq(Chiavi), max_rows : 0 .. MaxUsize ]
    /\ CasiFuzzy \subseteq [ kernel : {"fuzzy"}, how : {"inner", "left"}, chunk : Nat \ {0},
                             sinistra : Seq(Chiavi), destra : Seq(Chiavi),
                             max_rows : 0 .. MaxUsize, max_candidates : Nat ]
    /\ CasiSpaziali \subseteq [ kernel : {"spaziale"}, righe : Seq(RigaSpaziale),
                                destra_invalida : STRING \cup {Nulla},
                                max_pairs : 0 .. MaxByte, margine : Margini ]
    /\ CasiVicini \subseteq [ kernel : {"vicini"}, sinistra : Seq(Geometria), destra : Seq(Geometria),
                              scarti : Seq(Seq(Int \cup {NaN, Panico})), max_distance : Int \cup {Nulla},
                              max_comparisons : Nat, max_results : 0 .. MaxByte, margine : Margini ]
    /\ \A c \in CasiDbscan : c.kernel = "dbscan"

VARIABLES caso, fase, lavori, condiviso, esito

varsKernel == <<caso, fase, lavori, condiviso, esito>>

Join == INSTANCE JoinParallelo
Fuzzy == INSTANCE FuzzyParallelo
Spaz == INSTANCE SpatialJoin
Vic == INSTANCE Vicini
Dbs == INSTANCE Dbscan

MCChiavi == {Nulla, k1, k2, k3}
\* k1 and k2 are in a block and alike, one way only; k3 is alone.
MCBlocco == k1 :> 1 @@ k2 :> 1 @@ k3 :> 2
MCSimili == {<<k1, k1>>, <<k1, k2>>, <<k2, k2>>, <<k3, k3>>}

SeqFino(insieme, n) == UNION {[1 .. m -> insieme] : m \in 0 .. n}

MCCasiJoin ==
    [ kernel : {"join"}, how : {"inner", "left", "right", "outer"}, veloce : {TRUE},
      sinistra : SeqFino({Nulla, k1, k2}, 3), destra : SeqFino({Nulla, k1, k2}, 2),
      max_rows : {2, 5} ]
    \cup
    [ kernel : {"join"}, how : {"inner", "left", "right", "outer"}, veloce : {FALSE},
      sinistra : SeqFino({Nulla, k1, k2}, 2), destra : SeqFino({Nulla, k1, k2}, 2),
      max_rows : {2, 5} ]

MCCasiFuzzy ==
    [ kernel : {"fuzzy"}, how : {"inner", "left"}, chunk : {1, 2},
      sinistra : SeqFino({Nulla, k1, k3}, 3), destra : SeqFino({k1, k2, k3}, 2),
      max_rows : {1, 3, MaxUsize}, max_candidates : {1, 2} ]

\* Left rows of the spatial join: every way a row can end, candidates in an order
\* of the R-tree that is not that of the rows.
Cand(destra, predicato) == [destra |-> destra, predicato |-> predicato]
RigaDi(candidati) == [invalida |-> FALSE, candidati |-> candidati]
RigheSpaziali ==
    { [invalida |-> TRUE, candidati |-> <<>>], RigaDi(<<>>),
      RigaDi(<<Cand(2, "si"), Cand(1, "si")>>), RigaDi(<<Cand(1, "si")>>),
      RigaDi(<<Cand(2, "si"), Cand(1, "panico")>>), RigaDi(<<Cand(1, "no"), Cand(3, "si")>>),
      RigaDi(<<Cand(1, "relazione")>>) }
MCMargini == {[byte |-> MaxByte, uscita_per_risultato |-> 0],
              [byte |-> 5, uscita_per_risultato |-> 0], [byte |-> 5, uscita_per_risultato |-> 1],
              [byte |-> 5, uscita_per_risultato |-> MaxByte]}
MCCasiSpaziali ==
    [ kernel : {"spaziale"}, righe : SeqFino(RigheSpaziali, 3), destra_invalida : {Nulla},
      max_pairs : {1, 3}, margine : MCMargini ]
    \cup
    [ kernel : {"spaziale"}, righe : SeqFino(RigheSpaziali, 1), destra_invalida : {Nulla, "invalida"},
      max_pairs : {0, 1}, margine : MCMargini ]

Geo(punti, regolare) == [nulla |-> FALSE, punti |-> punti, regolare |-> regolare]
GeoNulla == [nulla |-> TRUE, punti |-> {}, regolare |-> FALSE]
GeoSinistre == {GeoNulla, Geo({}, FALSE), Geo({0}, TRUE), Geo({1, 5}, TRUE), Geo({3}, FALSE)}
GeoDestre == {GeoNulla, Geo({1}, TRUE), Geo({2}, TRUE), Geo({0, 6}, TRUE), Geo({4}, FALSE)}
Scarti == {<<0, 0, 0>>, <<-1, 0, 1>>, <<1, 1, -1>>, <<NaN, 0, NaN>>, <<NaN, NaN, NaN>>, <<0, Panico, 0>>}
Illimitato == [byte |-> MaxByte, uscita_per_risultato |-> 0]
MCCasiVicini ==
    [ kernel : {"vicini"}, sinistra : [1 .. 2 -> {Geo({0}, TRUE), Geo({1, 5}, TRUE), Geo({3}, FALSE)}],
      destra : [1 .. 2 -> GeoDestre \ {GeoNulla}], scarti : [1 .. 2 -> Scarti \ {<<NaN, NaN, NaN>>}],
      max_distance : {Nulla}, max_comparisons : {9}, max_results : {2}, margine : {Illimitato} ]
    \cup
    [ kernel : {"vicini"}, sinistra : [1 .. 1 -> {Geo({0}, TRUE), Geo({1, 5}, TRUE)}],
      destra : [1 .. 3 -> GeoDestre \ {GeoNulla}], scarti : [1 .. 1 -> Scarti],
      max_distance : {Nulla, 4}, max_comparisons : {3}, max_results : {1, 3}, margine : {Illimitato} ]
    \cup
    [ kernel : {"vicini"}, sinistra : [1 .. 1 -> GeoSinistre], destra : [1 .. 1 -> GeoDestre],
      scarti : [1 .. 1 -> {<<0, 0, 0>>}], max_distance : {Nulla, -1}, max_comparisons : {0, 1},
      max_results : {0, 1}, margine : MCMargini ]

\* Short columns of points close together, and every order of a column where a
\* point is within eps of two clusters and core of neither.
Ordini(s) == {[r \in DOMAIN s |-> s[p[r]]] : p \in {p \in [DOMAIN s -> DOMAIN s] : \A a, b \in DOMAIN s : p[a] = p[b] => a = b}}
MCCasiDbscan ==
    [ kernel : {"dbscan"}, eps : {1}, min_points : 1 .. 3, righe : SeqFino({Nulla} \cup 0 .. 3, 4) ]
    \cup [ kernel : {"dbscan"}, eps : {1}, min_points : {4}, righe : Ordini(<<0, 0, 1, 2, 3, 4, 4>>) ]
    \cup [ kernel : {"dbscan"}, eps : {1}, min_points : {1}, righe : {<<0, Altra>>, <<Altra, Nulla, Altra>>} ]

InitKernel ==
    \/ \E c \in CasiJoin : Join!InitJoin(c)
    \/ \E c \in CasiFuzzy : Fuzzy!InitFuzzy(c)
    \/ \E c \in CasiSpaziali : Spaz!InitSpaziale(c)
    \/ \E c \in CasiVicini : Vic!InitVicini(c)
    \/ \E c \in CasiDbscan : Dbs!InitDbscan(c)

NextKernel ==
    \/ caso.kernel = "join" /\ Join!NextJoin
    \/ caso.kernel = "fuzzy" /\ Fuzzy!NextFuzzy
    \/ caso.kernel = "spaziale" /\ Spaz!NextSpaziale
    \/ caso.kernel = "vicini" /\ Vic!NextVicini
    \/ caso.kernel = "dbscan" /\ Dbs!NextDbscan
    \/ fase = "fine" /\ UNCHANGED varsKernel

SpecKernel == InitKernel /\ [][NextKernel]_varsKernel

-----------------------------------------------------------------------------
Finito(kernel) == caso.kernel = kernel /\ fase = "fine"

\* The rows of a join are those of the relational definition, in its order, or the
\* limit exactly when they are more than max_rows: for every interleaving of the
\* chunks that count and fill, and on the generic path.  An Internal error of the
\* two phases that disagree is never returned.
JoinComeRelazione == Finito("join") => esito = Join!Relazionale(caso)

\* A fuzzy join returns what one thread would: the same rows in the same order, or
\* the limit exactly when their total exceeds it, whichever chunk sees it first.
FuzzyComeScansione == Finito("fuzzy") => esito = Fuzzy!Scansione(caso)

\* The outcome of a spatial join does not depend on the threads: the first error
\* in row order even when other rows met the cap, the limit that really stopped
\* it (the count or the memory), or every confirmed pair by left and right row.
SpazialeDeterministico == Finito("spaziale") => esito = Spaz!Dovuto(caso)

\* geo.nearest gives every right row at the minimum of the brute force, though it
\* looks only at the candidates of the R-tree and whatever the errors of the
\* distances; the distances are those of geo.distance; a panic is the first in row
\* order, also when another row met the cap.
ViciniEsatti ==
    Finito("vicini") =>
        LET panici == {i \in DOMAIN caso.sinistra : Vic!InPanico(caso, i)}
        IN  IF esito.tipo = "errore"
              THEN panici # {} /\ esito = Vic!NonConcluso(Min(panici))
            ELSE /\ panici = {} \/ esito.tipo \in {"InvalidWorkLimit", "InvalidMaximumDistance", "WorkLimitExceeded"}
                 /\ esito = Vic!Dovuto(caso)
                 /\ esito.tipo = "righe" =>
                      \A k \in DOMAIN esito.righe :
                          Vic!minimum_distances(caso, esito.righe[k][1])
                            \in {esito.righe[k][3], Panico}

\* The labels are those of the definition of DBSCAN, for every order of the rows,
\* and every neighbourhood is asked of the R-tree at most once per coordinate.
DbscanEsatto ==
    caso.kernel = "dbscan" =>
        /\ fase = "fine" => esito = Dbs!Dovuto(caso)
        /\ condiviso.range_queries <= Cardinality(DOMAIN condiviso.classe)

\* At no moment do the tasks of a call hold more than its limit allows: the join
\* allocates nothing past max_rows, the chunks of a fuzzy join hold at most
\* max_rows besides the row each is on, the rows of the geometry kernels hold at
\* most the cap, and so stay in the memory margin.
TenutoEntroIlLimite ==
    CASE caso.kernel = "join"  -> Join!RigheTenute <= caso.max_rows
      [] caso.kernel = "fuzzy" -> Cardinality(Fuzzy!RigheContate) <= caso.max_rows
      [] caso.kernel = "spaziale" ->
           /\ Cardinality(Spaz!CoppieTenute) <= caso.max_pairs
           /\ Cardinality(Spaz!CoppieTenute) * (BytePerCoppia + caso.margine.uscita_per_risultato) <= caso.margine.byte
              \/ caso.margine.byte = MaxByte
      [] caso.kernel = "vicini" ->
           /\ Cardinality(Vic!ViciniTenuti) <= caso.max_results
           /\ Cardinality(Vic!ViciniTenuti) * (BytePerVicino + caso.margine.uscita_per_risultato) <= caso.margine.byte
              \/ caso.margine.byte = MaxByte
      [] OTHER -> TRUE
=============================================================================
