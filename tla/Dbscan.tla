------------------------------- MODULE Dbscan -------------------------------
(***************************************************************************)
(* The clusters of geo.cluster_dbscan                                      *)
(* (plenora-kernels-geo/src/cluster.rs).                                   *)
(*                                                                         *)
(* The points are visited by row.  Rows with the same coordinates form a   *)
(* group, whose neighbourhood is asked of the R-tree at most once: the     *)
(* neighbours of a core group are not kept, only the class, so asking for  *)
(* them again would be an error of the program.  A row is a place on a     *)
(* line, Nulla for a null geometry, Altra for one that is not a point.     *)
(***************************************************************************)
EXTENDS Integers, Sequences, FiniteSets, FiniteSetsExt, SequencesExt, Functions, Ordine

CONSTANTS Nulla, Altra

VARIABLES caso, fase, lavori, condiviso, esito

vars == <<caso, fase, lavori, condiviso, esito>>

\* prepare_points: the points, and the point of every row.
points(c) == SelectSeq(c.righe, LAMBDA x : x # Nulla)
row_of_point(c, riga) ==
    IF c.righe[riga] = Nulla THEN Nulla
    ELSE Cardinality({r \in 1 .. riga : c.righe[r] # Nulla})

\* coordinate_groups: a group is represented by its first point.
group_of_point(c, p) == Min({q \in DOMAIN points(c) : points(c)[q] = points(c)[p]})

\* locate_within_distance, sorted by index.
Vicinato(c, g) ==
    SelectSeq([q \in DOMAIN points(c) |-> q],
              LAMBDA q : LET d == points(c)[q] - points(c)[g] IN d * d <= c.eps * c.eps)

\* The class of a group before its neighbourhood was asked for.
Ignota == "ignota"

InitDbscan(c) ==
    /\ caso = c
    /\ fase = "prepara"
    /\ lavori = [indice |-> 1, coda |-> <<>>, interroga |-> Nulla]
    /\ condiviso = [ labels |-> [p \in DOMAIN points(c) |-> Nulla],
                     visited |-> {}, queued |-> {}, expanded_group |-> {},
                     classe |-> [g \in {group_of_point(c, p) : p \in DOMAIN points(c)} |-> Ignota],
                     next_cluster |-> 0, range_queries |-> 0 ]
    /\ esito = Nulla

\* Only finite, valid points: the first row that is not one ends the call.
Prepara ==
    LET altre == {r \in DOMAIN caso.righe : caso.righe[r] = Altra}
    IN  /\ fase = "prepara"
        /\ IF altre # {} THEN fase' = "fine" /\ esito' = [tipo |-> "errore", riga |-> Min(altre)]
           ELSE fase' = "visita" /\ UNCHANGED esito
        /\ UNCHANGED <<caso, lavori, condiviso>>

\* load_core_neighbors, as the state it leaves and what it gives: the neighbours
\* of a core group, Nulla for another, "interno" for a core group asked for again.
load_core_neighbors(g) ==
    LET found == Vicinato(caso, g)
        classe == IF Len(found) < caso.min_points THEN "non_core" ELSE "core"
    IN  CASE condiviso.classe[g] = "non_core" -> [stato |-> condiviso, vicini |-> Nulla, interno |-> FALSE]
          [] condiviso.classe[g] = "core"     -> [stato |-> condiviso, vicini |-> Nulla, interno |-> TRUE]
          [] OTHER -> [ stato |-> [condiviso EXCEPT !.classe[g] = classe, !.range_queries = @ + 1],
                        vicini |-> IF classe = "core" THEN found ELSE Nulla,
                        interno |-> FALSE ]

Difetto == fase' = "fine" /\ esito' = [tipo |-> "InternalInvariant"]

\* Mutant: the group of the point that opens a cluster is not marked as expanded.
ApreCluster_nonEspanso(stato, p, g, seme) ==
    [ stato EXCEPT !.visited = @ \cup {p},
                   !.labels[p] = stato.next_cluster,
                   !.next_cluster = @ + 1,
                   !.queued = @ \cup {p} \cup Range(seme) ]

\* A core point opens a cluster.
ApreCluster(stato, p, g, seme) ==
    [ stato EXCEPT !.visited = @ \cup {p},
                   !.labels[p] = stato.next_cluster,
                   !.next_cluster = @ + 1,
                   !.queued = @ \cup {p} \cup Range(seme),
                   !.expanded_group = @ \cup {g} ]

\* The next point of the scan, when the queue is empty: a core point not visited
\* yet opens a cluster and queues its neighbours.
Visita ==
    LET p == lavori.indice
        g == group_of_point(caso, p)
        r == load_core_neighbors(g)
        seme == SelectSeq(r.vicini, LAMBDA q : q # p)
    IN  /\ fase = "visita" /\ lavori.coda = <<>> /\ p <= Len(points(caso))
        /\ IF p \in condiviso.visited
             THEN /\ lavori' = [lavori EXCEPT !.indice = @ + 1]
                  /\ UNCHANGED <<fase, condiviso, esito>>
           ELSE IF r.interno
             THEN Difetto /\ UNCHANGED <<lavori, condiviso>>
           ELSE IF r.vicini = Nulla
             THEN /\ condiviso' = [r.stato EXCEPT !.visited = @ \cup {p}]
                  /\ lavori' = [lavori EXCEPT !.indice = @ + 1]
                  /\ UNCHANGED <<fase, esito>>
           ELSE /\ condiviso' = ApreCluster(r.stato, p, g, seme)
                /\ lavori' = [lavori EXCEPT !.indice = @ + 1, !.coda = seme]
                /\ UNCHANGED <<fase, esito>>
        /\ UNCHANGED caso

\* The cluster being grown is the last one opened.
Etichetta(stato, p) ==
    IF stato.labels[p] = Nulla
      THEN [stato EXCEPT !.labels[p] = stato.next_cluster - 1] ELSE stato

\* The head of the queue: it takes the label if it has none; a point seen for the
\* first time, of a group not expanded yet, adds the neighbours never queued.
Espande ==
    LET p == Head(lavori.coda)
        g == group_of_point(caso, p)
        r == load_core_neighbors(g)
        nuovi == SelectSeq(r.vicini, LAMBDA q : q \notin condiviso.queued)
    IN  /\ fase = "visita" /\ lavori.coda # <<>>
        /\ IF p \in condiviso.visited \/ g \in condiviso.expanded_group
             THEN /\ condiviso' = Etichetta([condiviso EXCEPT !.visited = @ \cup {p}], p)
                  /\ lavori' = [lavori EXCEPT !.coda = Tail(@)]
                  /\ UNCHANGED <<fase, esito>>
           ELSE IF r.interno
             THEN Difetto /\ UNCHANGED <<lavori, condiviso>>
           ELSE /\ condiviso' = Etichetta(
                     [r.stato EXCEPT
                       !.visited = @ \cup {p},
                       !.expanded_group = @ \cup {g},
                       !.queued = @ \cup (IF r.vicini = Nulla THEN {} ELSE Range(nuovi))], p)
                /\ lavori' = [lavori EXCEPT !.coda =
                     Tail(@) \o (IF r.vicini = Nulla THEN <<>> ELSE nuovi)]
                /\ UNCHANGED <<fase, esito>>
        /\ UNCHANGED caso

\* dbscan_nullable: the labels of the points, brought back to the rows.
Riporta ==
    /\ fase = "visita" /\ lavori.coda = <<>> /\ lavori.indice > Len(points(caso))
    /\ esito' = [ tipo |-> "righe",
                  righe |-> [r \in DOMAIN caso.righe |->
                      IF row_of_point(caso, r) = Nulla THEN Nulla
                      ELSE condiviso.labels[row_of_point(caso, r)]] ]
    /\ fase' = "fine"
    /\ UNCHANGED <<caso, lavori, condiviso>>

NextDbscan == Prepara \/ Visita \/ Espande \/ Riporta

-----------------------------------------------------------------------------
\* What DBSCAN is.  A point is core if at least min_points points, itself included,
\* are within eps; a cluster is a set of core points joined by steps within eps,
\* and the clusters are numbered by their first core row.  Another point within
\* eps of a core point has the first such cluster; the rest is noise.
Vicine(c, r, s) ==
    /\ c.righe[r] # Nulla /\ c.righe[s] # Nulla
    /\ c.righe[r] - c.righe[s] \in -c.eps .. c.eps
RigheCore(c) ==
    {r \in DOMAIN c.righe : Cardinality({s \in DOMAIN c.righe : Vicine(c, r, s)}) >= c.min_points
                            /\ c.righe[r] # Nulla}
Raggiunte(c, r) ==
    LET core == RigheCore(c)
        Passi[n \in 0 .. Cardinality(core)] ==
          IF n = 0 THEN {r}
          ELSE Passi[n - 1] \cup {s \in core : \E q \in Passi[n - 1] : Vicine(c, q, s)}
    IN  Passi[Cardinality(core)]
Capofila(c, r) == Min(Raggiunte(c, r))
Capifila(c) == {Capofila(c, r) : r \in RigheCore(c)}
Cluster(c, r) == Cardinality({q \in Capifila(c) : q < Capofila(c, r)})

Dovuto(c) ==
    IF \E r \in DOMAIN c.righe : c.righe[r] = Altra
      THEN [tipo |-> "errore", riga |-> Min({r \in DOMAIN c.righe : c.righe[r] = Altra})]
    ELSE [ tipo |-> "righe",
           righe |-> [r \in DOMAIN c.righe |->
             IF r \in RigheCore(c) THEN Cluster(c, r)
             ELSE LET vicine == {s \in RigheCore(c) : Vicine(c, r, s)}
                  IN  IF vicine = {} THEN Nulla ELSE Min({Cluster(c, s) : s \in vicine})] ]
=============================================================================
