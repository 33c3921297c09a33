----------------------------- MODULE Contratti ------------------------------
(***************************************************************************)
(* The geometry operations: the kernels of the runner give columns and     *)
(* rows, and monta puts them on the schema of the contract that            *)
(* analyze_geo_contract made.                                              *)
(*                                                                         *)
(* The cell of a geometry is the number of its parts, 0 for an empty one:  *)
(* an operation may tell empty, single and multiple apart.  Two geometries *)
(* meet when their cells are equal.  CRS, dimensions and declared types of *)
(* a geometry, and the failures only its coordinates explain, are left     *)
(* out.  A geometry changed in place is the same column: it keeps its      *)
(* origine, as it keeps its identity in the contract.                      *)
(***************************************************************************)
EXTENDS Analisi

Prodotto(colonne, righe) == [esito |-> "ok", colonne |-> colonne, righe |-> righe]
Fermo(esito) == [esito |-> esito]
EntroIlLimite(prodotto) == IF Len(prodotto.righe) > max_rows THEN Fermo("limite") ELSE prodotto
Portata(colonna) == [tipo |-> colonna.tipo, origine |-> colonna.origine]
Portate(t) == [ p \in DOMAIN t.colonne |-> Portata(t.colonne[p]) ]
Calcolate(tipi) == [ k \in DOMAIN tipi |-> [tipo |-> tipi[k], origine |-> Nuova] ]

PosizioneAttiva(c) == IF c.attiva = 0 THEN 0 ELSE PosC(c, AttivaC(c))
\* The number and the types of the columns are those of the contract, or the two diverge.
monta(c, u) ==
    LET colonne == [ p \in DOMAIN c.campi |->
            [ nome |-> c.campi[p].nome, tipo |-> c.campi[p].tipo, nullable |-> c.campi[p].nullable,
              geo |-> c.campi[p].geo # 0, origine |-> u.colonne[p].origine ] ]
        conforme == Len(u.colonne) = Len(c.campi) /\ \A p \in DOMAIN c.campi : u.colonne[p].tipo = c.campi[p].tipo
    IN  IF u.esito # "ok" THEN u
        ELSE Con(conforme, <<>>,
                 batch_with_rows([ colonne |-> colonne, righe |-> u.righe,
                                   chiave |-> emit_primary_geometry(colonne, PosizioneAttiva(c)) ]))

\* The rows of t with other cells in the place of the geometry g, or with cells at the end.
sostituisci(t, g, celle) ==
    Prodotto(Portate(t), [ r \in DOMAIN t.righe |-> [t.righe[r] EXCEPT ![Pos(t, g)] = celle[r]] ])
InCoda(t, tipi, celle) ==
    Prodotto(Portate(t) \o Calcolate(tipi), [ r \in DOMAIN t.righe |-> t.righe[r] \o celle[r] ])
Presenti(t, g) == {r \in DOMAIN t.righe : Cella(t, r, g) # Nulla}
\* Row numbers of the code start from 0.
Indice(r) == r - 1

\* -------------------------------------------------------------- unari.rs
Trasformata(v) == IF v \in {1, 2} THEN 3 - v ELSE v
\* A kernel with no answer for an empty geometry leaves a null: the only one that monta
\* may meet, and refuse, in a geometry without nulls.
trasforma(t, g, vuota_nulla) ==
    LET celle == [ r \in DOMAIN t.righe |->
            IF vuota_nulla /\ Cella(t, r, g) = 0 THEN Nulla ELSE Trasformata(Cella(t, r, g)) ]
    IN  IF vuota_nulla /\ ~Campo(t, g).nullable /\ \E r \in Presenti(t, g) : Cella(t, r, g) = 0
        THEN Fermo("asserzione") ELSE sostituisci(t, g, celle)

misura(t, g, tipo, vuota_nulla) ==
    InCoda(t, <<tipo>>, [ r \in DOMAIN t.righe |->
        << IF vuota_nulla /\ Cella(t, r, g) = 0 THEN Nulla ELSE Cella(t, r, g) >> ])
quattro_limiti(t, g) ==
    InCoda(t, <<"Float64", "Float64", "Float64", "Float64">>, [ r \in DOMAIN t.righe |->
        [ k \in 1 .. 4 |-> IF Cella(t, r, g) = 0 THEN Nulla ELSE Cella(t, r, g) ] ])

Tabellina(nome, tipo, sempre) == [nome |-> nome, tipo |-> tipo, sempre |-> sempre]
\* sempre: there for every geometry that is there.
ACCESSOR_COLUMNS ==
    << Tabellina("geometry_type", "Utf8", TRUE), Tabellina("num_geometries", "UInt64", TRUE),
       Tabellina("num_interior_rings", "UInt64", TRUE), Tabellina("start_point", "Utf8", FALSE),
       Tabellina("end_point", "Utf8", FALSE), Tabellina("is_closed", "Boolean", TRUE) >>
DIAGNOSTIC_COLUMNS ==
    << Tabellina("geometry_type", "Utf8", TRUE), Tabellina("coordinate_count", "UInt64", TRUE),
       Tabellina("is_empty", "Boolean", TRUE), Tabellina("is_finite", "Boolean", TRUE),
       Tabellina("is_valid", "Boolean", TRUE), Tabellina("validity_reason", "Utf8", FALSE),
       Tabellina("bounds_minx", "Float64", FALSE), Tabellina("bounds_miny", "Float64", FALSE),
       Tabellina("bounds_maxx", "Float64", FALSE), Tabellina("bounds_maxy", "Float64", FALSE) >>
Riportata(v, sempre) == IF v = 0 /\ ~sempre THEN Nulla ELSE v
TipiDi(tabelline) == [ k \in DOMAIN tabelline |-> tabelline[k].tipo ]
\* fields: positions in ACCESSOR_COLUMNS, in the order of the configuration.
Canonici(fields) == LET scelti == InOrdine(Range(fields), <) IN [ k \in DOMAIN scelti |-> ACCESSOR_COLUMNS[scelti[k]] ]
accessori(t, g, fields) ==
    LET scelti == Canonici(fields)
    IN  InCoda(t, TipiDi(scelti), [ r \in DOMAIN t.righe |->
            [ k \in DOMAIN scelti |-> Riportata(Cella(t, r, g), scelti[k].sempre) ] ])
\* The geometry gives its place to the columns.
CedeIlPosto(voci, p, nuove) == SubSeq(voci, 1, p - 1) \o nuove \o SubSeq(voci, p + 1, Len(voci))
diagnostica(t, g) ==
    Prodotto(CedeIlPosto(Portate(t), Pos(t, g), Calcolate(TipiDi(DIAGNOSTIC_COLUMNS))),
             [ r \in DOMAIN t.righe |->
                 CedeIlPosto(t.righe[r], Pos(t, g),
                         [ k \in DOMAIN DIAGNOSTIC_COLUMNS |->
                             Riportata(Cella(t, r, g), DIAGNOSTIC_COLUMNS[k].sempre) ]) ])

\* A null coordinate ends the step: the new geometry admits none.
da_coordinate(t, x, y) ==
    IF \E r \in DOMAIN t.righe : Nulla \in {Cella(t, r, x), Cella(t, r, y)} THEN Fermo("asserzione")
    ELSE InCoda(t, <<"Binary">>, [ r \in DOMAIN t.righe |-> <<1>> ])
da_wkt(t, nome) == InCoda(t, <<"Binary">>, [ r \in DOMAIN t.righe |-> <<Cella(t, r, nome)>> ])

\* --------------------------------------------------------- collettivi.rs
\* A row for each part, with the rest of its row and its number; a null has no part, or
\* a null one.
espandi(t, g, tiene_i_null) ==
    LET Parti(v) == IF v = Nulla THEN IF tiene_i_null THEN 1 ELSE 0 ELSE v
        coppie == { <<r, k>> \in (DOMAIN t.righe) \X (1 .. 2) : k <= Parti(Cella(t, r, g)) }
        scelte == InOrdine(coppie, Lessicografico)
        Parte(r) == [t.righe[r] EXCEPT ![Pos(t, g)] = IF @ = Nulla THEN Nulla ELSE 1]
    IN  EntroIlLimite(Prodotto(Portate(t) \o Calcolate(<<"UInt64">>),
            [ k \in DOMAIN scelte |-> Append(Parte(scelte[k][1]), Indice(scelte[k][1])) ]))

una_geometria(t, g, cella) == Prodotto(<<Portata(Campo(t, g))>>, << <<cella>> >>)
\* One geometry of all: dissolve of any, a line of two points, a polygon of three.
Aggrega(t, g, minimo) == una_geometria(t, g, IF Cardinality(Presenti(t, g)) < minimo THEN Nulla ELSE 1)
\* A row for each geometry produced, from line_merge or polygonize.
PerGeometria(t, g, tipi) ==
    LET piene == InOrdine({r \in Presenti(t, g) : Cella(t, r, g) # 0}, <)
    IN  EntroIlLimite(Prodotto(<<Portata(Campo(t, g))>> \o Calcolate(tipi),
            [ k \in DOMAIN piene |-> <<1>> \o [ j \in DOMAIN tipi |-> 0 ] ]))

\* The groups in the order of table.sort on their keys.
raccogli(t, g, chiavi) ==
    LET gruppi == InOrdine({Celle(t, r, chiavi) : r \in DOMAIN t.righe}, Lessicografico)
        Del(k) == {r \in Presenti(t, g) : Celle(t, r, chiavi) = gruppi[k]}
        Raccolta(k) == CASE Del(k) = {} -> Nulla
                         [] Cardinality(Del(k)) = 1 -> Cella(t, CHOOSE r \in Del(k) : TRUE, g)
                         [] OTHER -> 2
    IN  Prodotto([ k \in 1 .. 1 + Len(chiavi) |-> Portata(Campo(t, (<<g>> \o chiavi)[k])) ],
                 [ k \in DOMAIN gruppi |-> <<Raccolta(k)>> \o gruppi[k] ])

\* A result for each row with a geometry, back in its row.
voronoi(t, g) == IF Cardinality(Presenti(t, g)) < 2 THEN Fermo("asserzione") ELSE trasforma(t, g, FALSE)
\* A row that the earlier ones cover is null, where the overlaps are removed.
pulisci(t, g, sovrapposizioni) ==
    sostituisci(t, g, [ r \in DOMAIN t.righe |->
        IF sovrapposizioni /\ \E q \in 1 .. r - 1 : Cella(t, q, g) = Cella(t, r, g)
        THEN Nulla ELSE Cella(t, r, g) ])
\* The label is null for noise.
raggruppa(t, g, punti) ==
    InCoda(t, <<"UInt64">>, [ r \in DOMAIN t.righe |->
        << IF Cardinality({q \in DOMAIN t.righe : Cella(t, q, g) = Cella(t, r, g)}) < punti
           THEN Nulla ELSE Cella(t, r, g) >> ])
\* A row for each pair of rows that meet: its columns, then the geometry.
coperture(t, g, tipi) ==
    LET coppie == InOrdine({ <<a, b>> \in Presenti(t, g) \X Presenti(t, g) :
                                a < b /\ Cella(t, a, g) = Cella(t, b, g) }, Lessicografico)
    IN  Prodotto(Calcolate(tipi \o <<"Binary">>),
                 [ k \in DOMAIN coppie |-> [ j \in DOMAIN tipi |-> Indice(coppie[k][1]) ] \o <<1>> ])
\* The input only starts it.
griglia(celle, tipi) ==
    Prodotto(Calcolate(<<"Binary">> \o tipi),
             [ k \in 1 .. celle |-> <<1>> \o [ j \in DOMAIN tipi |-> Indice(k) ] ])

\* ------------------------------------------------------------- binari.rs
Incontri(l, r, g, h) == { <<a, b>> \in Presenti(l, g) \X Presenti(r, h) : Cella(l, a, g) = Cella(r, b, h) }
\* The rows of the left of each pair, with the row of the right and the distance.
righe_di(l, coppie, tipi) ==
    EntroIlLimite(Prodotto(Portate(l) \o Calcolate(tipi),
        [ k \in DOMAIN coppie |-> l.righe[coppie[k][1]] \o [ j \in DOMAIN tipi |-> Indice(coppie[k][2]) ] ]))
Unione(l, r, g, h) == righe_di(l, InOrdine(Incontri(l, r, g, h), Lessicografico), <<"UInt64">>)
\* All the rows at the least distance, if that is not beyond the greatest one.
PiuVicino(l, r, g, h, massima) ==
    LET Distanza(a, b) == IF Cella(l, a, g) < Cella(r, b, h) THEN Cella(r, b, h) - Cella(l, a, g)
                          ELSE Cella(l, a, g) - Cella(r, b, h)
        destri == {b \in Presenti(r, h) : Cella(r, b, h) # 0}
        vicini == { <<a, b>> \in {a \in Presenti(l, g) : Cella(l, a, g) # 0} \X destri :
                      /\ Distanza(a, b) <= massima
                      /\ \A q \in destri : Distanza(a, b) <= Distanza(a, q) }
    IN  righe_di(l, InOrdine(vicini, Lessicografico), <<"UInt64", "Float64">>)
\* within and count_points_in_polygons: null where the left geometry is.
Conta(l, r, g, h, tipo) ==
    InCoda(l, <<tipo>>, [ a \in DOMAIN l.righe |->
        << IF Cella(l, a, g) = Nulla THEN Nulla
           ELSE Cardinality({c \in Incontri(l, r, g, h) : c[1] = a}) >> ])
\* An empty result is null.
Ritaglia(l, r, g, h) ==
    sostituisci(l, g, [ a \in DOMAIN l.righe |->
        IF Cella(l, a, g) # 0 /\ \E c \in Incontri(l, r, g, h) : c[1] = a THEN Cella(l, a, g) ELSE Nulla ])
\* Row i with row i; an empty result is null here too.
Booleana(l, r, g, h, operazione) ==
    LET Risultato(x, y) ==
            CASE Nulla \in {x, y} -> Nulla
              [] operazione = "union" -> IF x = 0 THEN y ELSE x
              [] operazione = "intersection" -> IF x = y THEN x ELSE 0
              [] operazione = "difference" -> IF x = y THEN 0 ELSE x
              [] operazione = "symmetric_difference" -> IF x = y THEN 0 ELSE 2
        OVuoto(v) == IF v = 0 THEN Nulla ELSE v
    IN  IF Len(l.righe) # Len(r.righe) THEN Fermo("asserzione")
        ELSE sostituisci(l, g, [ a \in DOMAIN l.righe |-> OVuoto(Risultato(Cella(l, a, g), Cella(r, a, h))) ])
\* The pieces of both, then what is left of the rows of the left, then of the right; 0 for
\* the side a piece is not of.
Sovrapponi(l, r, g, h, modo) ==
    LET comuni == {c \in Incontri(l, r, g, h) : Cella(l, c[1], g) # 0}
        resti_sx == {<<a, 0>> : a \in {a \in Presenti(l, g) : Cella(l, a, g) # 0 /\ \A c \in comuni : c[1] # a}}
        resti_dx == {<<0, b>> : b \in {b \in Presenti(r, h) : Cella(r, b, h) # 0 /\ \A c \in comuni : c[2] # b}}
        NeiModi(modi, pezzi) == IF modo \in modi THEN InOrdine(pezzi, Lessicografico) ELSE <<>>
        pezzi == NeiModi({"intersection", "union", "identity"}, comuni)
                   \o NeiModi({"union", "identity", "symmetric_difference"}, resti_sx)
                   \o NeiModi({"union", "symmetric_difference"}, resti_dx)
        RigaDi(riga) == IF riga = 0 THEN Nulla ELSE Indice(riga)
    IN  IF Cardinality(Incontri(l, r, g, h)) > max_rows THEN Fermo("limite")
        ELSE EntroIlLimite(Prodotto(<<Portata(Campo(l, g))>> \o Calcolate(<<"UInt64", "UInt64">>),
                [ k \in DOMAIN pezzi |-> <<1, RigaDi(pezzi[k][1]), RigaDi(pezzi[k][2])>> ]))

(***************************************************************************)
(* analyze_geo_contract.  The operands are the selected geometries, or the *)
(* active ones; an order on an operand does not survive it.                *)
(***************************************************************************)
resolve_operands(c, selettori) ==
    {n \in NomiC(c) : field_of(c, n).geo # 0 /\ n \in selettori \cup {AttivaC(c)}}
SenzaOrdineSu(c, g) ==
    IF field_of(c, g).id \in Range(c.ordine.chiavi) THEN [c EXCEPT !.ordine = NessunOrdine] ELSE c

ensure_name_free(campi, nuovi) == {campi[k].nome : k \in DOMAIN campi} \cap {nuovi[k].nome : k \in DOMAIN nuovi} = {}
rebuild(c, next, campi, nuovi, proprieta) ==
    Se(ensure_name_free(campi, nuovi), finish(campi \o nuovi, c.attiva, proprieta, next))
with_geometry_nullability(c, g, nullable) == [c.campi EXCEPT ![PosC(c, g)].nullable = nullable]
with_nullable_geometry(c, next, g) == finish(with_geometry_nullability(c, g, TRUE), c.attiva, Proprie(c), next)

analyze_add_column(c, next, nome, tipo, nullable) ==
    rebuild(c, next, c.campi, <<NuovoCampo(nome, tipo, nullable)>>, Proprie(c))
analyze_bounds(c, next, g) ==
    LET limite == <<"_minx", "_miny", "_maxx", "_maxy">>
    IN  rebuild(c, next, c.campi, [ k \in 1 .. 4 |-> NuovoCampo(g \o limite[k], "Float64", TRUE) ], Proprie(c))
CampiNuovi(tabelline, nullable) ==
    [ k \in DOMAIN tabelline |-> NuovoCampo(tabelline[k].nome, tabelline[k].tipo, nullable \/ ~tabelline[k].sempre) ]
analyze_geometry_accessors(c, next, g, fields) ==
    Se(fields # <<>> /\ IsInjective(fields),
       rebuild(c, next, c.campi, CampiNuovi(Canonici(fields), field_of(c, g).nullable), Proprie(c)))
analyze_diagnostics(c, next, g) ==
    LET nuovi == CampiNuovi(DIAGNOSTIC_COLUMNS, field_of(c, g).nullable)
    IN  Se(ensure_name_free(CampiAltri(c, <<g>>), nuovi),
           Tenendo(c, next, CedeIlPosto(c.campi, PosC(c, g), nuovi), Proprie(c)))

ParentIndex == <<NuovoCampo("__parent_index", "UInt64", FALSE)>>
analyze_expand(c, next, g) ==
    rebuild(c, next, with_geometry_nullability(c, g, FALSE), ParentIndex, sorted_only(c))
analyze_subdivide(c, next, g, uscita) ==
    Se(uscita = g \/ uscita \notin NomiC(c),
       rebuild(c, next, [c.campi EXCEPT ![PosC(c, g)].nome = uscita], ParentIndex, sorted_only(c)))

analyze_geometry_only(c, next, g, extra, nullable) ==
    Tenendo(c, next, <<[field_of(c, g) EXCEPT !.nullable = nullable]>> \o extra, Default)
analyze_collect(c, next, g, group_by) ==
    Se(/\ group_by # <<>> /\ IsInjective(group_by) /\ HaC(c, group_by)
       /\ \A n \in Range(group_by) : field_of(c, n).geo = 0 /\ field_of(c, n).tipo \in is_sortable,
       analyze_geometry_only(c, next, g, CampiDi(c, group_by), field_of(c, g).nullable))

\* The next identity stands for the one that the new geometry will have.
GeometriaNuova(nome, nullable, next) == [NuovoCampo(nome, "Binary", nullable) EXCEPT !.geo = next]
analyze_coverage_rows(c, next, g, nuovi) ==
    finish(nuovi \o <<GeometriaNuova("geometry", FALSE, next)>>,
           IF c.attiva = field_of(c, g).geo THEN next ELSE 0, Default, next)
analyze_coverage_validate(c, next, g) ==
    analyze_coverage_rows(c, next, g,
        << NuovoCampo("issue_type", "Utf8", FALSE), NuovoCampo("index_a", "UInt64", FALSE),
           NuovoCampo("index_b", "UInt64", FALSE), NuovoCampo("area", "Float64", FALSE) >>)
analyze_shared_paths(c, next, g) ==
    analyze_coverage_rows(c, next, g,
        << NuovoCampo("index_a", "UInt64", FALSE), NuovoCampo("index_b", "UInt64", FALSE),
           NuovoCampo("shared_length", "Float64", FALSE) >>)

\* A first geometry becomes the active one.
ConGeometriaNuova(c, next, nome, nullable) ==
    Se(nome \notin NomiC(c),
       finish(Append(c.campi, GeometriaNuova(nome, nullable, next)),
              IF Geometrie(c.campi) = {} THEN next ELSE c.attiva, Proprie(c), next))
analyze_from_coords(c, next, x, y, nome) ==
    Se(HaC(c, <<x, y>>) /\ {field_of(c, x).tipo, field_of(c, y).tipo} \subseteq {"Float64", "Int64"},
       ConGeometriaNuova(c, next, nome, FALSE))
analyze_from_wkt(c, next, wkt, nome) ==
    Se(require_utf8(c, wkt), ConGeometriaNuova(c, next, nome, field_of(c, wkt).nullable))
analyze_generate_grid(next, celle, centroidi) ==
    LET Reali(nomi) == [ k \in DOMAIN nomi |-> NuovoCampo(nomi[k], "Float64", FALSE) ]
    IN  finish(<< GeometriaNuova("geometry", FALSE, next), NuovoCampo("cell_i", "UInt64", FALSE),
                  NuovoCampo("cell_j", "UInt64", FALSE) >>
                 \o (IF centroidi THEN Reali(<<"centroid_x", "centroid_y">>) ELSE <<>>),
               next, Proprieta(NessunOrdine, Stimate(celle)), next)

\* analyze_binary: a row for each pair, of the left that has a geometry.
PerCoppia(c, next, g, nuovi) == rebuild(c, next, with_geometry_nullability(c, g, FALSE), nuovi, Default)
analyze_sjoin(c, next, g) == PerCoppia(c, next, g, <<NuovoCampo("__right_index", "UInt64", FALSE)>>)
analyze_nearest(c, next, g) ==
    PerCoppia(c, next, g, << NuovoCampo("__right_index", "UInt64", FALSE), NuovoCampo("distance", "Float64", FALSE) >>)
analyze_overlay(c, next, g) ==
    analyze_geometry_only(c, next, g,
        << NuovoCampo("__left_index", "UInt64", TRUE), NuovoCampo("__right_index", "UInt64", TRUE) >>, FALSE)

-----------------------------------------------------------------------------
(***************************************************************************)
(* A plan of table and geometry operations, analysed and run side by side. *)
(* Validation gives every table a contract, step after step, before any    *)
(* data is read; the run then trusts it.  A step here does both: the       *)
(* analysis from the contracts of its inputs and the kernel on their rows. *)
(*                                                                         *)
(* A step the analysis refuses is no step of a plan.  A kernel may still   *)
(* end at a limit on the rows or on an assertion the data fail, and the    *)
(* plan ends there; it may not end for a reason that the configuration,    *)
(* the schema and the limits already explain.                              *)
(***************************************************************************)

CONSTANT
    Avvii       \* the cases: input tables, and the bounds on the plans over them:
                \* the steps, the columns they may read, the names they may give

VARIABLES
    tavole,     \* the tables of the plan: contract and data
    avvio,      \* the case
    next,       \* FieldAllocator: the first identity never used
    esito       \* how the last kernel ended

vars == <<tavole, avvio, next, esito>>

(***************************************************************************)
(* The inputs.  Their geometries are given an identity on entry, one input *)
(* after the other; the other columns at every use.                        *)
(***************************************************************************)
Timbra(colonne, passo) ==
    [ p \in DOMAIN colonne |->
        IF colonne[p].origine = Nuova THEN [colonne[p] EXCEPT !.origine = <<passo, colonne[p].nome>>] ELSE colonne[p] ]
QuanteGeo(t) == Cardinality(PosizioniGeo(t.colonne))
contract_from_arrow_schema(t, primo) ==
    LET Id(p) == IF t.colonne[p].geo THEN primo + Cardinality({q \in PosizioniGeo(t.colonne) : q < p}) ELSE 0
        primaria == primary_geometry_position(t)
    IN  [ campi |-> [ p \in DOMAIN t.colonne |->
                        [ nome |-> t.colonne[p].nome, tipo |-> t.colonne[p].tipo,
                          nullable |-> t.colonne[p].nullable, geo |-> Id(p), id |-> Id(p) ] ],
          attiva |-> IF primaria = 0 THEN 0 ELSE Id(primaria),
          ordine |-> NessunOrdine, righe |-> Ignoto ]
Init ==
    \E a \in Avvii :
        LET t == a.tavole
            Prima(i) == 1 + FoldLeft(LAMBDA somma, x : somma + QuanteGeo(x), 0, SubSeq(t, 1, i - 1))
        IN  /\ avvio = a
            /\ tavole = [ i \in DOMAIN t |->
                            [ contratto |-> contract_from_arrow_schema(t[i], Prima(i)),
                              tabella |-> [t[i] EXCEPT !.colonne = Timbra(@, i)] ] ]
            /\ next = Prima(Len(t) + 1)
            /\ esito = "ok"

\* A step reads what the last one made, if there is one: what it does not read is
\* the step of a shorter plan.  After a kernel that fails there are no more steps.
Passi == Len(tavole) - Len(avvio.tavole)
Recenti == IF esito # "ok" \/ Passi = avvio.passi THEN {}
           ELSE IF Passi = 0 THEN DOMAIN tavole ELSE {Len(tavole)}
Coppie == {<<i, j>> \in (DOMAIN tavole) \X (DOMAIN tavole) : i \in Recenti \/ j \in Recenti}
T(i) == tavole[i].tabella
\* FieldAllocator::intern, for the fields of an input that has none yet; the second of
\* two inputs comes after the first.
C(i) == [tavole[i].contratto EXCEPT !.campi = alloc(@, next)]
N(i) == next + Assegnati(tavole[i].contratto.campi)
D(i, j) == [tavole[j].contratto EXCEPT !.campi = alloc(@, N(i))]
M(i, j) == N(i) + Assegnati(tavole[j].contratto.campi)
NomiDi(i) == Nomi(T(i)) \cap avvio.nomi
Uscite == avvio.uscite
Elenchi(i) == {<<a>> : a \in NomiDi(i)} \cup {<<a, "k">> : a \in NomiDi(i)}
TipoDi(i, nome) == IF nome \in Nomi(T(i)) THEN Campo(T(i), nome).tipo ELSE "Int64"
FinoAUno(S) == {<<>>} \cup {<<a>> : a \in S}
Bool == BOOLEAN

\* verifica_colonne, then the kernel, on a contract the analysis has accepted.
Passo(analisi, kernel) ==
    /\ \E a \in {analisi} :
         /\ a.esito # "rifiutato"
         /\ a.esito = "ok" => Len(a.contratto.campi) <= max_columns
         /\ \E u \in {IF a.esito = "ok" THEN kernel ELSE a} :
              /\ esito' = u.esito
              /\ tavole' = IF u.esito # "ok" THEN tavole
                           ELSE Append(tavole, [contratto |-> a.contratto,
                                    tabella |-> [u.tabella EXCEPT !.colonne = Timbra(@, Len(tavole) + 1)]])
              /\ next' = IF u.esito # "ok" THEN next ELSE a.next
    /\ UNCHANGED avvio

\* ------------------------------------------------- columns, order, groups
table_drop_columns == \E i \in Recenti : \E nomi \in Elenchi(i) :
    Passo(analyze_drop_columns(C(i), N(i), nomi), drop_columns(T(i), nomi))
table_select_columns == \E i \in Recenti : \E nomi \in Elenchi(i) :
    Passo(analyze_select_columns(C(i), N(i), nomi), select_columns(T(i), nomi))
table_reorder_columns == \E i \in Recenti : \E nomi \in Elenchi(i) :
    Passo(analyze_reorder_columns(C(i), N(i), nomi), reorder_columns(T(i), nomi))
\* One name, or two that exchange their columns.
table_rename == \E i \in Recenti : \E a \in NomiDi(i), b \in Uscite \cup NomiDi(i), scambio \in Bool :
    LET coppie == IF scambio THEN <<<<a, b>>, <<b, a>>>> ELSE <<<<a, b>>>>
    IN  Passo(analyze_rename(C(i), N(i), coppie), rename(T(i), coppie))
table_align_schema == \E i \in Recenti :
    \E nomi \in {<<a>> : a \in NomiDi(i)} \cup {<<"n", a>> : a \in NomiDi(i)}, v \in {1, Nulla}, extra \in Bool :
        LET declared == [ k \in DOMAIN nomi |->
                            [ nome |-> nomi[k], default |-> v,
                              tipo |-> TipoDi(i, nomi[k]) ] ]
        IN  Passo(analyze_align_schema(C(i), N(i), declared, extra), align_schema(T(i), declared, extra))
table_concat_columns == \E i \in Recenti : \E nomi \in Elenchi(i), n \in Uscite, skip \in Bool :
    Passo(analyze_concat_columns(C(i), N(i), nomi, n), concat_columns(T(i), nomi, n, skip))
table_split_column == \E i \in Recenti : \E a \in NomiDi(i), b, n \in Uscite :
    Passo(analyze_split_column(C(i), N(i), a, <<b, n>>), split_column(T(i), a, <<b, n>>))
table_sort == \E i \in Recenti : \E nomi \in Elenchi(i), su \in Bool :
    Passo(analyze_sort(C(i), N(i), nomi, su), sort(T(i), nomi, su))
table_top_n == \E i \in Recenti : \E nomi \in Elenchi(i), n \in 0 .. 2, giu \in Bool :
    Passo(analyze_top_n(C(i), N(i), nomi, n, giu), top_n(T(i), nomi, n, giu))
table_distinct == \E i \in Recenti : \E nomi \in Elenchi(i) \cup {<<>>}, keep \in {"first", "last", "false"} :
    Passo(analyze_distinct(C(i), N(i), nomi), distinct(T(i), nomi, keep))
table_dedup_advanced == \E i \in Recenti :
    \E a \in NomiDi(i), o \in FinoAUno(NomiDi(i)), keep \in {"first", "last", "false"}, su \in Bool :
        Passo(analyze_dedup_advanced(C(i), N(i), <<a>>, keep, o, su), dedup_advanced(T(i), <<a>>, keep, o, su))
Funzioni == {"count", "nunique", "concat", "first", "last", "sum", "min", "mean"}
Aggregazioni(a) ==
    LET Su(f, n) == [colonna |-> a, funzione |-> f, alias |-> n]
    IN  { <<>>, <<Su("first", "k")>>, <<Su("sum", ""), Su("last", "")>> } \cup { <<Su(f, "")>> : f \in Funzioni }
table_aggregate == \E i \in Recenti : \E gruppo, a \in NomiDi(i) : \E aggregazioni \in Aggregazioni(a) :
    Passo(analyze_aggregate(C(i), N(i), <<gruppo>>, aggregazioni), aggregate_con_limiti(T(i), <<gruppo>>, aggregazioni))
table_rolling_window == \E i \in Recenti :
    \E f \in {"sum", "mean"}, a \in NomiDi(i), n \in Uscite : \E g \in {<<>>, <<a>>}, o \in {<<>>, <<"k">>} :
        Passo(analyze_rolling_window(C(i), N(i), f, a, g, o, n), rolling_window(T(i), f, a, g, o, n))
table_window_function == \E i \in Recenti :
    \E f \in {"lag", "cumsum", "rank"}, a \in NomiDi(i), o \in FinoAUno(NomiDi(i)), g \in {<<"k">>}, n \in Uscite :
        Passo(analyze_window_function(C(i), N(i), f, a, g, o, n), window_function(T(i), f, a, g, o, n))
table_add_row_number == \E i \in Recenti : \E p \in FinoAUno(NomiDi(i)), n \in Uscite :
    Passo(analyze_add_row_number(C(i), N(i), p, n), add_row_number(T(i), p, n))
table_uuid_generator == \E i \in Recenti : \E n \in Uscite :
    Passo(analyze_uuid_generator(C(i), N(i), n), uuid_generator(T(i), n))
table_limit == \E i \in Recenti : \E n \in 0 .. 2, offset \in 0 .. 1 :
    Passo(analyze_limit(C(i), N(i), n, offset), limit(T(i), n, offset))
table_sample == \E i \in Recenti : \E n \in 0 .. 2, strati \in FinoAUno(NomiDi(i)) :
    Passo(analyze_sample(C(i), N(i), n, strati), sample(T(i), n, strati))

\* ---------------------------------------------------------------- values
Operatori == {"eq", "gt", "isnull"}
table_filter == \E i \in Recenti : \E a \in NomiDi(i), op \in Operatori :
    Passo(analyze_filter(C(i), N(i), a, op), filter(T(i), a, op, 0))
table_conditional == \E i \in Recenti :
    \E a \in NomiDi(i), n \in Uscite, caso \in {<<"eq", "numeri">>, <<"gt", "testi">>, <<"isnull", "testo_e_nullo">>} :
        Passo(analyze_conditional(C(i), N(i), a, caso[1], caso[2], n),
              conditional(T(i), a, caso[1], 0, caso[2], n))
table_fill_na == \E i \in Recenti : \E nome \in FinoAUno(NomiDi(i)) :
    Passo(analyze_fill_na(C(i), N(i), nome), fill_na(T(i), nome))
table_replace == \E i \in Recenti : \E a \in NomiDi(i) :
    Passo(analyze_replace(C(i), N(i), a), replace_con_limiti(T(i), a))
table_type_cast == \E i \in Recenti : \E a \in NomiDi(i), tipo \in {"Int64", "Utf8", "Date32"} :
    Passo(analyze_type_cast(C(i), N(i), a, tipo), type_cast(T(i), a, tipo))
table_lookup == \E i \in Recenti : \E a \in NomiDi(i), n \in Uscite :
    Passo(analyze_lookup(C(i), N(i), a, n), lookup(T(i), a, n))
table_bin == \E i \in Recenti : \E a \in NomiDi(i), n \in Uscite :
    Passo(analyze_bin(C(i), N(i), a, n), bin_con_limiti(T(i), a, n))
table_flatten_json == \E i \in Recenti : \E a \in NomiDi(i), b, n \in Uscite :
    Passo(analyze_flatten_json(C(i), N(i), a, <<b, n>>), flatten_json(T(i), a, <<b, n>>))
table_statistics == \E i \in Recenti :
    \E f \in {"sum", "min"}, a \in NomiDi(i), g \in {<<>>, <<"k">>}, n \in Uscite :
        Passo(analyze_statistics(C(i), N(i), f, a, g, n), statistics(T(i), f, a, g, n))
table_formula == \E i \in Recenti : \E op \in {"+", "-"}, a, b \in NomiDi(i), n \in Uscite :
    Passo(analyze_formula(C(i), N(i), op, a, b, n), formula_con_effetti(T(i), op, a, b, n))
table_string_pad == \E i \in Recenti : \E a \in NomiDi(i), n \in Uscite :
    Passo(analyze_string_pad(C(i), N(i), a, n), string_pad(T(i), a, n))
table_string_length == \E i \in Recenti : \E a \in NomiDi(i), n \in Uscite :
    Passo(analyze_string_length(C(i), N(i), a, n), string_length(T(i), a, n))
table_string_extract == \E i \in Recenti : \E a \in NomiDi(i), n \in Uscite :
    Passo(analyze_string_extract(C(i), N(i), a, n), string_extract(T(i), a, n))
table_text_normalize == \E i \in Recenti : \E nomi \in Elenchi(i), o \in Bool :
    Passo(analyze_text_normalize(C(i), N(i), nomi, o), text_normalize(T(i), nomi, o))
table_mask_data == \E i \in Recenti : \E nomi \in Elenchi(i), o \in Bool :
    Passo(analyze_mask_data(C(i), N(i), nomi, o), mask_data_con_limiti(T(i), nomi, o))
table_md5_hash == \E i \in Recenti : \E nomi \in Elenchi(i), n \in Uscite :
    Passo(analyze_md5_hash(C(i), N(i), nomi, n), md5_hash(T(i), nomi, n))
table_sha256_hash == \E i \in Recenti : \E nomi \in Elenchi(i), n \in Uscite :
    Passo(analyze_sha256_hash(C(i), N(i), nomi, n), sha256_hash(T(i), nomi, n))
table_stable_fingerprint == \E i \in Recenti : \E nomi \in FinoAUno(NomiDi(i)), n \in Uscite :
    Passo(analyze_stable_fingerprint(C(i), N(i), nomi, n), stable_fingerprint(T(i), nomi, n))
table_hmac_sha256 == \E i \in Recenti : \E a \in NomiDi(i), nullo \in Bool, n \in Uscite :
    Passo(analyze_hmac_sha256(C(i), N(i), <<a>>, nullo, n), hmac_sha256(T(i), <<a>>, nullo, n))
table_date_extract == \E i \in Recenti : \E a \in NomiDi(i), n \in Uscite :
    Passo(analyze_date_extract(C(i), N(i), a, n), date_extract(T(i), a, n))
table_date_format == \E i \in Recenti : \E a \in NomiDi(i), n \in Uscite :
    Passo(analyze_date_format(C(i), N(i), a, n), date_format(T(i), a, n))
table_date_add == \E i \in Recenti : \E a \in NomiDi(i), n \in Uscite :
    Passo(analyze_date_add(C(i), N(i), a, n), date_add(T(i), a, n))
table_timezone_convert == \E i \in Recenti : \E a \in NomiDi(i), n \in Uscite :
    Passo(analyze_timezone_convert(C(i), N(i), a, n), timezone_convert(T(i), a, n))
table_date_diff == \E i \in Recenti : \E a, b \in NomiDi(i), n \in Uscite :
    Passo(analyze_date_diff(C(i), N(i), a, b, n), date_diff(T(i), a, b, n))
\* ------------------------------------------------------- checks and shape
table_assert_schema == \E i \in Recenti : \E nomi \in Elenchi(i), ordered, extra, nullable \in Bool :
    LET attesi == [ k \in DOMAIN nomi |-> [nome |-> nomi[k], tipo |-> TipoDi(i, nomi[k]), nullable |-> nullable] ]
    IN  Passo(analyze_assert_schema(C(i), N(i), attesi, ordered, extra), assert_schema(T(i), attesi, ordered, extra))
table_assert_not_null == \E i \in Recenti : \E nomi \in Elenchi(i) :
    Passo(analyze_assert_not_null(C(i), N(i), nomi), assert_not_null(T(i), nomi))
table_assert_unique == \E i \in Recenti : \E nomi \in Elenchi(i), nulli \in Bool :
    Passo(analyze_assert_unique(C(i), N(i), nomi), assert_unique(T(i), nomi, nulli))
table_assert_range == \E i \in Recenti : \E a \in NomiDi(i), massimo \in 0 .. 2, nulli \in Bool :
    Passo(analyze_assert_range(C(i), N(i), a), assert_range(T(i), a, massimo, nulli))
table_assert_regex == \E i \in Recenti : \E a \in NomiDi(i), nulli \in Bool :
    Passo(analyze_assert_regex(C(i), N(i), a), assert_regex(T(i), a, nulli))
table_coalesce == \E i \in Recenti : \E nomi \in Elenchi(i), n \in Uscite :
    Passo(analyze_coalesce(C(i), N(i), nomi, n), coalesce(T(i), nomi, n))
\* Nulla stands for a bound that is not given.
table_assert_cardinality == \E i \in Recenti : \E e, a, b \in {0, 5, Nulla} :
    LET limiti == [exact |-> e, min |-> a, max |-> b]
    IN  Passo(analyze_assert_cardinality(C(i), N(i), limiti), assert_cardinality(T(i), limiti))
table_validate_rules == \E i \in Recenti : \E a \in NomiDi(i), op \in Operatori \cup {"regex"}, annotate \in Bool :
    Passo(analyze_validate_rules(C(i), N(i), a, op, annotate), validate_rules(T(i), a, op, annotate))
table_melt == \E i \in Recenti :
    \E id, v \in FinoAUno(NomiDi(i)), nomi \in {<<"n", "m">>, <<"k", "k_1">>}, stringa \in Bool :
        Passo(analyze_melt(C(i), N(i), id, v, nomi[1], nomi[2], stringa),
              melt(T(i), id, v, nomi[1], nomi[2], stringa))
table_pivot == \E i \in Recenti :
    \E a, b, v \in NomiDi(i), f \in {"first", "count", "concat", "sum"}, n \in Uscite :
        LET mappa == <<[valore |-> 1, nome |-> n], [valore |-> 0, nome |-> "p"]>>
        IN  Passo(analyze_pivot(C(i), N(i), <<a>>, b, v, f, mappa), pivot(T(i), <<a>>, b, v, f, mappa))
table_explode == \E i \in Recenti : \E a \in NomiDi(i) : \E n \in Uscite \cup {a} :
    Passo(analyze_explode(C(i), N(i), a, n), explode(T(i), a, n))
table_unnest == \E i \in Recenti : \E a \in NomiDi(i), b, n \in Uscite, toglie \in Bool :
    Passo(analyze_unnest(C(i), N(i), a, <<b, n>>, toglie), unnest(T(i), a, <<b, n>>, toglie))

\* ------------------------------------------------------------- two inputs
table_join == \E p \in Coppie : LET i == p[1]  j == p[2] IN
    \E lk \in NomiDi(i), rk \in NomiDi(j), how \in {"inner", "left", "right", "outer"} :
        Passo(analyze_join(C(i), D(i, j), M(i, j), <<lk>>, <<rk>>, how), join(T(i), T(j), <<lk>>, <<rk>>, how))
table_fuzzy_join == \E p \in Coppie : LET i == p[1]  j == p[2] IN
    \E lk \in NomiDi(i), rk \in NomiDi(j), how \in {"inner", "left"}, n \in {"score", "k_R"} :
        Passo(analyze_fuzzy_join(C(i), D(i, j), M(i, j), lk, rk, how, n), fuzzy_join(T(i), T(j), lk, rk, how, n))
table_cross_join == \E p \in Coppie : LET i == p[1]  j == p[2] IN
    Passo(analyze_cross_join(C(i), D(i, j), M(i, j)), cross_join(T(i), T(j)))
table_membership_join == \E p \in Coppie : LET i == p[1]  j == p[2] IN
    \E lk \in NomiDi(i), rk \in NomiDi(j), semi \in Bool :
        Passo(analyze_membership_join(C(i), D(i, j), M(i, j), <<lk>>, <<rk>>),
              membership_join(T(i), T(j), <<lk>>, <<rk>>, semi))
table_asof_join == \E p \in Coppie : LET i == p[1]  j == p[2] IN
    \E lo \in NomiDi(i), ro \in NomiDi(j), lb \in FinoAUno(NomiDi(i)), rb \in FinoAUno(NomiDi(j)) :
        Passo(analyze_asof_join(C(i), D(i, j), M(i, j), lo, ro, lb, rb), asof_join(T(i), T(j), lo, ro, lb, rb))
table_concat == \E p \in Coppie : LET i == p[1]  j == p[2] IN
    Passo(analyze_concat(C(i), D(i, j), M(i, j)), concat(T(i), T(j)))
table_concat_by_name == \E p \in Coppie : LET i == p[1]  j == p[2] IN \E strict \in Bool :
    Passo(analyze_concat_by_name(C(i), D(i, j), M(i, j), strict), concat_by_name(T(i), T(j), strict))
table_union_distinct == \E p \in Coppie : LET i == p[1]  j == p[2] IN
    Passo(analyze_set_operation(C(i), D(i, j), M(i, j), "union"), union_distinct(T(i), T(j)))
table_intersect == \E p \in Coppie : LET i == p[1]  j == p[2] IN
    Passo(analyze_set_operation(C(i), D(i, j), M(i, j), "intersect"), intersect(T(i), T(j)))
table_except == \E p \in Coppie : LET i == p[1]  j == p[2] IN
    Passo(analyze_set_operation(C(i), D(i, j), M(i, j), "except"), except(T(i), T(j)))
table_assert_foreign_key == \E p \in Coppie : LET i == p[1]  j == p[2] IN
    \E lk \in NomiDi(i), rk \in NomiDi(j), nulli \in Bool :
        Passo(analyze_assert_foreign_key(C(i), D(i, j), M(i, j), <<lk>>, <<rk>>),
              assert_foreign_key(T(i), T(j), <<lk>>, <<rk>>, nulli))
table_reconcile == \E p \in Coppie : LET i == p[1]  j == p[2] IN
    \E lk \in NomiDi(i), rk \in NomiDi(j), nulli \in Bool :
        Passo(analyze_reconcile(C(i), D(i, j), M(i, j), <<lk>>, <<rk>>),
              reconcile(T(i), T(j), <<lk>>, <<rk>>, nulli))

\* ------------------------------------------------------------- geometries
\* The geometries a configuration may select, and the contract of a selection.
Operandi(i) == resolve_operands(tavole[i].contratto, NomiDi(i))
G(i, g) == SenzaOrdineSu(C(i), g)
\* PassoGeo::esegui, on the contract.
PassoGeo(analisi, prodotto) == \E a \in {analisi} : Passo(a, monta(a.contratto, prodotto))
NullabileC(i, g) == field_of(tavole[i].contratto, g).nullable

\* The transformations of one geometry in one, snap, make_valid and reproject among them;
\* point_on_surface, line_substring and line_interpolate_point may have no answer.
geo_transform == \E i \in Recenti : \E g \in Operandi(i), vuota_nulla \in Bool :
    PassoGeo(Uguale(G(i, g), N(i)), trasforma(T(i), g, vuota_nulla))
geo_voronoi == \E i \in Recenti : \E g \in Operandi(i) :
    PassoGeo(Uguale(G(i, g), N(i)), voronoi(T(i), g))
geo_clean_topology == \E i \in Recenti : \E g \in Operandi(i), sovrapposizioni \in Bool :
    PassoGeo(with_nullable_geometry(G(i, g), N(i), g), pulisci(T(i), g, sovrapposizioni))
\* Areas, lengths, counts, texts, predicates: a value for every geometry that is there.
geo_measure == \E i \in Recenti : \E g \in Operandi(i), tipo \in {"Float64", "UInt64", "Utf8", "Boolean"}, n \in Uscite :
    PassoGeo(analyze_add_column(G(i, g), N(i), n, tipo, NullabileC(i, g)), misura(T(i), g, tipo, FALSE))
\* Plane distances and line_locate_point.
geo_distance == \E i \in Recenti : \E g \in Operandi(i), n \in Uscite :
    PassoGeo(analyze_add_column(G(i, g), N(i), n, "Float64", TRUE), misura(T(i), g, "Float64", TRUE))
geo_bounds_extractor == \E i \in Recenti : \E g \in Operandi(i) :
    PassoGeo(analyze_bounds(G(i, g), N(i), g), quattro_limiti(T(i), g))
geo_geometry_accessors == \E i \in Recenti : \E g \in Operandi(i), fields \in {<<4, 1>>, <<2>>, <<3, 3>>, <<6, 5>>} :
    PassoGeo(analyze_geometry_accessors(G(i, g), N(i), g, fields), accessori(T(i), g, fields))
geo_geometry_diagnostics == \E i \in Recenti : \E g \in Operandi(i) :
    PassoGeo(analyze_diagnostics(G(i, g), N(i), g), diagnostica(T(i), g))
\* delaunay and split too.
geo_explode == \E i \in Recenti : \E g \in Operandi(i) :
    PassoGeo(analyze_expand(G(i, g), N(i), g), espandi(T(i), g, FALSE))
geo_subdivide == \E i \in Recenti : \E g \in Operandi(i) : \E n \in Uscite \cup {g} :
    PassoGeo(analyze_subdivide(G(i, g), N(i), g, n), espandi(T(i), g, TRUE))
\* dissolve, line_builder, polygon_builder: the geometries they need at least.
geo_dissolve == \E i \in Recenti : \E g \in Operandi(i), minimo \in 1 .. 3 :
    PassoGeo(analyze_geometry_only(G(i, g), N(i), g, <<>>, TRUE), Aggrega(T(i), g, minimo))
geo_line_merge == \E i \in Recenti : \E g \in Operandi(i) :
    PassoGeo(analyze_geometry_only(G(i, g), N(i), g, <<>>, FALSE), PerGeometria(T(i), g, <<>>))
geo_polygonize == \E i \in Recenti : \E g \in Operandi(i) :
    PassoGeo(analyze_geometry_only(G(i, g), N(i), g, <<NuovoCampo("__class", "Utf8", FALSE)>>, FALSE),
             PerGeometria(T(i), g, <<"Utf8">>))
geo_collect == \E i \in Recenti : \E g \in Operandi(i), chiavi \in Elenchi(i) :
    PassoGeo(analyze_collect(G(i, g), N(i), g, chiavi), raccogli(T(i), g, chiavi))
geo_cluster_dbscan == \E i \in Recenti : \E g \in Operandi(i), punti \in 1 .. 2, n \in Uscite :
    PassoGeo(analyze_add_column(G(i, g), N(i), n, "UInt64", TRUE), raggruppa(T(i), g, punti))
geo_coverage_validate == \E i \in Recenti : \E g \in Operandi(i) :
    PassoGeo(analyze_coverage_validate(G(i, g), N(i), g), coperture(T(i), g, <<"Utf8", "UInt64", "UInt64", "Float64">>))
geo_shared_paths == \E i \in Recenti : \E g \in Operandi(i) :
    PassoGeo(analyze_shared_paths(G(i, g), N(i), g), coperture(T(i), g, <<"UInt64", "UInt64", "Float64">>))
geo_from_coords == \E i \in Recenti : \E x, y \in NomiDi(i), n \in Uscite \cup {"geometry"} :
    PassoGeo(analyze_from_coords(C(i), N(i), x, y, n), da_coordinate(T(i), x, y))
geo_from_wkt == \E i \in Recenti : \E a \in NomiDi(i), n \in Uscite \cup {"geometry"} :
    PassoGeo(analyze_from_wkt(C(i), N(i), a, n), da_wkt(T(i), a))
geo_generate_grid == \E i \in Recenti : \E celle \in 1 .. 2, centroidi \in Bool :
    PassoGeo(analyze_generate_grid(N(i), celle, centroidi),
             griglia(celle, <<"UInt64", "UInt64">> \o (IF centroidi THEN <<"Float64", "Float64">> ELSE <<>>)))
geo_sjoin == \E p \in Coppie : LET i == p[1]  j == p[2] IN \E g \in Operandi(i), h \in Operandi(j) :
    PassoGeo(analyze_sjoin(G(i, g), M(i, j), g), Unione(T(i), T(j), g, h))
geo_nearest == \E p \in Coppie : LET i == p[1]  j == p[2] IN
    \E g \in Operandi(i), h \in Operandi(j), massima \in {0, 2} :
        PassoGeo(analyze_nearest(G(i, g), M(i, j), g), PiuVicino(T(i), T(j), g, h, massima))
\* within, and count_points_in_polygons.
geo_within == \E p \in Coppie : LET i == p[1]  j == p[2] IN
    \E g \in Operandi(i), h \in Operandi(j), tipo \in {"Boolean", "UInt64"}, n \in Uscite :
        PassoGeo(analyze_add_column(G(i, g), M(i, j), n, tipo, NullabileC(i, g)), Conta(T(i), T(j), g, h, tipo))
geo_clip == \E p \in Coppie : LET i == p[1]  j == p[2] IN \E g \in Operandi(i), h \in Operandi(j) :
    PassoGeo(with_nullable_geometry(G(i, g), M(i, j), g), Ritaglia(T(i), T(j), g, h))
geo_boolean == \E p \in Coppie : LET i == p[1]  j == p[2] IN
    \E g \in Operandi(i), h \in Operandi(j), op \in {"intersection", "union", "difference", "symmetric_difference"} :
        PassoGeo(with_nullable_geometry(G(i, g), M(i, j), g), Booleana(T(i), T(j), g, h, op))
geo_overlay == \E p \in Coppie : LET i == p[1]  j == p[2] IN
    \E g \in Operandi(i), h \in Operandi(j), modo \in {"intersection", "union", "identity", "symmetric_difference"} :
        PassoGeo(analyze_overlay(G(i, g), M(i, j), g), Sovrapponi(T(i), T(j), g, h, modo))

Next ==
    \/ table_drop_columns \/ table_select_columns \/ table_reorder_columns \/ table_rename
    \/ table_align_schema \/ table_concat_columns \/ table_split_column
    \/ table_sort \/ table_top_n \/ table_distinct \/ table_dedup_advanced \/ table_aggregate
    \/ table_rolling_window \/ table_window_function
    \/ table_add_row_number \/ table_uuid_generator \/ table_limit \/ table_sample
    \/ table_filter \/ table_conditional \/ table_fill_na \/ table_replace \/ table_type_cast
    \/ table_lookup \/ table_bin \/ table_flatten_json \/ table_statistics \/ table_formula
    \/ table_string_pad \/ table_string_length \/ table_string_extract \/ table_text_normalize
    \/ table_mask_data \/ table_md5_hash \/ table_sha256_hash \/ table_stable_fingerprint
    \/ table_hmac_sha256 \/ table_date_extract \/ table_date_format \/ table_date_add
    \/ table_timezone_convert \/ table_date_diff
    \/ table_assert_schema \/ table_assert_not_null \/ table_assert_unique \/ table_assert_range
    \/ table_assert_regex \/ table_coalesce \/ table_assert_cardinality \/ table_validate_rules
    \/ table_melt \/ table_pivot \/ table_explode \/ table_unnest
    \/ table_join \/ table_fuzzy_join \/ table_cross_join \/ table_membership_join \/ table_asof_join
    \/ table_concat \/ table_concat_by_name \/ table_union_distinct \/ table_intersect \/ table_except
    \/ table_assert_foreign_key \/ table_reconcile
    \/ geo_transform \/ geo_voronoi \/ geo_clean_topology \/ geo_measure \/ geo_distance
    \/ geo_bounds_extractor \/ geo_geometry_accessors \/ geo_geometry_diagnostics
    \/ geo_explode \/ geo_subdivide \/ geo_dissolve \/ geo_line_merge \/ geo_polygonize \/ geo_collect
    \/ geo_cluster_dbscan \/ geo_coverage_validate \/ geo_shared_paths
    \/ geo_from_coords \/ geo_from_wkt \/ geo_generate_grid
    \/ geo_sjoin \/ geo_nearest \/ geo_within \/ geo_clip \/ geo_boolean \/ geo_overlay
Spec == Init /\ [][Next]_vars

-----------------------------------------------------------------------------
\* The contract of every table of the plan names the columns the kernel makes, in the
\* same order, with the same types, nullability and geometries, and its active geometry
\* is the primary one of the schema: what the next step is analysed against is what its
\* kernel will read.
SchemaFedele ==
    \A i \in DOMAIN tavole :
        LET t == T(i).colonne  c == tavole[i].contratto.campi
        IN  /\ Len(t) = Len(c)
            /\ \A p \in DOMAIN t :
                  <<t[p].nome, t[p].tipo, t[p].nullable, t[p].geo>>
                    = <<c[p].nome, c[p].tipo, c[p].nullable, c[p].geo # 0>>
            /\ LET prima == primary_geometry_position(T(i))
               IN  AttivaC(tavole[i].contratto) = IF prima = 0 THEN "" ELSE t[prima].nome

\* analyze_table_contract and analyze_geo_contract: a configuration they accept does not
\* fail in the run for a reason that configuration, schema and limits make foreseeable.
\* A limit on the rows or an assertion that the data fail may still end the run.
AccettatoNonFallisce == esito \in {"ok", "limite", "asserzione"}

\* What a contract declares as proven of the rows is true after any number of steps
\* that are said to keep it: the order is the order of the rows, and the number is
\* their number (assert_cardinality refuses a plan by it before the run).
ProprietaFedeli ==
    \A i \in DOMAIN tavole :
        LET o == tavole[i].contratto.ordine
            Posto(k) == CHOOSE p \in DOMAIN T(i).colonne : tavole[i].contratto.campi[p].id = o.chiavi[k]
            Chiave(r) == [ k \in DOMAIN o.chiavi |-> T(i).righe[r][Posto(k)] ]
        IN  /\ tavole[i].contratto.righe \in {Ignoto, Dimostrate(Len(T(i).righe)), Stimate(Len(T(i).righe))}
            /\ \A r \in 1 .. Len(T(i).righe) - 1 :
                  \/ Chiave(r) = Chiave(r + 1)
                  \/ IF o.crescente THEN Lessicografico(Chiave(r), Chiave(r + 1))
                     ELSE Lessicografico(Chiave(r + 1), Chiave(r))

\* An identity is of one column for the whole plan: two tables that share it share the
\* source of its cells, whatever the names; and no step leaves a contract whose
\* identities contradict each other.
IdentitaStabile ==
    /\ esito # "identita"
    /\ \A j \in DOMAIN tavole : \A i \in 1 .. j : \A p \in DOMAIN T(i).colonne, q \in DOMAIN T(j).colonne :
          LET a == tavole[i].contratto.campi[p].id
          IN  (a # 0 /\ a = tavole[j].contratto.campi[q].id)
                => T(i).colonne[p].origine = T(j).colonne[q].origine
=============================================================================
