------------------------------ MODULE Analisi -------------------------------
(***************************************************************************)
(* The contract of a table, what the analysis of a step says of the output *)
(* without seeing the data: fields with their identity, the active         *)
(* geometry, the order and the number of the rows where they are proven.   *)
(*                                                                         *)
(* A field has id 0 until it is given one, and geo holds the identity of   *)
(* its geometry, 0 when it is not one: in the draft of an output the two   *)
(* may differ, because the field is new and its geometry is not.           *)
(***************************************************************************)
EXTENDS KernelTabella

\* PropertyConfidence of the number of the rows.
Ignoto == [fiducia |-> "ignoto", numero |-> 0]
Dimostrate(n) == [fiducia |-> "dimostrato", numero |-> n]
Stimate(n) == [fiducia |-> "stimato", numero |-> n]
NessunOrdine == [chiavi |-> <<>>, crescente |-> TRUE]
\* ContractProperties: the order and the number of the rows.
Proprieta(ordine, righe) == [ordine |-> ordine, righe |-> righe]
Default == Proprieta(NessunOrdine, Ignoto)

NuovoCampo(nome, tipo, nullable) ==
    [nome |-> nome, tipo |-> tipo, nullable |-> nullable, geo |-> 0, id |-> 0]

NomiC(c) == {c.campi[i].nome : i \in DOMAIN c.campi}
PosC(c, nome) == CHOOSE i \in DOMAIN c.campi : c.campi[i].nome = nome
field_of(c, nome) == c.campi[PosC(c, nome)]
HaC(c, nomi) == Range(nomi) \subseteq NomiC(c)
require_keys(c, nomi) == HaC(c, nomi) /\ \A n \in Range(nomi) : field_of(c, n).tipo \in text_convertible
require_text_values(c, nomi) ==
    require_keys(c, nomi) /\ \A n \in Range(nomi) : field_of(c, n).geo = 0
require_numeric(c, nome) == HaC(c, <<nome>>) /\ field_of(c, nome).tipo \in dominio_numerico
require_utf8(c, nome) == HaC(c, <<nome>>) /\ field_of(c, nome).tipo = "Utf8"
check_name_list(nomi, massimo) == Len(nomi) \in 1 .. massimo /\ IsInjective(nomi)

Geometrie(campi) == {campi[i].geo : i \in DOMAIN campi} \ {0}
AttivaC(c) == IF c.attiva = 0 THEN "" ELSE (CHOOSE f \in Range(c.campi) : f.geo = c.attiva).nome
\* The input's active geometry, if a field of the draft still carries it.
AncoraAttiva(c, campi) == IF c.attiva \in Geometrie(campi) THEN c.attiva ELSE 0

Rifiutato == [esito |-> "rifiutato"]
Se(condizione, analisi) == IF condizione THEN analisi ELSE Rifiutato

\* FieldAllocator::alloc, once for every field without an identity, in order.
alloc(campi, next) ==
    [ i \in DOMAIN campi |->
        IF campi[i].id # 0 THEN campi[i]
        ELSE [campi[i] EXCEPT
                !.id = next + Cardinality({j \in 1 .. i - 1 : campi[j].id = 0})] ]
Assegnati(campi) == Cardinality({i \in DOMAIN campi : campi[i].id = 0})

\* DataContract::validate, the part about identities.
IdentitaCoerenti(c) ==
    LET id == {c.campi[i].id : i \in DOMAIN c.campi}
    IN  /\ Cardinality(id) = Len(c.campi)
        /\ \A f \in Range(c.campi) : f.geo \in {0, f.id}
        /\ Range(c.ordine.chiavi) \subseteq id
        /\ c.attiva \in {0} \cup Geometrie(c.campi)

\* DataContract::new: a kept field keeps the identity of its geometry too; the
\* geometry of a new field moves to the new identity, and the active one with it.
DataContract_new(bozza, attiva, proprieta, next) ==
    LET campi == alloc(bozza, next)
        geo == {i \in DOMAIN bozza : bozza[i].geo # 0}
        nuovi == [ i \in DOMAIN campi |->
                     IF i \in geo THEN [campi[i] EXCEPT !.geo = campi[i].id] ELSE campi[i] ]
        c == [ campi |-> nuovi,
               attiva |-> IF attiva = 0 THEN 0 ELSE campi[CHOOSE i \in geo : bozza[i].geo = attiva].id,
               ordine |-> proprieta.ordine, righe |-> proprieta.righe ]
    IN  IF Cardinality({bozza[i].nome : i \in DOMAIN bozza}) # Len(bozza) THEN Rifiutato
        ELSE IF /\ Cardinality(Geometrie(bozza)) = Cardinality(geo)
                /\ \A i \in geo : bozza[i].id \in {0, bozza[i].geo}
                /\ attiva \in {0} \cup Geometrie(bozza)
             THEN IF IdentitaCoerenti(c)
                  THEN [esito |-> "ok", contratto |-> c, next |-> next + Assegnati(bozza)]
                  ELSE [esito |-> "identita"]
             ELSE [esito |-> "identita"]

\* An active geometry the draft has lost is an error of DataContract::new.
finish(bozza, attiva, proprieta, next) == DataContract_new(bozza, attiva, proprieta, next)

\* An output that is the input as it is.
Uguale(c, next) == [esito |-> "ok", contratto |-> c, next |-> next]

append_props(c, sovrascritto) == Proprieta(IF sovrascritto THEN NessunOrdine ELSE c.ordine, c.righe)
\* Mutant of rows_only: the order survives a change of the values.
rows_only_conOrdine(c) == Proprieta(c.ordine, c.righe)

rows_only(c) == Proprieta(NessunOrdine, c.righe)
sorted_only(c) == Proprieta(c.ordine, Ignoto)
Proprie(c) == Proprieta(c.ordine, c.righe)
proven_sorted(chiavi, crescente) == [chiavi |-> chiavi, crescente |-> crescente]
IdDi(c, nomi) == [ k \in DOMAIN nomi |-> field_of(c, nomi[k]).id ]

\* replace_or_append, on fields.
produce(campi, campo) ==
    IF \E i \in DOMAIN campi : campi[i].nome = campo.nome
    THEN [ i \in DOMAIN campi |-> IF campi[i].nome = campo.nome THEN campo ELSE campi[i] ]
    ELSE Append(campi, campo)

\* One or more computed columns: new fields, kept rows, the order unless one of them
\* takes the place of another.
analyze_append(c, next, prodotti) ==
    LET campi == FoldLeft(produce, c.campi, prodotti)
        sovrascritto ==
            \E k \in DOMAIN prodotti :
                prodotti[k].nome \in NomiC(c) \cup {prodotti[j].nome : j \in 1 .. k - 1}
    IN  finish(campi, AncoraAttiva(c, campi), append_props(c, sovrascritto), next)
AppendUno(c, next, nome, tipo, nullable) ==
    analyze_append(c, next, <<NuovoCampo(nome, tipo, nullable)>>)

\* A column that keeps cells of a geometry is one: it becomes the active one when the
\* input had none, or when it takes the place of the active one.
derive_geometry(a, c, sorgente, nome, replaces_primary) ==
    IF a.esito # "ok" \/ field_of(c, sorgente).geo = 0 THEN a
    ELSE LET p == PosC(a.contratto, nome)
             id == a.contratto.campi[p].id
             diventa == Geometrie(c.campi) = {} \/ (replaces_primary /\ AttivaC(c) = nome)
         IN  finish([a.contratto.campi EXCEPT ![p].geo = id],
                    IF diventa THEN id ELSE a.contratto.attiva, Proprie(a.contratto), a.next)

\* Mutant of vertical_primary: the first input decides for all.
vertical_primary_primo(ingressi, campi) ==
    LET g == {f \in Range(campi) : f.geo # 0 /\ f.nome = AttivaC(ingressi[1])}
    IN  IF g # {} THEN (CHOOSE f \in g : TRUE).geo ELSE 0

\* Vertical operations: the active geometries of all the inputs feed the same column.
vertical_primary(ingressi, campi) ==
    LET nome == AttivaC(ingressi[1])
        g == {f \in Range(campi) : f.geo # 0 /\ f.nome = nome}
    IN  IF nome # "" /\ g # {} /\ \A c \in Range(ingressi) : AttivaC(c) = nome
        THEN (CHOOSE f \in g : TRUE).geo ELSE 0

-----------------------------------------------------------------------------
(***************************************************************************)
(* What analyze_table_contract says of an operation: the contract of its   *)
(* output, from the contracts of its inputs alone, c, or l and r.  next is *)
(* the first identity the plan has not used.                               *)
(***************************************************************************)

CampiDi(c, nomi) == [ k \in DOMAIN nomi |-> field_of(c, nomi[k]) ]
CampiAltri(c, nomi) == SelectSeq(c.campi, LAMBDA f : f.nome \notin Range(nomi))
Tenendo(c, next, campi, proprieta) == finish(campi, AncoraAttiva(c, campi), proprieta, next)
\* Removed columns may be keys of the order; a dropped geometry is one of them.
OrdineSe(c, condizione) == Proprieta(IF condizione THEN c.ordine ELSE NessunOrdine, c.righe)

\* ------------------------------------------------------------ columns.rs
analyze_drop_columns(c, next, nomi) ==
    LET campi == CampiAltri(c, nomi)
    IN  Se(check_name_list(nomi, max_columns),
           Tenendo(c, next, campi, OrdineSe(c, Len(campi) = Len(c.campi))))

analyze_rename(c, next, coppie) ==
    LET campi == [ i \in DOMAIN c.campi |-> [c.campi[i] EXCEPT !.nome = Rinominato(coppie, @)] ]
    IN  Se(RinominaValida(coppie), finish(campi, c.attiva, Proprie(c), next))

analyze_reorder_columns(c, next, nomi) ==
    Se(nomi # <<>> /\ IsInjective(nomi) /\ HaC(c, nomi),
       finish(CampiDi(c, nomi) \o CampiAltri(c, nomi), c.attiva, Proprie(c), next))

analyze_concat_columns(c, next, nomi, uscita) ==
    Se(check_name_list(nomi, max_columns) /\ \A n \in Range(nomi) : require_utf8(c, n),
       AppendUno(c, next, uscita, "Utf8", TRUE))

analyze_split_column(c, next, nome, nuove) ==
    Se(check_name_list(nuove, max_columns) /\ require_utf8(c, nome),
       analyze_append(c, next, [ k \in DOMAIN nuove |-> NuovoCampo(nuove[k], "Utf8", TRUE) ]))

analyze_select_columns(c, next, nomi) ==
    Se(nomi # <<>> /\ IsInjective(nomi) /\ HaC(c, nomi),
       Tenendo(c, next, CampiDi(c, nomi), OrdineSe(c, Len(nomi) = Len(c.campi))))

analyze_align_schema(c, next, declared, tiene_extra) ==
    LET nomi == [ k \in DOMAIN declared |-> declared[k].nome ]
        C(d) == IF d.nome \in NomiC(c) THEN field_of(c, d.nome) ELSE NuovoCampo(d.nome, d.tipo, d.default = Nulla)
        campi == [ k \in DOMAIN declared |-> C(declared[k]) ]
                   \o (IF tiene_extra THEN CampiAltri(c, nomi) ELSE <<>>)
    IN  Se(/\ check_name_list(nomi, max_columns)
           /\ \A d \in Range(declared) : d.nome \in NomiC(c) => field_of(c, d.nome).tipo = d.tipo,
           Tenendo(c, next, campi,
                   OrdineSe(c, HaC(c, nomi) /\ (tiene_extra \/ CampiAltri(c, nomi) = <<>>))))

\* ----------------------------------------------------------- sort_agg.rs
require_sortable(c, nomi) == HaC(c, nomi) /\ \A n \in Range(nomi) : field_of(c, n).tipo \in is_sortable
ConProprieta(c, next, proprieta) ==
    Uguale([c EXCEPT !.ordine = proprieta.ordine, !.righe = proprieta.righe], next)
map_row_count(c, Trasforma(_)) == IF c.righe = Ignoto THEN Ignoto ELSE [c.righe EXCEPT !.numero = Trasforma(@)]
Minore(a, b) == IF a < b THEN a ELSE b

analyze_sort(c, next, nomi, crescente) ==
    Se(check_name_list(nomi, max_columns) /\ require_sortable(c, nomi),
       ConProprieta(c, next, Proprieta(proven_sorted(IdDi(c, nomi), crescente), c.righe)))

analyze_top_n(c, next, nomi, n, descending) ==
    Se(n > 0 /\ check_name_list(nomi, max_columns) /\ n <= max_rows /\ require_sortable(c, nomi),
       ConProprieta(c, next, Proprieta(proven_sorted(IdDi(c, nomi), ~descending),
                                       map_row_count(c, LAMBDA r : Minore(r, n)))))

analyze_distinct(c, next, subset) ==
    Se(/\ subset = <<>> \/ check_name_list(subset, max_columns)
       /\ require_keys(c, IF subset = <<>> THEN [ i \in DOMAIN c.campi |-> c.campi[i].nome ] ELSE subset),
       ConProprieta(c, next, sorted_only(c)))

\* The order that a column gives, or the one the input has.
OrdinePer(c, ordine, crescente) ==
    IF ordine = <<>> THEN c.ordine ELSE proven_sorted(IdDi(c, ordine), crescente)
analyze_dedup_advanced(c, next, subset, keep, ordine, crescente) ==
    Se(/\ keep # "false" /\ check_name_list(subset, max_columns)
       /\ require_keys(c, subset) /\ require_sortable(c, ordine),
       ConProprieta(c, next, Proprieta(OrdinePer(c, ordine, crescente), Ignoto)))

AggregazioneAmmessa(c, a) ==
    /\ HaC(c, <<a.colonna>>)
    /\ a.funzione \in {"nunique", "first", "last"} => require_keys(c, <<a.colonna>>)
    /\ a.funzione = "concat" => require_text_values(c, <<a.colonna>>)
    /\ a.funzione \in {"sum", "min", "mean"} => require_numeric(c, a.colonna)
    /\ a.funzione = "sum" => verifica_somma(field_of(c, a.colonna).tipo)
analyze_aggregate(c, next, gruppo, aggregazioni) ==
    LET nomi == nomi_uscita(aggregazioni)
        prodotti ==
            IF aggregazioni = <<>> THEN <<NuovoCampo("count", "Int64", FALSE)>>
            ELSE [ k \in DOMAIN nomi |->
                     NuovoCampo(nomi[k], tipo_uscita(aggregazioni[k].funzione, field_of(c, aggregazioni[k].colonna).tipo),
                                aggregazioni[k].funzione \notin {"count", "nunique"}) ]
        campi == FoldLeft(produce, CampiDi(c, gruppo), prodotti)
        Deriva(a, k) == IF aggregazioni[k].funzione \in {"first", "last"}
                        THEN derive_geometry(a, c, aggregazioni[k].colonna, nomi[k], FALSE) ELSE a
        finale == FoldLeft(Deriva, Tenendo(c, next, campi, Default), [ k \in DOMAIN aggregazioni |-> k ])
    IN  Se(/\ check_name_list(gruppo, max_columns) /\ Len(aggregazioni) <= max_columns
           /\ require_keys(c, gruppo)
           /\ NomiUscitaValidi(gruppo, aggregazioni)
           /\ \A a \in Range(aggregazioni) : AggregazioneAmmessa(c, a),
           IF finale.esito = "ok" THEN [finale EXCEPT !.contratto.attiva = AncoraAttiva(c, campi)] ELSE finale)

\* The rows come out in the order of the order column, unless the output replaces a column.
Finestra(c, next, tipo, ordine, uscita) ==
    LET a == AppendUno(c, next, uscita, tipo, TRUE)
    IN  [a EXCEPT !.contratto.ordine =
            IF uscita \in NomiC(c) THEN NessunOrdine ELSE OrdinePer(c, ordine, TRUE)]
analyze_rolling_window(c, next, funzione, colonna, gruppo, ordine, uscita) ==
    Se(/\ require_numeric(c, colonna) /\ require_keys(c, gruppo) /\ require_sortable(c, ordine)
       /\ funzione = "sum" => verifica_somma(field_of(c, colonna).tipo),
       Finestra(c, next, tipo_uscita_rolling(funzione, field_of(c, colonna).tipo), ordine, uscita))

analyze_window_function(c, next, funzione, colonna, gruppo, ordine, uscita) ==
    Se(/\ require_numeric(c, colonna)
       /\ ~(funzione = "rank" /\ field_of(c, colonna).tipo = "Utf8")
       /\ require_keys(c, gruppo) /\ require_sortable(c, ordine)
       /\ funzione = "cumsum" => verifica_somma(field_of(c, colonna).tipo),
       Finestra(c, next, tipo_uscita_finestra(funzione, field_of(c, colonna).tipo), ordine, uscita))

\* --------------------------------------------- generators.rs, filter.rs
analyze_add_row_number(c, next, partizione, uscita) ==
    Se(require_keys(c, partizione), AppendUno(c, next, uscita, "Int64", FALSE))

analyze_uuid_generator(c, next, uscita) == AppendUno(c, next, uscita, "Utf8", FALSE)

analyze_date_extract(c, next, nome, uscita) ==
    Se(require_text_values(c, <<nome>>), AppendUno(c, next, uscita, "Int64", TRUE))

analyze_limit(c, next, n, offset) ==
    Se(~(n = 0 /\ offset > 0) /\ n <= max_rows /\ offset <= max_rows, ConProprieta(c, next, sorted_only(c)))

check_operator(c, nome, operatore) ==
    /\ HaC(c, <<nome>>)
    /\ operatore = "eq" => require_text_values(c, <<nome>>)
    /\ operatore = "gt" => require_numeric(c, nome)
analyze_filter(c, next, nome, operatore) ==
    Se(check_operator(c, nome, operatore), ConProprieta(c, next, sorted_only(c)))

analyze_conditional(c, next, nome, operatore, risultati, uscita) ==
    Se(check_operator(c, nome, operatore),
       IF RisultatiNumerici(risultati) THEN AppendUno(c, next, uscita, "Float64", TRUE)
       ELSE AppendUno(c, next, uscita, "Utf8", risultati = "testo_e_nullo"))

\* ---------------------------------------------------------- cleansing.rs
\* The filled columns keep their identity: the values change, the columns do not.
analyze_fill_na(c, next, nome) ==
    LET bersagli == IF nome = <<>> THEN NomiC(c) ELSE Range(nome)
        campi == [ i \in DOMAIN c.campi |->
                     IF c.campi[i].nome \in bersagli THEN [c.campi[i] EXCEPT !.nullable = TRUE] ELSE c.campi[i] ]
    IN  Se(HaC(c, nome) /\ \A n \in bersagli : field_of(c, n).tipo \in riempibili,
           finish(campi, c.attiva, rows_only(c), next))

\* Mutant of analyze_replace: the replaced column keeps its identity.
analyze_replace_stessaIdentita(c, next, nome) ==
    LET campi == [ i \in DOMAIN c.campi |->
                     IF c.campi[i].nome = nome THEN [c.campi[i] EXCEPT !.nullable = TRUE] ELSE c.campi[i] ]
    IN  Se(require_utf8(c, nome), finish(campi, c.attiva, rows_only(c), next))

analyze_replace(c, next, nome) ==
    LET campi == [ i \in DOMAIN c.campi |->
                     IF c.campi[i].nome = nome THEN [c.campi[i] EXCEPT !.nullable = TRUE, !.id = 0] ELSE c.campi[i] ]
    IN  Se(require_utf8(c, nome), finish(campi, c.attiva, rows_only(c), next))

\* The value of another type, in the place of the column.
analyze_type_cast(c, next, nome, target) ==
    LET a == AppendUno(c, next, nome, target, TRUE)
    IN  Se(require_text_values(c, <<nome>>), Se(verifica_cast_temporale(field_of(c, nome).tipo, target),
           IF a.esito = "ok" THEN [a EXCEPT !.contratto.ordine = NessunOrdine] ELSE a))

\* ----------------------------------------------- analysis.rs, formula.rs
analyze_lookup(c, next, nome, uscita) ==
    Se(require_text_values(c, <<nome>>), AppendUno(c, next, uscita, "Utf8", TRUE))

analyze_bin(c, next, nome, uscita) ==
    Se(require_numeric(c, nome), AppendUno(c, next, uscita, "Utf8", TRUE))

\* The count is the kernel's: a column that takes the place of another counts twice.
analyze_flatten_json(c, next, nome, uscite) ==
    Se(/\ require_text_values(c, <<nome>>) /\ check_name_list(uscite, max_columns)
       /\ Len(c.campi) + Len(uscite) <= max_columns,
       analyze_append(c, next, [ k \in DOMAIN uscite |-> NuovoCampo(uscite[k], "Utf8", TRUE) ]))

analyze_statistics(c, next, stat, nome, gruppo, uscita) ==
    Se(/\ require_numeric(c, nome) /\ require_keys(c, gruppo)
       /\ stat = "sum" => verifica_somma(field_of(c, nome).tipo),
       AppendUno(c, next, uscita, tipo_statistica(stat, field_of(c, nome).tipo), TRUE))

\* Shuffled rows; how many is known unless they are taken by stratum.
analyze_sample(c, next, n, strati) ==
    Se(require_keys(c, strati),
       ConProprieta(c, next, Proprieta(NessunOrdine,
           IF strati = <<>> THEN map_row_count(c, LAMBDA r : Minore(r, n)) ELSE Ignoto)))

analyze_formula(c, next, operatore, a, b, uscita) ==
    LET tipo == infer_expr_type(operatore, field_of(c, a).tipo, field_of(c, b).tipo)
    IN  Se(require_text_values(c, <<a, b>>), Se(tipo # "rifiutato", AppendUno(c, next, uscita, tipo, TRUE)))

\* -------------------------------------------------- strings.rs, dates.rs
analyze_string_pad(c, next, nome, uscita) ==
    Se(require_utf8(c, nome), AppendUno(c, next, uscita, "Utf8", TRUE))
analyze_string_length(c, next, nome, uscita) ==
    Se(require_utf8(c, nome), AppendUno(c, next, uscita, "Int64", TRUE))
analyze_string_extract(c, next, nome, uscita) ==
    Se(require_utf8(c, nome), AppendUno(c, next, uscita, "Utf8", TRUE))
\* The output of each column, in its place or beside it.
Derivate(nomi, overwrite, suffisso) ==
    [ k \in DOMAIN nomi |-> NuovoCampo(IF overwrite THEN nomi[k] ELSE nomi[k] \o suffisso, "Utf8", TRUE) ]
analyze_text_normalize(c, next, nomi, overwrite) ==
    Se(check_name_list(nomi, max_columns) /\ \A n \in Range(nomi) : require_utf8(c, n),
       analyze_append(c, next, Derivate(nomi, overwrite, "_norm")))
analyze_mask_data(c, next, nomi, overwrite) ==
    Se(check_name_list(nomi, max_columns) /\ require_text_values(c, nomi),
       analyze_append(c, next, Derivate(nomi, overwrite, "_masked")))
analyze_md5_hash(c, next, nomi, uscita) ==
    Se(check_name_list(nomi, max_columns) /\ require_text_values(c, nomi), AppendUno(c, next, uscita, "Utf8", FALSE))
analyze_sha256_hash(c, next, nomi, uscita) ==
    Se(check_name_list(nomi, max_columns) /\ require_text_values(c, nomi), AppendUno(c, next, uscita, "Utf8", FALSE))
analyze_stable_fingerprint(c, next, nomi, uscita) ==
    LET letti == IF nomi = <<>> THEN [ i \in DOMAIN c.campi |-> c.campi[i].nome ] ELSE nomi
    IN  Se(/\ nomi = <<>> \/ check_name_list(nomi, max_columns)
           /\ letti # <<>> /\ require_text_values(c, letti),
           AppendUno(c, next, uscita, "Utf8", FALSE))
analyze_hmac_sha256(c, next, nomi, nullo, uscita) ==
    Se(check_name_list(nomi, max_columns) /\ require_text_values(c, nomi), AppendUno(c, next, uscita, "Utf8", nullo))

analyze_date_op(c, next, nomi, uscita, tipo) ==
    Se(require_text_values(c, nomi), AppendUno(c, next, uscita, tipo, TRUE))
analyze_date_format(c, next, nome, uscita) == analyze_date_op(c, next, <<nome>>, uscita, "Utf8")
analyze_date_add(c, next, nome, uscita) == analyze_date_op(c, next, <<nome>>, uscita, "Utf8")
analyze_timezone_convert(c, next, nome, uscita) == analyze_date_op(c, next, <<nome>>, uscita, "Utf8")
analyze_date_diff(c, next, a, b, uscita) ==
    Se(HaC(c, <<a, b>>), Se(verifica_generi_date_diff(field_of(c, a).tipo, field_of(c, b).tipo),
       analyze_date_op(c, next, <<a, b>>, uscita, "Float64")))

-----------------------------------------------------------------------------
(* The operations that check or reshape (analyze/quality.rs, reshape.rs).  An  *)
(* assertion gives back the contract of its input.                          *)

\* ------------------------------------------------------------ quality.rs
analyze_assert_schema(c, next, attesi, ordered, allow_extra) ==
    Se(/\ check_name_list([ k \in DOMAIN attesi |-> attesi[k].nome ], max_columns)
       /\ SchemaAtteso(c.campi, attesi, ordered, allow_extra), Uguale(c, next))
analyze_assert_not_null(c, next, nomi) ==
    Se(check_name_list(nomi, max_columns) /\ HaC(c, nomi), Uguale(c, next))
analyze_assert_unique(c, next, nomi) ==
    Se(check_name_list(nomi, max_columns) /\ require_keys(c, nomi), Uguale(c, next))
analyze_assert_range(c, next, nome) == Se(require_numeric(c, nome), Uguale(c, next))
analyze_assert_regex(c, next, nome) == Se(require_utf8(c, nome), Uguale(c, next))

\* All the columns are geometries, or none is.
ConcordiC(c, nomi) == \A n, m \in Range(nomi) : (field_of(c, n).geo = 0) = (field_of(c, m).geo = 0)
analyze_coalesce(c, next, nomi, uscita) ==
    LET tipo == field_of(c, nomi[1]).tipo
    IN  Se(check_name_list(nomi, max_columns) /\ HaC(c, nomi),
        Se((\A n \in Range(nomi) : field_of(c, n).tipo = tipo) /\ ConcordiC(c, nomi),
           derive_geometry(AppendUno(c, next, uscita, tipo, TRUE), c, nomi[1], uscita, TRUE)))

\* A number of rows that is proven decides the assertion before the run.
analyze_assert_cardinality(c, next, limiti) ==
    Se(/\ CardinalitaValida(limiti)
       /\ \A n \in {limiti.exact, limiti.min, limiti.max} : n # Nulla => n <= max_rows
       /\ c.righe.fiducia = "dimostrato" => CardinalitaAmmessa(c.righe.numero, limiti), Uguale(c, next))

analyze_validate_rules(c, next, nome, operatore, annotate) ==
    Se(/\ HaC(c, <<nome>>)
       /\ operatore = "eq" => field_of(c, nome).geo = 0 /\ field_of(c, nome).tipo \in is_rule_comparable
       /\ operatore = "gt" => field_of(c, nome).tipo \in is_rule_numeric
       /\ operatore = "regex" => field_of(c, nome).tipo = "Utf8",
       IF annotate
       THEN analyze_append(c, next, << NuovoCampo("_valid", "Boolean", FALSE), NuovoCampo("_errors", "Utf8", FALSE),
                                       NuovoCampo("_warnings", "Utf8", FALSE) >>)
       ELSE finish(<< NuovoCampo("name", "Utf8", FALSE), NuovoCampo("errors", "Int64", FALSE),
                      NuovoCampo("warnings", "Int64", FALSE) >>, 0, Default, next))

\* ------------------------------------------------------------ reshape.rs
\* The geometry of the values is a new one: it takes an identity before its field.
analyze_melt(c, next, id, valori, var_name, value_name, stringa) ==
    LET letti == ValoriDi([ i \in DOMAIN c.campi |-> c.campi[i].nome ], id, valori)
        tipo == field_of(c, letti[1]).tipo
        omogeneo == \A n \in Range(letti) : field_of(c, n).tipo = tipo
        nomi == resolve_melt_names(NomiC(c), var_name, value_name)
        derivata == field_of(c, letti[1]).geo # 0
        valore == [NuovoCampo(nomi[2], IF omogeneo THEN tipo ELSE "Utf8", TRUE)
                     EXCEPT !.geo = IF derivata THEN next ELSE 0]
        campi == CampiDi(c, id) \o <<NuovoCampo(nomi[1], "Utf8", FALSE), valore>>
    IN  Se(/\ var_name # value_name /\ IsInjective(id) /\ IsInjective(valori)
           /\ Len(id) <= max_columns /\ Len(valori) <= max_columns
           /\ HaC(c, id) /\ HaC(c, letti) /\ letti # <<>>,
        Se(ConcordiC(c, letti) /\ (omogeneo \/ (stringa /\ require_text_values(c, letti))),
           finish(campi, AncoraAttiva(c, CampiDi(c, id)),
                  Proprieta(NessunOrdine, map_row_count(c, LAMBDA r : r * Len(letti))),
                  IF derivata THEN next + 1 ELSE next)))

analyze_pivot(c, next, indice, colonna, valore, funzione, mappa) ==
    LET tipo == field_of(c, valore).tipo
        prodotti == [ k \in DOMAIN mappa |-> NuovoCampo(mappa[k].nome, tipo_pivot(funzione, tipo), TRUE) ]
        campi == FoldLeft(produce, CampiDi(c, indice), prodotti)
        Deriva(a, m) == IF funzione = "first" THEN derive_geometry(a, c, valore, m.nome, FALSE) ELSE a
    IN  Se(/\ HaC(c, indice \o <<colonna, valore>>) /\ mappa # <<>>
           /\ check_name_list(indice, max_columns) /\ require_keys(c, indice)
           /\ require_text_values(c, <<colonna>>)
           /\ verifica_mapping(field_of(c, colonna).tipo, indice, mappa)
           /\ funzione = "concat" => require_text_values(c, <<valore>>)
           /\ funzione \in {"sum", "min", "mean"} => require_numeric(c, valore)
           /\ funzione = "sum" => verifica_somma(tipo),
           FoldLeft(Deriva, Tenendo(c, next, campi, Default), mappa))

analyze_explode(c, next, nome, uscita) ==
    LET a == AppendUno(c, next, uscita, "Utf8", TRUE)
    IN  Se(HaC(c, <<nome>>) /\ field_of(c, nome).geo = 0 /\ field_of(c, nome).tipo = "List",
           IF a.esito = "ok"
           THEN [a EXCEPT !.contratto.ordine = NessunOrdine, !.contratto.righe = Ignoto] ELSE a)

\* The struct may be a key of the order: removing it removes the order.
analyze_unnest(c, next, nome, figli, drop_source) ==
    LET resto == CampiAltri(c, IF drop_source THEN <<nome>> ELSE <<>>)
        campi == resto \o [ k \in DOMAIN figli |-> NuovoCampo(figli[k], "Utf8", TRUE) ]
    IN  Se(/\ HaC(c, <<nome>>) /\ field_of(c, nome).geo = 0 /\ field_of(c, nome).tipo = "Struct"
           /\ Len(campi) <= max_columns
           /\ NomiUnnest({resto[k].nome : k \in DOMAIN resto}, figli),
           Tenendo(c, next, campi, OrdineSe(c, ~drop_source)))
\* ---------------------------------------- two inputs: joins.rs, quality.rs
check_foreign_keys(l, r, lk, rk) ==
    /\ HaC(l, lk) /\ HaC(r, rk)
    /\ \A k \in DOMAIN lk : /\ field_of(l, lk[k]).tipo = field_of(r, rk[k]).tipo
                            /\ (field_of(l, lk[k]).geo = 0) = (field_of(r, rk[k]).geo = 0)
check_key_pairs(l, r, lk, rk) == lk # <<>> /\ Len(lk) = Len(rk) /\ check_foreign_keys(l, r, lk, rk)
\* Mutant of check_text_key_pairs: the types of the keys are compared, not restricted.
check_text_key_pairs_ogniTipo(l, r, lk, rk) ==
    /\ check_key_pairs(l, r, lk, rk)
    /\ check_name_list(lk, max_columns) /\ check_name_list(rk, max_columns)

check_text_key_pairs(l, r, lk, rk) ==
    /\ check_key_pairs(l, r, lk, rk)
    /\ check_name_list(lk, max_columns) /\ check_name_list(rk, max_columns)
    /\ require_keys(l, lk) /\ require_keys(r, rk)

\* A right identity that a left field already has, as in the join of a table with
\* itself, gives way to a new one.  Two sides with geometries have no active one.
IdOrizzontale(l, tenuti, next, k) ==
    LET presi == {l.campi[i].id : i \in DOMAIN l.campi}
    IN  IF tenuti[k].id \notin presi THEN tenuti[k].id
        ELSE next + Cardinality({j \in 1 .. k - 1 : tenuti[j].id \in presi})
combine_horizontal_fields(l, r, next, omesse, naming, chiavi) ==
    LET tenuti == CampiAltri(r, omesse)
        Id(k) == IdOrizzontale(l, tenuti, next, k)
        Segue(f, nome, id) == [f EXCEPT !.nome = nome, !.nullable = TRUE, !.id = id,
                                        !.geo = IF @ = 0 THEN 0 ELSE id]
        sinistri == [ i \in DOMAIN l.campi |->
            Segue(l.campi[i], NomeSinistro(naming, chiavi, {tenuti[k].nome : k \in DOMAIN tenuti}, l.campi[i].nome),
                  l.campi[i].id) ]
        destri == [ k \in DOMAIN tenuti |-> Segue(tenuti[k], NomeDestro(naming, NomiC(l), tenuti[k].nome), Id(k)) ]
        attive == {Id(k) : k \in {k \in DOMAIN tenuti : r.attiva # 0 /\ tenuti[k].id = r.attiva}}
        attiva == IF Geometrie(l.campi) # {} /\ Geometrie(tenuti) # {} THEN 0
                  ELSE IF attive # {} THEN CHOOSE x \in attive : TRUE ELSE l.attiva
    IN  [ campi |-> sinistri \o destri, attiva |-> attiva,
          next |-> next + Cardinality({k \in DOMAIN tenuti : Id(k) # tenuti[k].id}) ]
Orizzontale(l, r, next, omesse, naming, chiavi, proprieta) ==
    LET o == combine_horizontal_fields(l, r, next, omesse, naming, chiavi)
    IN  Se(Len(o.campi) <= max_columns, finish(o.campi, o.attiva, proprieta, o.next))

analyze_join(l, r, next, lk, rk, how) ==
    Se(check_text_key_pairs(l, r, lk, rk),
    Se(how \in {"right", "outer"} => \A n \in Range(lk) : field_of(l, n).tipo \in coalesce_supported,
       Orizzontale(l, r, next, rk, "join", lk, Default)))

analyze_fuzzy_join(l, r, next, lk, rk, how, score) ==
    LET o == combine_horizontal_fields(l, r, next, <<>>, "join", <<lk>>)
    IN  Se(/\ require_utf8(l, lk) /\ require_utf8(r, rk)
           /\ Len(o.campi) + 1 <= max_columns /\ \A f \in Range(o.campi) : f.nome # score,
           finish(Append(o.campi, NuovoCampo(score, "Float64", how = "left")), o.attiva, Default, o.next))

product_row_count(l, r) ==
    IF l.righe = Ignoto \/ l.righe.fiducia # r.righe.fiducia THEN Ignoto ELSE [l.righe EXCEPT !.numero = @ * r.righe.numero]
analyze_cross_join(l, r, next) ==
    Orizzontale(l, r, next, <<>>, "cross", <<>>, Proprieta(NessunOrdine, product_row_count(l, r)))

analyze_membership_join(l, r, next, lk, rk) ==
    Se(check_text_key_pairs(l, r, lk, rk), ConProprieta(l, next, sorted_only(l)))

analyze_asof_join(l, r, next, left_on, right_on, left_by, right_by) ==
    Se(/\ Len(left_by) = Len(right_by) /\ IsInjective(left_by) /\ IsInjective(right_by)
       /\ HaC(l, <<left_on>>) /\ HaC(r, <<right_on>>),
    Se(/\ field_of(l, left_on).tipo = field_of(r, right_on).tipo
       /\ field_of(l, left_on).tipo \in {"Int64", "Float64"}
       /\ check_foreign_keys(l, r, left_by, right_by) /\ require_keys(l, left_by) /\ require_keys(r, right_by),
       Orizzontale(l, r, next, <<right_on>> \o right_by, "asof", <<>>, Proprie(l))))

check_same_schema(l, r) ==
    /\ Len(l.campi) = Len(r.campi)
    /\ \A i \in DOMAIN l.campi :
          /\ <<l.campi[i].nome, l.campi[i].tipo>> = <<r.campi[i].nome, r.campi[i].tipo>>
          /\ (l.campi[i].geo = 0) = (r.campi[i].geo = 0)
sum_row_count(l, r) ==
    IF l.righe = Ignoto \/ l.righe.fiducia # r.righe.fiducia THEN Ignoto ELSE [l.righe EXCEPT !.numero = @ + r.righe.numero]
NullabiliInsieme(l, r) == [ i \in DOMAIN l.campi |-> [l.campi[i] EXCEPT !.nullable = @ \/ r.campi[i].nullable] ]
Verticale(l, r, campi, proprieta, next) == finish(campi, vertical_primary(<<l, r>>, campi), proprieta, next)
analyze_concat(l, r, next) ==
    Se(check_same_schema(l, r),
       Verticale(l, r, NullabiliInsieme(l, r), Proprieta(NessunOrdine, sum_row_count(l, r)), next))

\* Every field is that of the first input that has it; an identity met twice gives way
\* to a new one, on the geometry too.
vertical_origins(campi, next) ==
    LET Doppio(k) == \E j \in 1 .. k - 1 : campi[j].id = campi[k].id
        Id(k) == IF Doppio(k) THEN next + Cardinality({j \in 1 .. k - 1 : Doppio(j)}) ELSE campi[k].id
    IN  [ campi |-> [ k \in DOMAIN campi |->
                        [campi[k] EXCEPT !.id = Id(k), !.geo = IF @ = 0 THEN 0 ELSE Id(k)] ],
          next |-> next + Cardinality({k \in DOMAIN campi : Doppio(k)}) ]
first_field_source(l, r, nome) == IF nome \in NomiC(l) THEN l ELSE r
analyze_concat_by_name(l, r, next, strict) ==
    LET nomi == NomiInOrdine(l.campi) \o NomiInOrdine(CampiAltri(r, NomiInOrdine(l.campi)))
        Unito(n) == [field_of(first_field_source(l, r, n), n) EXCEPT !.nullable =
                        \E c \in {l, r} : n \in NomiC(c) => field_of(c, n).nullable]
        origini == vertical_origins([ k \in DOMAIN nomi |-> Unito(nomi[k]) ], next)
    IN  Se(/\ strict => check_same_schema(l, r)
           /\ \A n \in NomiC(l) \cap NomiC(r) :
                /\ field_of(l, n).tipo = field_of(r, n).tipo
                /\ (field_of(l, n).geo = 0) = (field_of(r, n).geo = 0),
           Verticale(l, r, origini.campi, Proprieta(NessunOrdine, sum_row_count(l, r)), origini.next))

analyze_set_operation(l, r, next, op) ==
    Se(check_same_schema(l, r) /\ \A f \in Range(l.campi) : f.tipo \in key_encodable,
       IF op = "union" THEN Verticale(l, r, NullabiliInsieme(l, r), Default, next)
       ELSE ConProprieta(l, next, Default))

analyze_assert_foreign_key(l, r, next, lk, rk) == Se(check_text_key_pairs(l, r, lk, rk), Uguale(l, next))
analyze_reconcile(l, r, next, lk, rk) ==
    Se(check_text_key_pairs(l, r, lk, rk),
       finish(<<NuovoCampo("metric", "Utf8", FALSE), NuovoCampo("value", "UInt64", FALSE)>>, 0,
              Proprieta(NessunOrdine, Dimostrate(5)), next))
=============================================================================
