--------------------------- MODULE KernelTabella ----------------------------
(***************************************************************************)
(* A table as the kernels of plenora-kernels-table see it: columns with a  *)
(* name, a type, a nullability and the mark of a geometry, rows of cells,  *)
(* and the schema key that names the primary geometry.                     *)
(*                                                                         *)
(* A cell is a small number and Nulla is above all of them: the order of   *)
(* table.sort, nulls last when ascending and first when descending, is the *)
(* order of the numbers.  A List cell n stands for a list of n elements, a *)
(* Struct cell for a struct whose children have that value.  The text of a *)
(* cell, of whatever type, can be read as a number: failures that only the *)
(* values explain are left out.                                            *)
(*                                                                         *)
(* origine is a mark the code does not have: where the cells of a column   *)
(* come from.  Cells that are moved keep it, computed ones are Nuova.      *)
(*                                                                         *)
(* The kernels of one input, on a table t.  Each repeats the checks of its *)
(* own that schema and configuration decide: failing one is an "errore".   *)
(***************************************************************************)
EXTENDS Integers, Sequences, FiniteSets, SequencesExt, Ordine

CONSTANTS max_rows, max_columns

ASSUME LimitiAssumption == max_rows \in Nat /\ max_columns \in Nat

Nulla == 9
Nuova == <<-1, "">>

Tipi == {"Int64", "UInt64", "Float64", "Utf8", "Date32", "Boolean", "Binary", "List", "Struct"}
text_convertible == Tipi \ {"List", "Struct"}
dominio_numerico == {"Int64", "UInt64", "Float64", "Utf8", "Date32"}
is_sortable == text_convertible
key_encodable == text_convertible
coalesce_supported == dominio_numerico \cup {"Boolean"}

\* A new column, with no metadata of its own.
Colonna(nome, tipo, nullable) ==
    [nome |-> nome, tipo |-> tipo, nullable |-> nullable, geo |-> FALSE, origine |-> Nuova]

Nomi(t) == {t.colonne[i].nome : i \in DOMAIN t.colonne}
Ha(t, nomi) == Range(nomi) \subseteq Nomi(t)
Pos(t, nome) == CHOOSE i \in DOMAIN t.colonne : t.colonne[i].nome = nome
Campo(t, nome) == t.colonne[Pos(t, nome)]
Cella(t, r, nome) == t.righe[r][Pos(t, nome)]
Celle(t, r, nomi) == [ k \in DOMAIN nomi |-> Cella(t, r, nomi[k]) ]
DiTipo(t, nomi, tipi) == Ha(t, nomi) /\ \A n \in Range(nomi) : Campo(t, n).tipo \in tipi
require_non_geometry(t, nomi) == \A n \in Range(nomi) : ~Campo(t, n).geo
PosizioniGeo(colonne) == {i \in DOMAIN colonne : colonne[i].geo}

\* How a kernel ends: with a table, at a limit, on an assertion that the data fail,
\* or with an error that schema, configuration and limits explain.
Esito(esito, t) == [esito |-> esito, tabella |-> t]
Errore(t) == Esito("errore", t)
Limite(t) == Esito("limite", t)
NullaVietata(t) ==
    \E i \in DOMAIN t.colonne : ~t.colonne[i].nullable /\ \E r \in DOMAIN t.righe : t.righe[r][i] = Nulla
\* Arrow builds no batch with a null in a column that is declared without.
batch_with_rows(t) == IF NullaVietata(t) THEN Errore(t) ELSE Esito("ok", t)

\* chiave: 0 absent, -1 "none", p > 0 the identity of the column in position p.
primary_geometry_position(t) ==
    IF t.chiave > 0 THEN t.chiave
    ELSE IF t.chiave = 0 /\ Cardinality(PosizioniGeo(t.colonne)) = 1
         THEN CHOOSE p \in PosizioniGeo(t.colonne) : TRUE ELSE 0

emit_primary_geometry(colonne, primaria) ==
    LET quante == Cardinality(PosizioniGeo(colonne))
    IN  IF quante = 1 /\ primaria = 0 THEN -1
        ELSE IF quante > 1 THEN primaria ELSE 0

\* mappa: triples (input, position there, position in the output).
compose(ingressi, colonne, mappa, verticale) ==
    LET utili == {m \in mappa : ingressi[m[1]].colonne[m[2]].geo /\ colonne[m[3]].geo}
        Bersaglio(i) ==
            LET p == primary_geometry_position(ingressi[i])
                verso == {m[3] : m \in {x \in utili : x[1] = i /\ x[2] = p}}
            IN  IF verso = {} THEN 0 ELSE CHOOSE o \in verso : TRUE
        sorgenti == {m[1] : m \in utili}
        primaria ==
            IF verticale
            THEN IF \A i \in DOMAIN ingressi : Bersaglio(i) = Bersaglio(1) THEN Bersaglio(1) ELSE 0
            ELSE IF Cardinality(sorgenti) = 1 THEN Bersaglio(CHOOSE i \in sorgenti : TRUE) ELSE 0
    IN  emit_primary_geometry(colonne, primaria)

PerNome(ingressi, colonne) ==
    UNION { { <<i, p, o>> : p \in {p \in DOMAIN ingressi[i].colonne :
                                      ingressi[i].colonne[p].nome = colonne[o].nome} }
            : i \in DOMAIN ingressi, o \in DOMAIN colonne }
unary(t, colonne) == compose(<<t>>, colonne, PerNome(<<t>>, colonne), FALSE)
vertical(ingressi, colonne) == compose(ingressi, colonne, PerNome(ingressi, colonne), TRUE)

\* The columns of an output whose fields are known by name to its only input.
Unaria(t, colonne, righe) ==
    batch_with_rows([colonne |-> colonne, righe |-> righe, chiave |-> unary(t, colonne)])

\* A computed column, in the place of one of its name or at the end.
Sostituisci(t, colonna, valori) ==
    IF colonna.nome \in Nomi(t)
    THEN LET p == Pos(t, colonna.nome)
         IN  Unaria(t, [t.colonne EXCEPT ![p] = colonna],
                    [ r \in DOMAIN t.righe |-> [t.righe[r] EXCEPT ![p] = valori[r]] ])
    ELSE Unaria(t, Append(t.colonne, colonna), [ r \in DOMAIN t.righe |-> Append(t.righe[r], valori[r]) ])
replace_or_append(t, nome, tipo, nullable, valori) ==
    Sostituisci(t, Colonna(nome, tipo, nullable), valori)
\* The same, and the metadata of a column of the same type stay.
replace_keeping_field_metadata(t, nome, tipo, nullable, valori) ==
    Sostituisci(t, [Colonna(nome, tipo, nullable) EXCEPT
                      !.geo = \E c \in Range(t.colonne) : c.nome = nome /\ c.tipo = tipo /\ c.geo],
                valori)

\* Rows taken by position, with the schema as it is.
select_rows(t, indici) ==
    batch_with_rows([t EXCEPT !.righe = [ k \in DOMAIN indici |-> t.righe[indici[k]] ]])
RigheTali(t, Vale(_)) == select_rows(t, InOrdine({r \in DOMAIN t.righe : Vale(r)}, <))

\* The first free name among nome, nome_1, nome_2.
resolve_output_name(presi, nome) ==
    IF nome \notin presi THEN nome
    ELSE IF nome \o "_1" \notin presi THEN nome \o "_1" ELSE nome \o "_2"

\* The cell an operation computes from another: different, and null from null.
Calcolata(v) == IF v = Nulla THEN Nulla ELSE 2 - v
CalcolataSu(t, nome) == [ r \in DOMAIN t.righe |-> Calcolata(Cella(t, r, nome)) ]
Lessicografico(a, b) ==
    \E k \in DOMAIN a : a[k] < b[k] /\ \A j \in 1 .. k - 1 : a[j] = b[j]

-----------------------------------------------------------------------------
(* The kernels of one input *)

Con(condizione, t, risultato) == IF condizione THEN risultato ELSE Errore(t)
\* One kernel after another, until one fails.
Poi(risultato, Dopo(_)) == IF risultato.esito = "ok" THEN Dopo(risultato.tabella) ELSE risultato
Sempre(t, v) == [ r \in DOMAIN t.righe |-> v ]
\* The columns in the given positions, in that order, and their cells.
Proietta(t, posizioni) ==
    Unaria(t, [ k \in DOMAIN posizioni |-> t.colonne[posizioni[k]] ],
           [ r \in DOMAIN t.righe |-> [ k \in DOMAIN posizioni |-> t.righe[r][posizioni[k]] ] ])
Altre(t, nomi) == InOrdine({p \in DOMAIN t.colonne : t.colonne[p].nome \notin Range(nomi)}, <)
PosDi(t, nomi) == [ k \in DOMAIN nomi |-> Pos(t, nomi[k]) ]

\* ------------------------------------------------------------ columns.rs
drop_columns(t, nomi) == Con(nomi # <<>> /\ IsInjective(nomi), t, Proietta(t, Altre(t, nomi)))

select_columns(t, nomi) == Con(nomi # <<>> /\ IsInjective(nomi) /\ Ha(t, nomi), t, Proietta(t, PosDi(t, nomi)))

reorder_columns(t, nomi) ==
    Con(nomi # <<>> /\ IsInjective(nomi) /\ Ha(t, nomi), t, Proietta(t, PosDi(t, nomi) \o Altre(t, nomi)))

\* declared: name, type and default of a column; extras stay when tiene_extra.
align_schema(t, declared, tiene_extra) ==
    LET nomi == [ k \in DOMAIN declared |-> declared[k].nome ]
        extra == IF tiene_extra THEN Altre(t, nomi) ELSE <<>>
        C(d) == IF d.nome \in Nomi(t) THEN Campo(t, d.nome) ELSE Colonna(d.nome, d.tipo, d.default = Nulla)
        V(d, r) == IF d.nome \in Nomi(t) THEN Cella(t, r, d.nome) ELSE d.default
    IN  Con(/\ nomi # <<>> /\ IsInjective(nomi)
            /\ \A d \in Range(declared) : d.nome \in Nomi(t) => Campo(t, d.nome).tipo = d.tipo,
            t,
            Unaria(t, [ k \in DOMAIN declared |-> C(declared[k]) ] \o [ k \in DOMAIN extra |-> t.colonne[extra[k]] ],
                   [ r \in DOMAIN t.righe |->
                       [ k \in DOMAIN declared |-> V(declared[k], r) ]
                         \o [ k \in DOMAIN extra |-> t.righe[r][extra[k]] ] ]))

\* coppie: old and new names.  The correspondence of the columns is by position.
Rinominato(coppie, nome) ==
    IF \E p \in Range(coppie) : p[1] = nome THEN (CHOOSE p \in Range(coppie) : p[1] = nome)[2] ELSE nome
RinominaValida(coppie) ==
    /\ coppie # <<>>
    /\ \A i, j \in DOMAIN coppie : i # j => coppie[i][1] # coppie[j][1] /\ coppie[i][2] # coppie[j][2]
    /\ \A p \in Range(coppie) : p[1] # p[2]
rename(t, coppie) ==
    LET colonne == [ p \in DOMAIN t.colonne |-> [t.colonne[p] EXCEPT !.nome = Rinominato(coppie, @)] ]
    IN  Con(RinominaValida(coppie) /\ \A i, j \in DOMAIN colonne : colonne[i].nome = colonne[j].nome => i = j,
            t,
            batch_with_rows([t EXCEPT !.colonne = colonne,
                !.chiave = compose(<<t>>, colonne, {<<1, p, p>> : p \in DOMAIN colonne}, FALSE)]))

\* Null only where every cell is, when nulls are skipped.
concat_columns(t, nomi, uscita, skip_null) ==
    Con(nomi # <<>> /\ DiTipo(t, nomi, {"Utf8"}), t,
        replace_or_append(t, uscita, "Utf8", TRUE,
            [ r \in DOMAIN t.righe |->
                IF skip_null /\ \A n \in Range(nomi) : Cella(t, r, n) = Nulla THEN Nulla ELSE 1 ]))

\* A cell that does not split fills the first column only.
split_column(t, nome, nuove) ==
    LET Parte(k) == IF k = 1 THEN CalcolataSu(t, nome) ELSE Sempre(t, Nulla)
        Aggiungi(acc, k) == Poi(acc, LAMBDA s : replace_or_append(s, nuove[k], "Utf8", TRUE, Parte(k)))
    IN  Con(nuove # <<>> /\ IsInjective(nuove) /\ DiTipo(t, <<nome>>, {"Utf8"}), t,
            FoldLeft(Aggiungi, Esito("ok", t), [ k \in DOMAIN nuove |-> k ]))

\* --------------------------------------------------- aggregation/sort.rs
\* Equal keys keep the order of the rows.
sort_permutation(t, nomi, crescente) ==
    InOrdine(DOMAIN t.righe, LAMBDA a, b :
        LET x == Celle(t, a, nomi)  y == Celle(t, b, nomi)
        IN  IF x = y THEN a < b
            ELSE IF crescente THEN Lessicografico(x, y) ELSE Lessicografico(y, x))
sort(t, nomi, crescente) ==
    Con(nomi # <<>> /\ DiTipo(t, nomi, is_sortable), t, select_rows(t, sort_permutation(t, nomi, crescente)))

top_n(t, nomi, n, descending) ==
    Con(n > 0, t, Poi(sort(t, nomi, ~descending),
                      LAMBDA s : RigheTali(s, LAMBDA r : r <= n)))

distinct(t, subset, keep) ==
    LET chiave == IF subset = <<>> THEN [ p \in DOMAIN t.colonne |-> t.colonne[p].nome ] ELSE subset
        Uguali(r) == {q \in DOMAIN t.righe : Celle(t, q, chiave) = Celle(t, r, chiave)}
        Tenuta(r) == CASE keep = "first" -> \A q \in Uguali(r) : r <= q
                       [] keep = "last"  -> \A q \in Uguali(r) : q <= r
                       [] keep = "false" -> Uguali(r) = {r}
    IN  Con(DiTipo(t, chiave, key_encodable), t, RigheTali(t, Tenuta))

\* ordine: no column, or one.
InOrdineDi(t, ordine, crescente) == IF ordine = <<>> THEN Esito("ok", t) ELSE sort(t, ordine, crescente)
dedup_advanced(t, subset, keep, ordine, crescente) ==
    Poi(InOrdineDi(t, ordine, crescente), LAMBDA s : Con(keep # "false", t, distinct(s, subset, keep)))

\* ---------------------------------------------- aggregation/aggregate.rs
dominio_intero == {"Int64", "UInt64", "Date32"}
tipo_somma(tipo) == IF tipo \in dominio_intero THEN "Int64" ELSE "Float64"
tipo_estremo(tipo) == IF tipo \in dominio_intero THEN tipo ELSE "Float64"
verifica_somma(tipo) == tipo # "Date32"
tipo_uscita(funzione, tipo) ==
    CASE funzione \in {"count", "nunique"} -> "Int64"
      [] funzione = "concat" -> "Utf8"
      [] funzione \in {"first", "last"} -> tipo
      [] funzione = "sum" -> tipo_somma(tipo)
      [] funzione = "min" -> tipo_estremo(tipo)
      [] funzione = "mean" -> "Float64"

\* An aggregation without an alias is called as its column, or, when the column has
\* several, as the column and the function.
nomi_uscita(aggregazioni) ==
    [ k \in DOMAIN aggregazioni |->
        LET a == aggregazioni[k]
        IN  IF a.alias # "" THEN a.alias
            ELSE IF \E j \in DOMAIN aggregazioni : j # k /\ aggregazioni[j].colonna = a.colonna
                 THEN a.colonna \o "_" \o a.funzione ELSE a.colonna ]
NomiUscitaValidi(gruppo, aggregazioni) ==
    LET nomi == IF aggregazioni = <<>> THEN <<"count">> ELSE nomi_uscita(aggregazioni)
    IN  IsInjective(nomi) /\ IsInjective(gruppo) /\ Range(nomi) \cap Range(gruppo) = {}

\* One row for each key, nulls first; the rows of a group keep their order.
Gruppi(t, gruppo) ==
    LET Chiave(r) == [ k \in DOMAIN gruppo |-> IF Cella(t, r, gruppo[k]) = Nulla THEN -1 ELSE Cella(t, r, gruppo[k]) ]
        chiavi == InOrdine({Chiave(r) : r \in DOMAIN t.righe}, Lessicografico)
    IN  [ k \in DOMAIN chiavi |-> InOrdine({r \in DOMAIN t.righe : Chiave(r) = chiavi[k]}, <) ]
\* What a function makes of the cells of a group.
Riduci(celle, funzione) ==
    LET piene == SelectSeq(celle, LAMBDA v : v # Nulla)
    IN  CASE funzione = "count"   -> Len(piene)
          [] funzione = "nunique" -> Cardinality(Range(piene))
          [] funzione = "concat"  -> Len(piene)
          [] funzione = "first"   -> celle[1]
          [] funzione = "last"    -> celle[Len(celle)]
          [] funzione = "min"     -> IF piene = <<>> THEN Nulla ELSE CHOOSE v \in Range(piene) : \A w \in Range(piene) : v <= w
          [] OTHER                -> IF piene = <<>> THEN Nulla ELSE Len(piene)
AggregazioneValida(t, a) ==
    /\ Ha(t, <<a.colonna>>)
    /\ a.funzione = "nunique" => DiTipo(t, <<a.colonna>>, key_encodable)
    /\ a.funzione = "concat" => DiTipo(t, <<a.colonna>>, text_convertible) /\ require_non_geometry(t, <<a.colonna>>)
    /\ a.funzione \in {"first", "last"} => DiTipo(t, <<a.colonna>>, text_convertible)
    /\ a.funzione \in {"sum", "min", "mean"} => DiTipo(t, <<a.colonna>>, dominio_numerico)
    /\ a.funzione = "sum" => verifica_somma(Campo(t, a.colonna).tipo)
\* Chosen cells of a geometry are one, but only the group columns carry the primary.
aggregate_con_limiti(t, gruppo, aggregazioni) ==
    LET gruppi == Gruppi(t, gruppo)
        chiavi == Proietta([t EXCEPT !.righe = [ k \in DOMAIN gruppi |-> t.righe[gruppi[k][1]] ]], PosDi(t, gruppo))
        mappa == { <<1, Pos(t, gruppo[k]), k>> : k \in DOMAIN gruppo }
        nomi == nomi_uscita(aggregazioni)
        Valori(a) == [ k \in DOMAIN gruppi |->
                         Riduci([ j \in DOMAIN gruppi[k] |-> Cella(t, gruppi[k][j], a.colonna) ], a.funzione) ]
        Geometrica(s, nome) ==
            LET colonne == [s.colonne EXCEPT ![Pos(s, nome)].geo = TRUE]
            IN  batch_with_rows([s EXCEPT !.colonne = colonne, !.chiave = compose(<<t>>, colonne, mappa, FALSE)])
        Aggiungi(acc, k) ==
            LET a == aggregazioni[k]
            IN  Poi(acc, LAMBDA s : Con(AggregazioneValida(t, a), t,
                    Poi(replace_or_append(s, nomi[k], tipo_uscita(a.funzione, Campo(t, a.colonna).tipo),
                                          a.funzione \notin {"count", "nunique"}, Valori(a)),
                        LAMBDA u : IF a.funzione \in {"first", "last"} /\ Campo(t, a.colonna).geo
                                   THEN Geometrica(u, nomi[k]) ELSE Esito("ok", u))))
    IN  Con(gruppo # <<>> /\ DiTipo(t, gruppo, key_encodable) /\ NomiUscitaValidi(gruppo, aggregazioni), t,
            IF aggregazioni = <<>>
            THEN Poi(chiavi, LAMBDA s : replace_or_append(s, "count", "Int64", FALSE,
                                                          [ k \in DOMAIN gruppi |-> Len(gruppi[k]) ]))
            ELSE FoldLeft(Aggiungi, chiavi, [ k \in DOMAIN aggregazioni |-> k ]))

\* ------------------------------------------------- aggregation/window.rs
tipo_uscita_rolling(funzione, tipo) ==
    CASE funzione = "sum" -> tipo_somma(tipo) [] funzione = "min" -> tipo_estremo(tipo) [] OTHER -> "Float64"
tipo_uscita_finestra(funzione, tipo) ==
    CASE funzione = "lag" -> tipo [] funzione = "cumsum" -> tipo_somma(tipo) [] OTHER -> "Float64"

\* The row before r in its partition, 0 when r is the first.
Precedente(t, gruppo, r) ==
    LET prima == {q \in 1 .. r - 1 : Celle(t, q, gruppo) = Celle(t, r, gruppo)}
    IN  IF prima = {} THEN 0 ELSE CHOOSE q \in prima : \A p \in prima : p <= q
\* Windows of two rows: one row alone is not enough for a value.
rolling_window(t, funzione, colonna, gruppo, ordine, uscita) ==
    Poi(InOrdineDi(t, ordine, TRUE), LAMBDA s :
        Con(/\ DiTipo(s, <<colonna>>, dominio_numerico) /\ DiTipo(s, gruppo, key_encodable)
            /\ funzione = "sum" => verifica_somma(Campo(s, colonna).tipo), t,
            replace_or_append(s, uscita, tipo_uscita_rolling(funzione, Campo(s, colonna).tipo), TRUE,
                [ r \in DOMAIN s.righe |-> IF Precedente(s, gruppo, r) = 0 THEN Nulla
                                           ELSE Calcolata(Cella(s, r, colonna)) ])))

window_function(t, funzione, colonna, gruppo, ordine, uscita) ==
    Con(Ha(t, <<colonna>>), t, Poi(InOrdineDi(t, ordine, TRUE), LAMBDA s :
        Con(/\ DiTipo(s, <<colonna>>, dominio_numerico) /\ DiTipo(s, gruppo, key_encodable)
            /\ funzione = "cumsum" => verifica_somma(Campo(s, colonna).tipo)
            /\ funzione = "rank" => Campo(s, colonna).tipo # "Utf8", t,
            replace_or_append(s, uscita, tipo_uscita_finestra(funzione, Campo(s, colonna).tipo), TRUE,
                [ r \in DOMAIN s.righe |->
                    LET q == Precedente(s, gruppo, r)
                    IN  IF funzione # "lag" THEN Calcolata(Cella(s, r, colonna))
                        ELSE IF q = 0 THEN Nulla ELSE Cella(s, q, colonna) ]))))

\* ------------------------------------------------------------ utility.rs
add_row_number(t, partizione, uscita) ==
    Con(DiTipo(t, partizione, key_encodable), t,
        replace_or_append(t, uscita, "Int64", FALSE,
            [ r \in DOMAIN t.righe |->
                Cardinality({q \in 1 .. r : Celle(t, q, partizione) = Celle(t, r, partizione)}) ]))

uuid_generator(t, uscita) ==
    replace_or_append(t, uscita, "Utf8", FALSE, [ r \in DOMAIN t.righe |-> Len(t.righe) - r ])

\* Columns read as text: a geometry is not text, whatever its bytes.
Testuali(t, nomi) == DiTipo(t, nomi, text_convertible) /\ require_non_geometry(t, nomi)
date_extract(t, nome, uscita) ==
    Con(Testuali(t, <<nome>>), t, replace_or_append(t, uscita, "Int64", TRUE, CalcolataSu(t, nome)))

limit(t, n, offset) == Con(~(n = 0 /\ offset > 0), t, RigheTali(t, LAMBDA r : r > offset /\ r <= offset + n))

\* ---------------------------------------------------------- filtering.rs
\* Operators of equality read the text, ordered ones a number, isnull any cell.
OperatoreAmmesso(t, nome, operatore) ==
    /\ Ha(t, <<nome>>)
    /\ operatore = "eq" => Testuali(t, <<nome>>)
    /\ operatore = "gt" => DiTipo(t, <<nome>>, dominio_numerico)
evaluate(v, operatore, valore) ==
    CASE operatore = "isnull" -> v = Nulla
      [] operatore = "eq"     -> v # Nulla /\ v = valore
      [] operatore = "gt"     -> v # Nulla /\ v > valore
filter(t, nome, operatore, valore) ==
    Con(OperatoreAmmesso(t, nome, operatore), t,
        RigheTali(t, LAMBDA r : evaluate(Cella(t, r, nome), operatore, valore)))

\* risultati: the two results are numbers, texts, or a text and null.
RisultatiNumerici(risultati) == risultati = "numeri"
conditional(t, nome, operatore, valore, risultati, uscita) ==
    Con(OperatoreAmmesso(t, nome, operatore), t,
        replace_or_append(t, uscita, IF RisultatiNumerici(risultati) THEN "Float64" ELSE "Utf8",
            RisultatiNumerici(risultati) \/ risultati = "testo_e_nullo",
            [ r \in DOMAIN t.righe |->
                IF evaluate(Cella(t, r, nome), operatore, valore) THEN 1
                ELSE IF risultati = "testo_e_nullo" THEN Nulla ELSE 0 ]))

\* ---------------------------------------------------------- cleansing.rs
riempibili == {"Utf8", "Int64", "Float64", "Boolean"}
\* nome: one column, or all.  The cells are filled in their place.
fill_na(t, nome) ==
    LET bersagli == IF nome = <<>> THEN [ p \in DOMAIN t.colonne |-> t.colonne[p].nome ] ELSE nome
        Riempi(acc, n) ==
            Poi(acc, LAMBDA s : Con(DiTipo(s, <<n>>, riempibili), t,
                Sostituisci(s, [Campo(s, n) EXCEPT !.nullable = TRUE],
                    [ r \in DOMAIN s.righe |-> IF Cella(s, r, n) = Nulla THEN 0 ELSE Cella(s, r, n) ])))
    IN  Con(Ha(t, nome), t, FoldLeft(Riempi, Esito("ok", t), bersagli))

replace_con_limiti(t, nome) ==
    Con(DiTipo(t, <<nome>>, {"Utf8"}), t,
        replace_keeping_field_metadata(t, nome, "Utf8", TRUE, CalcolataSu(t, nome)))

\* A date becomes a text, a date or bytes, never a number.
verifica_cast_temporale(tipo, target) == tipo = "Date32" => target \in {"Utf8", "Date32", "Binary"}
type_cast(t, nome, target) ==
    Con(Testuali(t, <<nome>>) /\ verifica_cast_temporale(Campo(t, nome).tipo, target), t,
        replace_or_append(t, nome, target, TRUE, CalcolataSu(t, nome)))

\* ----------------------------------------------------------- analysis.rs
lookup(t, nome, uscita) ==
    Con(Testuali(t, <<nome>>), t, replace_or_append(t, uscita, "Utf8", TRUE, CalcolataSu(t, nome)))

bin_con_limiti(t, nome, uscita) ==
    Con(DiTipo(t, <<nome>>, dominio_numerico), t,
        replace_or_append(t, uscita, "Utf8", TRUE, CalcolataSu(t, nome)))

\* A path that a document does not have is null.
flatten_json(t, nome, uscite) ==
    LET Aggiungi(acc, n) == Poi(acc, LAMBDA s : replace_or_append(s, n, "Utf8", TRUE,
                                [ r \in DOMAIN s.righe |-> IF Cella(t, r, nome) \in {0, Nulla} THEN Nulla ELSE 1 ]))
    IN  Con(Testuali(t, <<nome>>) /\ Len(t.colonne) + Len(uscite) <= max_columns, t,
            FoldLeft(Aggiungi, Esito("ok", t), uscite))

tipo_statistica(stat, tipo) ==
    CASE stat = "sum" -> tipo_somma(tipo) [] stat = "min" -> tipo_estremo(tipo) [] OTHER -> "Float64"
\* The value of the group, on every one of its rows.
statistics(t, stat, nome, gruppo, uscita) ==
    LET Del(r) == InOrdine({q \in DOMAIN t.righe : Celle(t, q, gruppo) = Celle(t, r, gruppo)}, <)
    IN  Con(/\ DiTipo(t, <<nome>>, dominio_numerico) /\ DiTipo(t, gruppo, key_encodable)
            /\ stat = "sum" => verifica_somma(Campo(t, nome).tipo), t,
            replace_or_append(t, uscita, tipo_statistica(stat, Campo(t, nome).tipo), TRUE,
                [ r \in DOMAIN t.righe |-> Riduci([ k \in DOMAIN Del(r) |-> Cella(t, Del(r)[k], nome) ], stat) ]))

\* A fixed shuffle, from the last row: n rows, or, for the share of each stratum, one.
sample(t, n, strati) ==
    LET Rovescio(S) == InOrdine(S, >)
        UnoPerStrato == {r \in DOMAIN t.righe : \A q \in DOMAIN t.righe : Celle(t, q, strati) = Celle(t, r, strati) => q <= r}
        scelte == IF strati = <<>> THEN {r \in DOMAIN t.righe : r > Len(t.righe) - n} ELSE UnoPerStrato
    IN  Con(DiTipo(t, strati, key_encodable), t, select_rows(t, Rovescio(scelte)))

\* ------------------------------------------------------------ formula.rs
column_formula_type(tipo) == IF tipo \in {"Int64", "Float64"} THEN "Number" ELSE "Text"
\* a + b joins texts; a - b needs numbers.
infer_expr_type(operatore, a, b) ==
    IF column_formula_type(a) = "Number" /\ column_formula_type(b) = "Number" THEN "Float64"
    ELSE IF operatore = "+" THEN "Utf8" ELSE "rifiutato"
formula_con_effetti(t, operatore, a, b, uscita) ==
    Con(Testuali(t, <<a, b>>) /\ infer_expr_type(operatore, Campo(t, a).tipo, Campo(t, b).tipo) # "rifiutato", t,
        replace_or_append(t, uscita, infer_expr_type(operatore, Campo(t, a).tipo, Campo(t, b).tipo), TRUE,
            [ r \in DOMAIN t.righe |-> IF Nulla \in {Cella(t, r, a), Cella(t, r, b)} THEN Nulla
                                       ELSE Calcolata(Cella(t, r, a)) ]))

\* ------------------------------------------------ strings.rs, security.rs
string_pad(t, nome, uscita) ==
    Con(DiTipo(t, <<nome>>, {"Utf8"}), t, replace_or_append(t, uscita, "Utf8", TRUE, CalcolataSu(t, nome)))
string_length(t, nome, uscita) ==
    Con(DiTipo(t, <<nome>>, {"Utf8"}), t, replace_or_append(t, uscita, "Int64", TRUE, CalcolataSu(t, nome)))
string_extract(t, nome, uscita) ==
    Con(DiTipo(t, <<nome>>, {"Utf8"}), t,
        replace_or_append(t, uscita, "Utf8", TRUE,
            [ r \in DOMAIN t.righe |-> IF Cella(t, r, nome) = 0 THEN Nulla ELSE Calcolata(Cella(t, r, nome)) ]))
\* Each column is read from the result of the ones before.
text_normalize(t, nomi, overwrite) ==
    LET Uno(acc, n) == Poi(acc, LAMBDA s : Con(DiTipo(s, <<n>>, {"Utf8"}), t,
                replace_or_append(s, IF overwrite THEN n ELSE n \o "_norm", "Utf8", TRUE, CalcolataSu(s, n))))
    IN  Con(nomi # <<>>, t, FoldLeft(Uno, Esito("ok", t), nomi))
mask_data_con_limiti(t, nomi, overwrite) ==
    LET Uno(acc, n) == Poi(acc, LAMBDA s : Con(Testuali(s, <<n>>), t,
                replace_or_append(s, IF overwrite THEN n ELSE n \o "_masked", "Utf8", TRUE, CalcolataSu(s, n))))
    IN  Con(nomi # <<>> /\ Testuali(t, nomi), t, FoldLeft(Uno, Esito("ok", t), nomi))
\* A null has a digest too.
md5_hash(t, nomi, uscita) ==
    Con(nomi # <<>> /\ Testuali(t, nomi), t, replace_or_append(t, uscita, "Utf8", FALSE, Sempre(t, 1)))
sha256_hash(t, nomi, uscita) ==
    Con(nomi # <<>> /\ Testuali(t, nomi), t, replace_or_append(t, uscita, "Utf8", FALSE, Sempre(t, 1)))
stable_fingerprint(t, nomi, uscita) ==
    LET letti == IF nomi = <<>> THEN [ p \in DOMAIN t.colonne |-> t.colonne[p].nome ] ELSE nomi
    IN  Con(letti # <<>> /\ Testuali(t, letti), t, replace_or_append(t, uscita, "Utf8", FALSE, Sempre(t, 1)))
hmac_sha256(t, nomi, nullo, uscita) ==
    Con(nomi # <<>> /\ Testuali(t, nomi), t,
        replace_or_append(t, uscita, "Utf8", nullo,
            [ r \in DOMAIN t.righe |-> IF nullo /\ Nulla \in Range(Celle(t, r, nomi)) THEN Nulla ELSE 1 ]))

\* -------------------------------------------------------------- dates.rs
date_format(t, nome, uscita) ==
    Con(Testuali(t, <<nome>>), t, replace_or_append(t, uscita, "Utf8", TRUE, CalcolataSu(t, nome)))
date_add(t, nome, uscita) ==
    Con(Testuali(t, <<nome>>), t, replace_or_append(t, uscita, "Utf8", TRUE, CalcolataSu(t, nome)))
timezone_convert(t, nome, uscita) ==
    Con(Testuali(t, <<nome>>), t,
        replace_or_append(t, uscita, "Utf8", TRUE, CalcolataSu(t, nome)))
verifica_generi_date_diff(a, b) == (a = "Date32") = (b = "Date32")
date_diff(t, a, b, uscita) ==
    Con(Testuali(t, <<a, b>>) /\ verifica_generi_date_diff(Campo(t, a).tipo, Campo(t, b).tipo), t,
        replace_or_append(t, uscita, "Float64", TRUE,
            [ r \in DOMAIN t.righe |-> IF Nulla \in {Cella(t, r, a), Cella(t, r, b)} THEN Nulla ELSE 1 ]))

-----------------------------------------------------------------------------
(***************************************************************************)
(* The kernels that check a table or change its shape: quality.rs,         *)
(* governance.rs and reshape.rs.  A check that the data fail ends in       *)
(* "asserzione": it is what the step is for, not an error of the plan.     *)
(***************************************************************************)

\* The input as it is, if every row passes.
Asserito(t, Passa(_)) == IF \A r \in DOMAIN t.righe : Passa(r) THEN Esito("ok", t) ELSE Esito("asserzione", t)

\* ------------------------------------------------------------ quality.rs
\* attesi: name, type and nullability of every expected column.
SchemaAtteso(colonne, attesi, ordered, allow_extra) ==
    /\ ~allow_extra => Len(colonne) = Len(attesi)
    /\ \A k \in DOMAIN attesi : \E i \in DOMAIN colonne :
          /\ ordered => i = k
          /\ <<colonne[i].nome, colonne[i].tipo, colonne[i].nullable>>
                = <<attesi[k].nome, attesi[k].tipo, attesi[k].nullable>>
assert_schema(t, attesi, ordered, allow_extra) ==
    Con(SchemaAtteso(t.colonne, attesi, ordered, allow_extra), t, Esito("ok", t))

assert_not_null(t, nomi) ==
    Con(Ha(t, nomi), t, Asserito(t, LAMBDA r : Nulla \notin Range(Celle(t, r, nomi))))

\* Rows with a null in the key are not compared unless nulls_equal.
assert_unique(t, nomi, nulls_equal) ==
    LET viste == {r \in DOMAIN t.righe : nulls_equal \/ Nulla \notin Range(Celle(t, r, nomi))}
    IN  Con(DiTipo(t, nomi, key_encodable), t,
            Asserito(t, LAMBDA r : r \in viste => \A q \in viste \ {r} : Celle(t, q, nomi) # Celle(t, r, nomi)))

assert_range(t, nome, massimo, allow_null) ==
    Con(DiTipo(t, <<nome>>, dominio_numerico), t,
        Asserito(t, LAMBDA r : IF Cella(t, r, nome) = Nulla THEN allow_null ELSE Cella(t, r, nome) <= massimo))

assert_regex(t, nome, allow_null) ==
    Con(DiTipo(t, <<nome>>, {"Utf8"}), t,
        Asserito(t, LAMBDA r : IF Cella(t, r, nome) = Nulla THEN allow_null ELSE Cella(t, r, nome) # 0))

\* merged_geometry_metadata: all the columns are geometries, or none is.
GeometrieConcordi(t, nomi) == \A n, m \in Range(nomi) : Campo(t, n).geo = Campo(t, m).geo
\* The schema is composed against that of the input, not of the intermediate table.
coalesce(t, nomi, uscita) ==
    LET tipo == Campo(t, nomi[1]).tipo
        Prima(r) == LET piene == SelectSeq(Celle(t, r, nomi), LAMBDA v : v # Nulla)
                    IN  IF piene = <<>> THEN Nulla ELSE piene[1]
        Marcata(s) ==
            LET colonne == [s.colonne EXCEPT ![Pos(s, uscita)].geo = Campo(t, nomi[1]).geo]
            IN  Unaria(t, colonne, s.righe)
    IN  Con(nomi # <<>> /\ Ha(t, nomi), t, Con(DiTipo(t, nomi, {tipo}) /\ GeometrieConcordi(t, nomi), t,
            Poi(replace_or_append(t, uscita, tipo, TRUE, [ r \in DOMAIN t.righe |-> Prima(r) ]), Marcata)))

\* --------------------------------------------------------- governance.rs
\* limiti: exact, min, max number of rows, Nulla when not given; exact comes first.
CardinalitaAmmessa(n, limiti) ==
    IF limiti.exact # Nulla THEN n = limiti.exact
    ELSE (limiti.min # Nulla => n >= limiti.min) /\ (limiti.max # Nulla => n <= limiti.max)
CardinalitaValida(limiti) ==
    /\ {limiti.exact, limiti.min, limiti.max} # {Nulla}
    /\ limiti.exact # Nulla => limiti.min = Nulla /\ limiti.max = Nulla
    /\ limiti.min # 0
    /\ (limiti.min # Nulla /\ limiti.max # Nulla) => limiti.min <= limiti.max
assert_cardinality(t, limiti) ==
    Con(CardinalitaValida(limiti), t,
        IF CardinalitaAmmessa(Len(t.righe), limiti) THEN Esito("ok", t) ELSE Esito("asserzione", t))

is_rule_numeric == {"Int64", "UInt64", "Float64", "Date32"}
is_rule_comparable == is_rule_numeric \cup {"Utf8", "Boolean", "Binary"}
\* One rule on one column; a null fails every operator but isnull.
RegolaAmmessa(t, nome, operatore) ==
    /\ Ha(t, <<nome>>)
    /\ operatore = "eq" => DiTipo(t, <<nome>>, is_rule_comparable) /\ require_non_geometry(t, <<nome>>)
    /\ operatore = "gt" => DiTipo(t, <<nome>>, is_rule_numeric)
    /\ operatore = "regex" => DiTipo(t, <<nome>>, {"Utf8"})
rule_passes(v, operatore) == evaluate(v, IF operatore = "regex" THEN "eq" ELSE operatore, 1)
validate_rules(t, nome, operatore, annotate) ==
    LET Passa(r) == rule_passes(Cella(t, r, nome), operatore)
        Esiti == [ r \in DOMAIN t.righe |-> IF Passa(r) THEN 1 ELSE 0 ]
        sommario == [ colonne |-> << Colonna("name", "Utf8", FALSE), Colonna("errors", "Int64", FALSE),
                                     Colonna("warnings", "Int64", FALSE) >>,
                      righe |-> << <<1, Cardinality({r \in DOMAIN t.righe : ~Passa(r)}), 0>> >>, chiave |-> 0 ]
    IN  Con(RegolaAmmessa(t, nome, operatore), t,
            IF ~annotate THEN batch_with_rows(sommario)
            ELSE Poi(replace_or_append(t, "_valid", "Boolean", FALSE, Esiti), LAMBDA s :
                 Poi(replace_or_append(s, "_errors", "Utf8", FALSE, Esiti), LAMBDA u :
                     replace_or_append(u, "_warnings", "Utf8", FALSE, Sempre(u, 0)))))

\* ------------------------------------------------------------ reshape.rs
\* The two names of melt, one after the other, against every name of the input.
resolve_melt_names(presi, var_name, value_name) ==
    LET primo == resolve_output_name(presi, var_name)
    IN  <<primo, resolve_output_name(presi \cup {primo}, value_name)>>
ValoriDi(tutti, id, valori) ==
    IF valori # <<>> THEN valori ELSE SelectSeq(tutti, LAMBDA n : n \notin Range(id))
\* The id columns once for every value column, block after block.
melt(t, id, valori, var_name, value_name, stringa) ==
    LET letti == ValoriDi([ p \in DOMAIN t.colonne |-> t.colonne[p].nome ], id, valori)
        tipo == Campo(t, letti[1]).tipo
        omogeneo == DiTipo(t, letti, {tipo})
        n == Len(t.righe)
        nomi == resolve_melt_names(Nomi(t), var_name, value_name)
        colonne == [ k \in DOMAIN id |-> Campo(t, id[k]) ]
                     \o << Colonna(nomi[1], "Utf8", FALSE),
                           [Colonna(nomi[2], IF omogeneo THEN tipo ELSE "Utf8", TRUE) EXCEPT !.geo = Campo(t, letti[1]).geo] >>
        Riga(x) == LET r == 1 + ((x - 1) % n)  k == 1 + ((x - 1) \div n)
                   IN  Celle(t, r, id) \o << k, Cella(t, r, letti[k]) >>
    IN  Con(Ha(t, id) /\ Ha(t, letti) /\ letti # <<>>, t,
        Con(GeometrieConcordi(t, letti) /\ (omogeneo \/ (stringa /\ Testuali(t, letti))), t,
            IF n * Len(letti) > max_rows THEN Limite(t)
            ELSE Unaria(t, colonne, [ x \in 1 .. n * Len(letti) |-> Riga(x) ])))

tipo_pivot(funzione, tipo) == tipo_uscita(funzione, tipo)
\* mappa: the values of the pivot column and the names of their columns, all distinct.
verifica_mapping(tipo, indice, mappa) ==
    /\ indice # <<>> /\ IsInjective(indice)
    /\ tipo \in {"Utf8", "Int64", "UInt64"}
    /\ \A i, j \in DOMAIN mappa : i # j => mappa[i].nome # mappa[j].nome
    /\ \A k \in DOMAIN mappa : mappa[k].nome \notin Range(indice)
    /\ Len(indice) + Len(mappa) <= max_columns
\* A row for each key; a cell of a value that the rows of the key do not have is null.
pivot(t, indice, colonna, valore, funzione, mappa) ==
    LET gruppi == Gruppi(t, indice)
        Scelte(k, v) == SelectSeq(gruppi[k], LAMBDA r : Cella(t, r, colonna) = v)
        Ridotta(k, v) ==
            IF Scelte(k, v) = <<>> THEN Nulla
            ELSE Riduci([ j \in DOMAIN Scelte(k, v) |-> Cella(t, Scelte(k, v)[j], valore) ], funzione)
        Uscita(m) == [Colonna(m.nome, tipo_pivot(funzione, Campo(t, valore).tipo), TRUE)
                        EXCEPT !.geo = funzione = "first" /\ Campo(t, valore).geo]
        colonne == [ k \in DOMAIN indice |-> Campo(t, indice[k]) ] \o [ k \in DOMAIN mappa |-> Uscita(mappa[k]) ]
        chiave == compose(<<t>>, colonne, { <<1, Pos(t, indice[k]), k>> : k \in DOMAIN indice }, FALSE)
    IN  Con(/\ DiTipo(t, indice, key_encodable) /\ Testuali(t, <<colonna>>) /\ Ha(t, <<valore>>)
            /\ AggregazioneValida(t, [colonna |-> valore, funzione |-> IF funzione = "first" THEN "count" ELSE funzione]), t,
        Con(verifica_mapping(Campo(t, colonna).tipo, indice, mappa), t,
            batch_with_rows([colonne |-> colonne, chiave |-> chiave,
                righe |-> [ k \in DOMAIN gruppi |->
                    Celle(t, gruppi[k][1], indice) \o [ j \in DOMAIN mappa |-> Ridotta(k, mappa[j].valore) ] ]])))

\* A list of n elements gives n rows, an empty or null one a row with null.
explode(t, nome, uscita) ==
    LET Volte(v) == IF v \in {0, Nulla} THEN 1 ELSE v
        coppie == { <<r, k>> \in (DOMAIN t.righe) \X (1 .. 2) : k <= Volte(Cella(t, r, nome)) }
        scelte == InOrdine(coppie, Lessicografico)
    IN  Con(DiTipo(t, <<nome>>, {"List"}) /\ require_non_geometry(t, <<nome>>), t,
            IF Len(scelte) > max_rows THEN Limite(t)
            ELSE Poi(IF uscita = nome
                     THEN Esito("ok", [t EXCEPT !.righe = [ k \in DOMAIN scelte |-> t.righe[scelte[k][1]] ]])
                     ELSE select_rows(t, [ k \in DOMAIN scelte |-> scelte[k][1] ]),
                     LAMBDA s : replace_or_append(s, uscita, "Utf8", TRUE,
                         [ k \in DOMAIN scelte |->
                             IF Cella(t, scelte[k][1], nome) \in {0, Nulla} THEN Nulla ELSE scelte[k][2] ])))

\* figli: the names of the children, with the prefix.
NomiUnnest(restano, figli) == IsInjective(figli) /\ Range(figli) \cap restano = {}
unnest(t, nome, figli, drop_source) ==
    LET tolta == IF drop_source THEN <<nome>> ELSE <<>>
        resto == Altre(t, tolta)
        colonne == [ k \in DOMAIN resto |-> t.colonne[resto[k]] ] \o [ k \in DOMAIN figli |-> Colonna(figli[k], "Utf8", TRUE) ]
    IN  Con(DiTipo(t, <<nome>>, {"Struct"}) /\ require_non_geometry(t, <<nome>>), t,
            IF Len(colonne) > max_columns THEN Limite(t)
            ELSE Con(NomiUnnest(Nomi(t) \ Range(tolta), figli), t,
                     Unaria(t, colonne,
                         [ r \in DOMAIN t.righe |-> [ k \in DOMAIN resto |-> t.righe[r][resto[k]] ]
                                                      \o [ k \in DOMAIN figli |-> Cella(t, r, nome) ] ])))

-----------------------------------------------------------------------------
(***************************************************************************)
(* The kernels of two inputs: joins.rs, fuzzy.rs, setops.rs and the two of *)
(* governance.rs.  l and r are the left and the right table.  How the      *)
(* pairs of rows are found in parallel is in JoinParallelo and             *)
(* FuzzyParallelo; here they are the relation.                             *)
(***************************************************************************)

NomiInOrdine(colonne) == [ p \in DOMAIN colonne |-> colonne[p].nome ]

\* HorizontalNames: the join marks every column but the left keys, the cross join
\* the names of both sides, the as-of join those of the right one.
NomeSinistro(naming, chiavi, destri, nome) ==
    IF naming = "join" /\ nome \notin Range(chiavi) THEN nome \o "_L"
    ELSE IF naming = "cross" /\ nome \in destri THEN nome \o "_x" ELSE nome
NomeDestro(naming, sinistri, nome) ==
    IF naming = "join" THEN nome \o "_R"
    ELSE IF nome \notin sinistri THEN nome
    ELSE IF naming = "cross" THEN nome \o "_y" ELSE nome \o "_R"
\* coppie: a left and a right row, 0 where there is none.
combine_horizontal(l, r, coppie, omesse, naming, chiavi) ==
    LET tenute == Altre(r, omesse)
        destri == {r.colonne[p].nome : p \in Range(tenute)}
        sinistre == [ p \in DOMAIN l.colonne |->
            [l.colonne[p] EXCEPT !.nome = NomeSinistro(naming, chiavi, destri, @), !.nullable = TRUE] ]
        destre == [ k \in DOMAIN tenute |->
            [r.colonne[tenute[k]] EXCEPT !.nome = NomeDestro(naming, Nomi(l), @), !.nullable = TRUE] ]
        colonne == sinistre \o destre
        n == Len(sinistre)
        mappa == { <<1, p, p>> : p \in 1 .. n } \cup { <<2, tenute[k], n + k>> : k \in DOMAIN tenute }
        Presa(t, riga, p) == IF riga = 0 THEN Nulla ELSE t.righe[riga][p]
    IN  IF Len(colonne) > max_columns THEN Limite(l)
        ELSE Con(IsInjective(NomiInOrdine(colonne)), l,
                 batch_with_rows([ colonne |-> colonne, chiave |-> compose(<<l, r>>, colonne, mappa, FALSE),
                     righe |-> [ k \in DOMAIN coppie |->
                         [ p \in 1 .. n |-> Presa(l, coppie[k][1], p) ]
                           \o [ j \in DOMAIN tenute |-> Presa(r, coppie[k][2], tenute[j]) ] ] ]))

\* Keys in pairs, with the same types, and geometries only with geometries.
ChiaviInCoppia(l, r, lk, rk) ==
    /\ Len(lk) = Len(rk) /\ Ha(l, lk) /\ Ha(r, rk)
    /\ \A k \in DOMAIN lk : /\ Campo(l, lk[k]).tipo = Campo(r, rk[k]).tipo
                            /\ Campo(l, lk[k]).geo = Campo(r, rk[k]).geo
\* A key with a null matches nothing.
Abbinate(l, r, lk, rk, a, b) ==
    Celle(l, a, lk) = Celle(r, b, rk) /\ Nulla \notin Range(Celle(l, a, lk))
Corrisponde(l, r, lk, rk, a) == \E b \in DOMAIN r.righe : Abbinate(l, r, lk, rk, a, b)
InOrdineDiCoppia(S) == InOrdine(S, Lessicografico)

\* ------------------------------------------------------------- joins.rs
\* With right and outer the key of the output is the left one, or else the right one.
join(l, r, lk, rk, how) ==
    LET interne == { <<a, b>> \in (DOMAIN l.righe) \X (DOMAIN r.righe) : Abbinate(l, r, lk, rk, a, b) }
        sole == { <<a, 0>> : a \in {a \in DOMAIN l.righe : ~Corrisponde(l, r, lk, rk, a)} }
        destre == { <<0, b>> : b \in {b \in DOMAIN r.righe : ~Corrisponde(r, l, rk, lk, b)} }
        coppie == InOrdineDiCoppia(interne \cup (IF how \in {"left", "outer"} THEN sole ELSE {}))
                    \o InOrdineDiCoppia(IF how \in {"right", "outer"} THEN destre ELSE {})
        Chiave(t, riga, k) == IF coppie[riga][1] # 0 THEN t.righe[riga][Pos(l, lk[k])]
                              ELSE Cella(r, coppie[riga][2], rk[k])
        Fusa(t) == [ riga \in DOMAIN t.righe |->
            [ p \in DOMAIN t.colonne |->
                IF \E k \in DOMAIN lk : Pos(l, lk[k]) = p
                THEN Chiave(t, riga, CHOOSE k \in DOMAIN lk : Pos(l, lk[k]) = p) ELSE t.righe[riga][p] ] ]
    IN  Con(lk # <<>> /\ ChiaviInCoppia(l, r, lk, rk), l,
        Con(DiTipo(l, lk, key_encodable), l,
            IF Len(coppie) > max_rows THEN Limite(l)
            ELSE Poi(combine_horizontal(l, r, coppie, rk, "join", lk), LAMBDA t :
                     IF how \notin {"right", "outer"} THEN Esito("ok", t)
                     ELSE Con(DiTipo(l, lk, coalesce_supported), l, batch_with_rows([t EXCEPT !.righe = Fusa(t)])))))

cross_join(l, r) ==
    IF Len(l.righe) * Len(r.righe) > max_rows THEN Limite(l)
    ELSE combine_horizontal(l, r, InOrdineDiCoppia((DOMAIN l.righe) \X (DOMAIN r.righe)), <<>>, "cross", <<>>)

membership_join(l, r, lk, rk, keep_matches) ==
    Con(lk # <<>> /\ ChiaviInCoppia(l, r, lk, rk), l,
    Con(DiTipo(l, lk, key_encodable), l,
        RigheTali(l, LAMBDA a : Corrisponde(l, r, lk, rk, a) = keep_matches)))

\* One row for each left row, with the last right row that is not after it.
asof_join(l, r, left_on, right_on, left_by, right_by) ==
    LET Prima(a, b) == /\ Nulla \notin {Cella(l, a, left_on), Cella(r, b, right_on)}
                       /\ Cella(r, b, right_on) <= Cella(l, a, left_on)
                       /\ Abbinate(l, r, left_by, right_by, a, b)
        Scelta(a) == LET C == {b \in DOMAIN r.righe : Prima(a, b)}
                     IN  IF C = {} THEN 0
                         ELSE CHOOSE b \in C : \A x \in C :
                                <<Cella(r, x, right_on), x>> = <<Cella(r, b, right_on), b>>
                                \/ Lessicografico(<<Cella(r, x, right_on), x>>, <<Cella(r, b, right_on), b>>)
    IN  Con(Ha(l, <<left_on>>) /\ Ha(r, <<right_on>>) /\ ChiaviInCoppia(l, r, left_by, right_by), l,
        Con(/\ Campo(l, left_on).tipo = Campo(r, right_on).tipo
            /\ Campo(l, left_on).tipo \in {"Int64", "Float64"} /\ DiTipo(l, left_by, key_encodable), l,
            combine_horizontal(l, r, [ a \in DOMAIN l.righe |-> <<a, Scelta(a)>> ],
                               <<right_on>> \o right_by, "asof", <<>>)))

\* Same names and types in the same order, and geometries only with geometries.
validate_schema(l, r) ==
    /\ Len(l.colonne) = Len(r.colonne)
    /\ \A p \in DOMAIN l.colonne :
          <<l.colonne[p].nome, l.colonne[p].tipo, l.colonne[p].geo>>
            = <<r.colonne[p].nome, r.colonne[p].tipo, r.colonne[p].geo>>
\* The rows of one table after those of the other.
concat_compatible(l, r) ==
    LET colonne == [ p \in DOMAIN l.colonne |->
                       [l.colonne[p] EXCEPT !.nullable = @ \/ r.colonne[p].nullable] ]
    IN  Con(validate_schema(l, r), l,
            IF Len(l.righe) + Len(r.righe) > max_rows THEN Limite(l)
            ELSE batch_with_rows([ colonne |-> colonne, righe |-> l.righe \o r.righe,
                                   chiave |-> vertical(<<l, r>>, colonne) ]))
concat(l, r) == concat_compatible(l, r)

\* The names in the order of their first appearance; a name that one input lacks is null there.
union_schema_by_name(l, r) ==
    LET altre == Altre(r, NomiInOrdine(l.colonne))
        Unita(c) == [c EXCEPT !.nullable =
                        \E t \in {l, r} : c.nome \in Nomi(t) => Campo(t, c.nome).nullable]
    IN  [ p \in DOMAIN l.colonne |-> Unita(l.colonne[p]) ]
          \o [ k \in DOMAIN altre |-> Unita(r.colonne[altre[k]]) ]
concat_by_name(l, r, strict) ==
    LET colonne == union_schema_by_name(l, r)
        Riga(t, a) == [ p \in DOMAIN colonne |->
                          IF colonne[p].nome \in Nomi(t) THEN Cella(t, a, colonne[p].nome) ELSE Nulla ]
    IN  IF Len(l.righe) + Len(r.righe) > max_rows THEN Limite(l)
        ELSE Con(/\ strict => validate_schema(l, r)
                 /\ \A n \in Nomi(l) \cap Nomi(r) :
                      Campo(l, n).tipo = Campo(r, n).tipo /\ Campo(l, n).geo = Campo(r, n).geo, l,
             IF Len(colonne) > max_columns THEN Limite(l)
             ELSE batch_with_rows([ colonne |-> colonne, chiave |-> vertical(<<l, r>>, colonne),
                     righe |-> [ a \in DOMAIN l.righe |-> Riga(l, a) ] \o [ b \in DOMAIN r.righe |-> Riga(r, b) ] ]))

\* -------------------------------------------------------------- fuzzy.rs
\* The score is in a column of its own, null where a left row has no match.
fuzzy_join(l, r, lk, rk, how, score) ==
    LET interne == { <<a, b>> \in (DOMAIN l.righe) \X (DOMAIN r.righe) : Abbinate(l, r, <<lk>>, <<rk>>, a, b) }
        sole == { <<a, 0>> : a \in {a \in DOMAIN l.righe : ~Corrisponde(l, r, <<lk>>, <<rk>>, a)} }
        coppie == InOrdineDiCoppia(interne \cup (IF how = "left" THEN sole ELSE {}))
        ConScore(t) == [t EXCEPT !.colonne = Append(@, Colonna(score, "Float64", how = "left")),
                                 !.righe = [ k \in DOMAIN @ |-> Append(@[k], IF coppie[k][2] = 0 THEN Nulla ELSE 1) ]]
    IN  Con(DiTipo(l, <<lk>>, {"Utf8"}) /\ DiTipo(r, <<rk>>, {"Utf8"}), l,
            IF Len(coppie) > max_rows THEN Limite(l)
            ELSE Poi(combine_horizontal(l, r, coppie, <<>>, "join", <<lk>>), LAMBDA t :
                     Con(score \notin Nomi(t), l,
                         IF Len(t.colonne) + 1 > max_columns THEN Limite(l) ELSE batch_with_rows(ConScore(t)))))

\* ------------------------------------------------------------- setops.rs
DiChiave(t) == DiTipo(t, NomiInOrdine(t.colonne), key_encodable)
PrimaVolta(t, a) == \A q \in 1 .. a - 1 : t.righe[q] # t.righe[a]
\* The limit is on the rows of both inputs, before the duplicates are removed.
union_distinct(l, r) ==
    Con(validate_schema(l, r), l,
        IF Len(l.righe) + Len(r.righe) > max_rows THEN Limite(l)
        ELSE Con(DiChiave(l), l,
             Poi(RigheTali(l, LAMBDA a : PrimaVolta(l, a)), LAMBDA s :
             Poi(RigheTali(r, LAMBDA b : PrimaVolta(r, b) /\ r.righe[b] \notin Range(l.righe)),
                 LAMBDA d : concat_compatible(s, d)))))
intersect(l, r) ==
    Con(validate_schema(l, r) /\ DiChiave(l), l,
        RigheTali(l, LAMBDA a : PrimaVolta(l, a) /\ l.righe[a] \in Range(r.righe)))
except(l, r) ==
    Con(validate_schema(l, r) /\ DiChiave(l), l,
        RigheTali(l, LAMBDA a : PrimaVolta(l, a) /\ l.righe[a] \notin Range(r.righe)))

\* --------------------------------------------------------- governance.rs
assert_foreign_key(l, r, lk, rk, allow_null) ==
    Con(ChiaviInCoppia(l, r, lk, rk), l,
    Con(DiTipo(l, lk, key_encodable), l,
        Asserito(l, LAMBDA a : IF Nulla \in Range(Celle(l, a, lk)) THEN allow_null ELSE Corrisponde(l, r, lk, rk, a))))

\* A fresh table: the five numbers, whatever the inputs are.  Rows with a null in the
\* key are of their side only, unless nulls_equal.
reconcile(l, r, lk, rk, nulls_equal) ==
    LET Chiavi(t, nomi) == [ a \in DOMAIN t.righe |-> Celle(t, a, nomi) ]
        Contata(k) == nulls_equal \/ Nulla \notin Range(k)
        Volte(s, k) == Cardinality({x \in DOMAIN s : s[x] = k})
        Prima(s, x) == Cardinality({y \in 1 .. x - 1 : s[y] = s[x]})
        Sole(s, u) == Cardinality({x \in DOMAIN s : Contata(s[x]) => Prima(s, x) >= Volte(u, s[x])})
        Doppie(s) == Cardinality({x \in DOMAIN s : Contata(s[x]) /\ Prima(s, x) > 0})
        a == Chiavi(l, lk)
        b == Chiavi(r, rk)
        valori == << Len(a) - Sole(a, b), Sole(a, b), Sole(b, a), Doppie(a), Doppie(b) >>
    IN  Con(ChiaviInCoppia(l, r, lk, rk), l,
        Con(DiTipo(l, lk, key_encodable), l,
            batch_with_rows([ colonne |-> <<Colonna("metric", "Utf8", FALSE), Colonna("value", "UInt64", FALSE)>>,
                              righe |-> [ k \in 1 .. 5 |-> <<k, valori[k]>> ], chiave |-> 0 ])))
=============================================================================
