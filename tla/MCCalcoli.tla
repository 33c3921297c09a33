----------------------------- MODULE MCCalcoli -----------------------------
(***************************************************************************)
(* The calculations of Calcoli on every small input, and the calculated    *)
(* columns, compiled against interpreted, with the type foreseen for them. *)
(*                                                                         *)
(* The widths keep the proportions of the build: counts take half of the   *)
(* wide type (64 of 128 bits), mantissas one bit less than a count.        *)
(* Exponents go beyond the wide type at both ends.                         *)
(***************************************************************************)
EXTENDS Calcoli

CONSTANTS
    t1, t2, t3, t4, t5,     \* names of tables
    MaxLivelli,     \* bound: operators around the leaf of a tree
    Tipi, EsattoFino, MaxFinito, Migliaio, MaxIstante, DecimaleOltre, max_string_bytes, max_regex_bytes

VARIABLE
    uscita      \* of a calculated column: the outcome of the step

vars == <<dati, ingresso, risposta, uscita>>

Col == INSTANCE Espressioni
V == INSTANCE ProgrammaVeloce

MCNomi == {t1, t2, t3, t4, t5}
MCIngressi == {<<t1>>, <<t1, t2>>}
MCUscite == <<t3, t4, t5>>

-----------------------------------------------------------------------------
(* Calculated columns: a tree is written from a leaf outwards, then         *)
(* submitted with a policy, an output type and a batch.                     *)

MCTipi ==
    [ i |-> "Int64", f |-> "Float64", b |-> "Boolean", s |-> "Utf8", d |-> "Decimal128",
      g |-> "Date32", tn |-> "TsNs", ts |-> "TsS", tz |-> "UtcTz", di |-> "Dictionary",
      w |-> "Wkb", li |-> "List" ]
Colonna(nome) == [n |-> "column", name |-> nome]
Lett(valore) == [n |-> "literal", value |-> valore]
Lista(voci) == [n |-> "list", items |-> voci]
Unit(u) == [n |-> "unit", value |-> u]
Un(op, e) == [n |-> "unary", op |-> op, value |-> e]
Bin(op, l, r) == [n |-> "binary", op |-> op, left |-> l, right |-> r]
Fun(nome, args) == [n |-> "function", name |-> nome, args |-> args]
Rami(w, t, e) == [n |-> "case", branches |-> <<[when |-> w, then |-> t]>>, else_value |-> e]

Uno == Col!Doppio(2)
LetteraA == Col!Testo(<<1>>)
Foglie ==
    {Colonna(n) : n \in DOMAIN MCTipi \cup {"assente"}}
    \cup {Lett(v) : v \in {Col!Null, Col!Booleano(TRUE), Col!Doppio(0), Col!Doppio(-2), Uno, LetteraA, Col!Testo(<<3>>),
                           Col!Testo(<<1, 1, 1, 1, 1>>)}}
\* The siblings of the tree that grows, at its first and at its later levels.
Fratelli(livello) ==
    IF livello = 0 THEN {Colonna(n) : n \in {"i", "d", "b", "s", "g"}} \cup {Lett(v) : v \in {Col!Null, Uno, LetteraA}}
    ELSE {Colonna("f"), Lett(LetteraA), Lett(Col!Null)}
Binari(livello) ==
    IF livello = 0 THEN Col!Aritmetici \cup Col!Logici \cup {"equal", "less"} ELSE {"divide", "or", "less"}
Semplici == {"lower", "trim", "length", "year", "abs", "round", "coalesce"}
Doppie(livello) ==
    IF livello = 0 THEN {"coalesce", "concat", "null_if", "contains", "power", "least"} ELSE {"coalesce", "concat", "least"}
Avvolti(e, livello) ==
    LET F == Fratelli(livello)
    IN  {Un(op, e) : op \in {"is_null", "is_not_null", "not", "negate"}}
        \cup UNION {{Bin(op, e, x), Bin(op, x, e)} : op \in Binari(livello), x \in F}
        \cup {Fun(nome, <<e>>) : nome \in Semplici}
        \cup {Fun("date_trunc", <<Unit(u), e>>) : u \in {"year", "day", "second"}}
        \cup {Fun("in", <<e, Lista(v)>>) : v \in {<<Col!Null, Uno>>, <<LetteraA, LetteraA>>, <<Uno, LetteraA>>}}
        \cup UNION {{Fun(nome, <<e, x>>), Fun(nome, <<x, e>>)} : nome \in Doppie(livello), x \in F}
        \cup UNION {{Fun("between", <<e, x, Lett(Uno)>>), Fun("substring", <<x, e>>),
                     Fun("substring", <<e, Lett(Uno), x>>), Fun("regex_replace", <<Colonna("s"), e, x>>),
                     Fun("regex_replace", <<x, Lett(LetteraA), e>>), Rami(e, x, Lett(LetteraA)), Rami(Colonna("b"), e, x)} : x \in F}

\* Formulas grow the same way.
FoglieDiFormula ==
    {Colonna(n) : n \in {"i", "f", "s", "d", "w", "li", "assente"}}
    \cup {[n |-> "number", value |-> x] : x \in {0, 2, 20}} \cup {[n |-> "text", value |-> <<1, 1>>]}
AvvoltiDiFormula(e) ==
    {[n |-> "neg", value |-> e]}
    \cup UNION {{[n |-> "op", op |-> op, left |-> e, right |-> x], [n |-> "op", op |-> op, left |-> x, right |-> e]} :
                   op \in Col!Aritmetici, x \in {Colonna("i"), Colonna("f"), Colonna("s"), [n |-> "number", value |-> 2]}}

Colonne ==
    {[tipo |-> "espressione", expression |-> e, livello |-> 0] : e \in Foglie}
    \cup {[tipo |-> "formula", formula |-> e, livello |-> 0] : e \in FoglieDiFormula}

\* Rows: plain values; edges (beyond the exact doubles, least decimal, instants
\* before zero, a text at its limit); zeros and what is not finite; nulls.
Piena(v) == [nullo |-> FALSE, v |-> v]
Vuota == [nullo |-> TRUE, v |-> <<0>>]
RigaPiena ==
    [ i |-> Piena(<<2>>), f |-> Piena(<<3>>), b |-> Piena(<<1>>), s |-> Piena(<<0, 2>>), d |-> Piena(<<3>>),
      g |-> Piena(<<5>>), tn |-> Piena(<<-1>>), ts |-> Piena(<<3>>), tz |-> Piena(<<7>>),
      di |-> Piena(<<1>>), w |-> Piena(<<9>>), li |-> Piena(<<9>>) ]
RigaEstrema ==
    [ RigaPiena EXCEPT !.i = Piena(<<26>>), !.f = Piena(<<28>>), !.b = Piena(<<0>>), !.s = Piena(<<4, 1, 1, 1>>),
                       !.d = Piena(<<Col!DecimaleMinimo>>), !.g = Piena(<<-3>>), !.tn = Piena(<<-66>>),
                       !.ts = Piena(<<Col!MinIstante>>) ]
RigaNulla == [n \in DOMAIN MCTipi |-> Vuota]
RigaZero == [ RigaPiena EXCEPT !.i = Piena(<<0>>), !.f = Piena(<<Col!NonFinito>>), !.s = Piena(<<>>), !.d = Vuota, !.w = Vuota ]
RigaMista == [ RigaPiena EXCEPT !.i = Piena(<<0>>), !.f = Vuota, !.b = Vuota, !.s = Piena(<<3>>), !.d = Piena(<<25>>), !.di = Vuota ]
Lotti == {<<>>, <<RigaPiena, RigaZero>>, <<RigaNulla, RigaMista>>, <<RigaEstrema>>, <<RigaMista, RigaEstrema>>}

Init ==
    /\ InitCalcoli \/ (dati \in Colonne /\ ingresso = Nessuno /\ risposta = "attesa")
    /\ uscita = <<>>

\* A tree with no kinds is refused whatever is written around it: it is not grown.
SenzaTipo == IF dati.tipo = "espressione" THEN Col!infer(dati.expression) = Col!Rifiuto
             ELSE Col!infer_expr_type(dati.formula) = "rifiuto"
Avvolge ==
    /\ risposta = "attesa" /\ dati.tipo \in {"espressione", "formula"}
    /\ dati.livello < MaxLivelli
    /\ dati.livello = 0 \/ ~ SenzaTipo
    /\ IF dati.tipo = "espressione"
         THEN \E e \in Avvolti(dati.expression, dati.livello) :
                dati' = [dati EXCEPT !.expression = e, !.livello = @ + 1]
         ELSE \E e \in AvvoltiDiFormula(dati.formula) :
                dati' = [dati EXCEPT !.formula = e, !.livello = @ + 1]
    /\ UNCHANGED <<ingresso, risposta, uscita>>

Configurazione(politica, tipo) == [expression |-> dati.expression, output_type |-> tipo, politica |-> politica]
\* A type is written where it says something: over no kind or several.
TipiScritti == IF Cardinality(Col!infer(dati.expression)) = 1 THEN {"Auto"} ELSE {"Auto", "Number", "Text"}
\* expression_con_effetti, of a configuration the analysis accepts
CalcolaEspressione(politica, tipo, righe) ==
    LET c == Configurazione(politica, tipo)
    IN  /\ Col!analyze_expression(c) # "rifiuto"
        /\ uscita' = V!expression_con_effetti(c, righe)
        /\ ingresso' = [config |-> c, righe |-> righe]
        /\ risposta' = "calcolata"
        /\ UNCHANGED dati
\* formula_con_effetti, likewise
CalcolaFormula(politica, righe) ==
    LET c == [formula |-> dati.formula, politica |-> politica]
    IN  /\ Col!analyze_formula(c) # "rifiuto"
        /\ uscita' = Col!formula_con_effetti(c, righe)
        /\ ingresso' = [config |-> c, righe |-> righe]
        /\ risposta' = "calcolata"
        /\ UNCHANGED dati
\* What the analysis refuses does not run.
Rifiuta ==
    /\ risposta = "attesa" /\ dati.tipo \in {"espressione", "formula"}
    /\ IF dati.tipo = "espressione" THEN Col!analyze_expression(Configurazione("", "Auto")) = "rifiuto"
       ELSE Col!analyze_formula([formula |-> dati.formula, politica |-> ""]) = "rifiuto"
    /\ risposta' = "rifiutata"
    /\ UNCHANGED <<dati, ingresso, uscita>>

Fatto == risposta # "attesa" /\ UNCHANGED vars

Next ==
    \/ NextCalcoli /\ UNCHANGED uscita
    \/ Avvolge
    \/ /\ risposta = "attesa" /\ dati.tipo = "espressione"
       /\ \E politica \in {"", "error"}, tipo \in TipiScritti, righe \in Lotti :
            CalcolaEspressione(politica, tipo, righe)
    \/ /\ risposta = "attesa" /\ dati.tipo = "formula"
       /\ \E politica \in {"", "null", "error"}, righe \in Lotti : CalcolaFormula(politica, righe)
    \/ Rifiuta
    \/ Fatto

Spec == Init /\ [][Next]_vars

-----------------------------------------------------------------------------
(* Calculated columns *)

DiColonna(e, tipi) == IF e.n = "column" THEN MCTipi[e.name] \in tipi ELSE FALSE
\* The native units of a millisecond, or the milliseconds of a native unit.
NativePerMs == [TsNs |-> 4, TsS |-> 1]
MsPerNativa == [TsNs |-> 1, TsS |-> 2]
\* The instant s is the start of the unit the native instant falls in, decided
\* without rounding to milliseconds first.
InizioDellUnita(s, t, nativo, unit) ==
    LET passo == Col!Millisecondi[unit] * NativePerMs[t]
        inizio == s * NativePerMs[t]
        istante == nativo * MsPerNativa[t]
    IN  inizio % passo = 0 /\ inizio <= istante /\ istante < inizio + passo

\* A batch gives what evaluating the tree row by row gives, whichever program it is
\* compiled to: the same values, the same failure in the same order of rows, the
\* same rows refused, the same count of divisions by zero.  A truncated timestamp is
\* the start of the unit its column's own resolution falls in, and two numbers of
\* columns compare by their exact values even where their doubles are equal.
ValoriEsatti ==
    risposta = "calcolata" =>
        LET c == ingresso.config
            righe == ingresso.righe
            Riuscita == uscita.esito = "ok"
        IN  IF dati.tipo = "formula"
              THEN uscita = Col!formula_generic(c, righe, Col!infer_expr_type(c.formula))
              ELSE /\ uscita = Col!expression_generic_kind(c, righe, Col!static_output_kind(c))
                   /\ LET e == c.expression
                      IN  \A i \in DOMAIN righe :
                            /\ Riuscita /\ Col!Sorgente(e) =>
                                 LET x == e.args[2]
                                     cella == righe[i][x.name]
                                 IN  DiColonna(x, {"TsNs", "TsS"}) /\ ~ cella.nullo =>
                                       InizioDellUnita(uscita.colonna[i].v[1], MCTipi[x.name], cella.v[1], e.args[1].value)
                            /\ (Riuscita /\ e.n = "binary") =>
                                 ((e.op = "less" /\ DiColonna(e.left, {"Int64", "Decimal128"})
                                    /\ DiColonna(e.right, {"Int64", "Decimal128"})) =>
                                   LET l == righe[i][e.left.name]
                                       r == righe[i][e.right.name]
                                   IN  ~ l.nullo /\ ~ r.nullo =>
                                         (Col!Vero(uscita.colonna[i]) <=> l.v[1] < r.v[1]))

\* The type the schema alone decides.
TipoDellaColonna ==
    IF dati.tipo = "formula" THEN Col!infer_expr_type(dati.formula) ELSE Col!static_output_kind(ingresso.config)

\* A configuration the analysis of the contract accepts does not fail for its types:
\* what can still fail is a value (a decimal without opposite, an instant out of
\* range), a text too long, an index the rows give, and a declared output type over
\* a tree that may give several.  The column has a cell for every row, null or of the
\* type decided from the schema: no batch chooses another one by its values.
TipoFedele ==
    risposta = "calcolata" =>
        /\ uscita.esito = "errore" =>
             \/ uscita.causa \in {"dato", "limite", "indice"}
             \/ /\ dati.tipo = "espressione" /\ uscita.causa = "uscita"
                /\ ingresso.config.output_type # "Auto" /\ Cardinality(Col!infer(dati.expression)) > 1
        /\ uscita.esito = "ok" =>
             /\ DOMAIN uscita.colonna = DOMAIN ingresso.righe
             /\ \A i \in DOMAIN uscita.colonna : uscita.colonna[i].k \in {"Null", TipoDellaColonna}
=============================================================================
