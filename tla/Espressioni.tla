---------------------------- MODULE Espressioni -----------------------------
(***************************************************************************)
(* What table.expression and the analysis of its contract decide from the  *)
(* schema alone (expressions/mod.rs, static_type.rs and the audit of       *)
(* interpreter.rs): whether the expression is accepted and the type of the *)
(* column it makes.                                                        *)
(*                                                                         *)
(* An expression is a tree of records with the field n: "column",          *)
(* "literal", "list" (the JSON array of `in`), "unit" (the literal that    *)
(* names the unit of date_trunc), "unary", "binary", "function", "case".   *)
(***************************************************************************)
EXTENDS Scalari

CONSTANTS
    Tipi        \* the schema: the type of every column

\* Columns of the types below are numbers; UtcTz is a timestamp with a time zone.
Timestamp == [TsS |-> "s", TsMs |-> "ms", TsUs |-> "us", TsNs |-> "ns", UtcTz |-> "ms"]
Temporali == DOMAIN Timestamp \cup {"Date32", "Date64"}
Numerici == {"Int64", "Float64", "Decimal128"} \cup Temporali
\* A geometry is a Binary column that its field declares as one.
Geometria == "Wkb"
text_convertible == {"Boolean", "Utf8", "Dictionary", "Binary", Geometria} \cup Numerici

\* The kinds a tree may make: the empty set is a tree that is always null.  A
\* refusal is no set of kinds.
Rifiuto == {"rifiuto"}
require_comparable(l, r) ==
    IF Rifiuto \in {l, r} \/ Cardinality(l \cup r) > 1 THEN Rifiuto ELSE l \cup r
require_kind(actual, expected) == IF actual \in {{}, {expected}} THEN {expected} ELSE Rifiuto
unione(l, r) == IF Rifiuto \in {l, r} THEN Rifiuto ELSE l \cup r

column_kind(nome) ==
    CASE nome \notin DOMAIN Tipi             -> Rifiuto
      [] Tipi[nome] = "Boolean"              -> {"Boolean"}
      [] Tipi[nome] \in Numerici             -> {"Number"}
      [] Tipi[nome] \notin text_convertible  -> Rifiuto
      [] OTHER                               -> {"Text"}
literal_kind(s) == IF s = Null THEN {} ELSE {s.k}

\* date_trunc reads a column natively, another truncation, or a null.
Sorgente(e) == e.n = "function" /\ e.name = "date_trunc"
RECURSIVE infer_date_trunc(_)
temporal_kind(e, unit) ==
    LET t == IF e.n = "column" /\ e.name \in DOMAIN Tipi THEN Tipi[e.name] ELSE ""
        kind == CASE t = "Date32" -> {"Date32"}
                  [] t \in DOMAIN Timestamp \ {"UtcTz"} -> {"TimestampMs"}
                  [] Sorgente(e) -> infer_date_trunc(e)
                  [] e.n = "literal" /\ e.value = Null -> {}
                  [] OTHER -> Rifiuto
    IN  IF kind = {"Date32"} /\ unit \in SottoIlGiorno THEN Rifiuto ELSE kind
infer_date_trunc(e) ==
    IF Len(e.args) # 2 \/ e.args[1].n # "unit" THEN Rifiuto ELSE temporal_kind(e.args[2], e.args[1].value)

Tutti(types, kind, esito) == IF \A i \in DOMAIN types : require_kind(types[i], kind) # Rifiuto THEN esito ELSE Rifiuto
Accumula(types) == FoldLeft(unione, {}, types)
Comparabile(types) == FoldLeft(require_comparable, {}, types)
\* What a function makes of arguments of these kinds.
FunzioneDiTipi(nome, types) ==
    CASE nome = "coalesce" -> Accumula(types)
      [] nome \in {"null_if", "greatest", "least"} -> Comparabile(types)
      [] nome = "between" -> IF Comparabile(types) = Rifiuto THEN Rifiuto ELSE {"Boolean"}
      [] nome \in TestoInTesto \cup {"concat", "regex_replace"} -> Tutti(types, "Text", {"Text"})
      [] nome \in {"length", "year"} -> Tutti(types, "Text", {"Number"})
      [] nome \in {"contains", "starts_with", "ends_with"} -> Tutti(types, "Text", {"Boolean"})
      [] nome \in {"abs", "round", "floor", "ceil", "power"} -> Tutti(types, "Number", {"Number"})
      [] nome = "substring" ->
           IF require_kind(types[1], "Text") = Rifiuto THEN Rifiuto ELSE Tutti(Tail(types), "Number", {"Text"})
RECURSIVE infer(_)
infer_function(e) ==
    CASE Sorgente(e) -> infer_date_trunc(e)
      [] e.name = "in" ->
           LET valore == infer(e.args[1])
               voci == IF e.args[2].n = "list" THEN e.args[2].items ELSE <<>>
           IN  IF valore = Rifiuto \/ \E i \in DOMAIN voci : require_comparable(valore, literal_kind(voci[i])) = Rifiuto
                 THEN Rifiuto ELSE {"Boolean"}
      [] OTHER ->
           LET types == [i \in DOMAIN e.args |-> infer(e.args[i])]
           IN  IF Rifiuto \in ToSet(types) THEN Rifiuto ELSE FunzioneDiTipi(e.name, types)
infer_binary(op, l, r) ==
    LET Due(kind) == IF Rifiuto \in {require_kind(l, kind), require_kind(r, kind)} THEN Rifiuto ELSE {kind}
    IN  CASE op \in Aritmetici -> Due("Number")
          [] op \in Logici     -> Due("Boolean")
          [] OTHER             -> IF require_comparable(l, r) = Rifiuto THEN Rifiuto ELSE {"Boolean"}
infer(e) ==
    CASE e.n = "column"   -> column_kind(e.name)
      [] e.n = "literal"  -> literal_kind(e.value)
      [] e.n = "list" \/ e.n = "unit" -> Rifiuto
      [] e.n = "unary"    ->
           LET operando == infer(e.value)
           IN  CASE operando = Rifiuto -> Rifiuto
                 [] e.op = "not"       -> require_kind(operando, "Boolean")
                 [] e.op = "negate"    -> require_kind(operando, "Number")
                 [] OTHER              -> {"Boolean"}
      [] e.n = "binary"   -> infer_binary(e.op, infer(e.left), infer(e.right))
      [] e.n = "function" -> infer_function(e)
      [] e.n = "case"     ->
           FoldLeft(LAMBDA possibili, ramo :
                        IF require_kind(infer(ramo.when), "Boolean") = Rifiuto THEN Rifiuto
                        ELSE unione(possibili, infer(ramo.then)),
                    infer(e.else_value), e.branches)

\* The type of the column; what is always null is a text.
resolve_output(possibili, configured) ==
    CASE possibili = Rifiuto -> "rifiuto"
      [] configured = "Auto" ->
           IF possibili = {} THEN "Text"
           ELSE IF Cardinality(possibili) = 1 THEN CHOOSE k \in possibili : TRUE ELSE "rifiuto"
      [] possibili = {} \/ configured \in possibili -> configured
      [] OTHER -> "rifiuto"

-----------------------------------------------------------------------------
(* The rules on the tree *)

figli(e) ==
    CASE e.n = "unary"    -> <<e.value>>
      [] e.n = "binary"   -> <<e.left, e.right>>
      [] e.n = "function" -> e.args
      [] e.n = "case"     -> FlattenSeq([i \in DOMAIN e.branches |-> <<e.branches[i].when, e.branches[i].then>>])
                             \o <<e.else_value>>
      [] OTHER            -> <<>>
RECURSIVE Nodi(_)
Nodi(e) == {e} \cup UNION {Nodi(f) : f \in ToSet(figli(e))}

contiene_divisione(e) == \E x \in Nodi(e) : x.n = "binary" /\ x.op = "divide"
RECURSIVE is_literal_zero(_)
is_literal_zero(e) ==
    \/ e.n = "literal" /\ e.value = Doppio(0)
    \/ e.n = "unary" /\ e.op = "negate" /\ is_literal_zero(e.value)
reject_literal_zero_divisor(e) ==
    \E x \in Nodi(e) : x.n = "binary" /\ x.op = "divide" /\ is_literal_zero(x.right)
verifica_limiti_letterali(e) ==
    \E x \in Nodi(e) : \/ x.n = "literal" /\ verifica_testo(x.value) # x.value
                       \/ x.n = "list" /\ \E i \in DOMAIN x.items : verifica_testo(x.items[i]) # x.items[i]
                       \/ /\ x.n = "function" /\ x.name = "regex_replace"
                          /\ x.args[2].n = "literal" /\ x.args[2].value.k = "Text"
                          /\ Len(x.args[2].value.v) > max_regex_bytes
\* politica is "" when on_division_by_zero is not written.
verifica_parametri(c) ==
    /\ c.politica # "" => contiene_divisione(c.expression)
    /\ ~ reject_literal_zero_divisor(c.expression)
    /\ ~ verifica_limiti_letterali(c.expression)

\* A test for null may read a geometry, nothing else may.
SoloNull(e) == e.n = "unary" /\ e.op \in {"is_null", "is_not_null"} /\ e.value.n = "column"
RECURSIVE verifica_accessi_geometrici(_)
verifica_accessi_geometrici(e) ==
    \/ SoloNull(e)
    \/ IF e.n = "column" THEN e.name \in DOMAIN Tipi => Tipi[e.name] # Geometria
       ELSE \A f \in ToSet(figli(e)) : verifica_accessi_geometrici(f)

\* The temporal columns read as numbers all have the same unit.
dominio_temporale(t) == CASE t = "Date32" -> {"giorni"} [] t = "Date64" -> {"ms"}
                          [] t \in DOMAIN Timestamp -> {Timestamp[t]} [] OTHER -> {}
RECURSIVE Domini(_)
Domini(e) ==
    CASE e.n = "column" -> IF e.name \in DOMAIN Tipi THEN dominio_temporale(Tipi[e.name]) ELSE {}
      [] Sorgente(e)    -> {}
      [] OTHER          -> UNION {Domini(f) : f \in ToSet(figli(e))}
verifica_domini_temporali(e) == Cardinality(Domini(e)) <= 1

\* interpreter.rs audit, without its bounds on depth and width: the arguments a
\* function takes, the unit of a truncation, the list of `in`.
RECURSIVE audit(_)
audit(e) ==
    CASE e.n = "list" \/ e.n = "unit" -> FALSE
      [] e.n = "function" ->
           /\ ArietaGiusta(e.name, e.args)
           /\ e.name = "date_trunc" => e.args[1].n = "unit"
           /\ e.name = "in" => e.args[2].n = "list"
           /\ \A i \in DOMAIN e.args : <<e.name, i>> \in {<<"date_trunc", 1>>, <<"in", 2>>} \/ audit(e.args[i])
      [] e.n = "case" -> e.branches # <<>> /\ \A f \in ToSet(figli(e)) : audit(f)
      [] OTHER -> \A f \in ToSet(figli(e)) : audit(f)

\* The literals an evaluation would refuse, where it can reach them: a pattern that
\* does not compile, a negative index.
LetteraleAmmesso(e) ==
    LET SempreNull(i) == IF i \in DOMAIN e.args THEN infer(e.args[i]) = {} ELSE TRUE
        L(i) == e.args[i].n = "literal"
    IN  CASE e.name = "regex_replace" ->
               L(2) /\ e.args[2].value.k = "Text" /\ ~ SempreNull(1) /\ ~ SempreNull(3)
                 => regex_valida(e.args[2].value.v)
          [] e.name = "substring" ->
               \A i \in 2 .. Len(e.args) :
                   (\A prima \in 1 .. i - 1 : ~ SempreNull(prima)) /\ L(i)
                     => ~ Fallito(substring_index(e.args[i].value))
          [] OTHER -> TRUE
verifica_letterali(e) == \A x \in Nodi(e) : x.n = "function" => LetteraleAmmesso(x)

static_output_kind(c) ==
    IF verifica_accessi_geometrici(c.expression) /\ verifica_domini_temporali(c.expression)
      THEN resolve_output(infer(c.expression), c.output_type) ELSE "rifiuto"
analyze_expression(c) ==
    IF audit(c.expression) /\ verifica_parametri(c) /\ verifica_letterali(c.expression)
      THEN static_output_kind(c) ELSE "rifiuto"

-----------------------------------------------------------------------------
(***************************************************************************)
(* table.expression (kernels-table/src/expressions): the recursive         *)
(* interpreter.                                                            *)
(*                                                                         *)
(* A row gives every column a cell: null, or its value v.  An evaluation   *)
(* also says whether a division by zero became null on the way (field z):  *)
(* that is the mark of the row in Contesto.                                *)
(***************************************************************************)

Con(s, z) == [k |-> s.k, v |-> s.v, z |-> z]
Valore(r) == [k |-> r.k, v |-> r.v]

\* scalar_as_numero: the value a numeric cell computes with and the exact one.
Esatto(t, cella) == IF t \in Temporali THEN Mezzi(cella.v[1]) ELSE cella.v[1]
scalar_as_f64_rounded(t, cella) == IF t = "Float64" THEN cella.v[1] ELSE Tondo(Esatto(t, cella))
finite_number(valore, esatto) == IF is_finite(valore) THEN Numero(valore, esatto) ELSE Errore("non_finite_input")
numero_della_cella(t, cella) == finite_number(scalar_as_f64_rounded(t, cella), Esatto(t, cella))
\* The text of a dictionary cell is the entry it names; other types have a text too.
scalar_as_string(t, cella) == IF t \in {"Utf8", "Dictionary"} THEN cella.v ELSE <<Cifra + cella.v[1]>>

\* Contesto::dividi
dividi(s, z, politica) ==
    IF s.k = "division_by_zero" /\ politica # "error" THEN Con(Null, TRUE) ELSE Con(s, z)

-----------------------------------------------------------------------------
(* The interpreter *)

column(nome, riga) ==
    LET t == Tipi[nome]
    IN  CASE nome \notin DOMAIN Tipi -> Errore("dato")
          [] riga[nome].nullo        -> Null
          [] t = "Boolean"           -> Booleano(riga[nome].v[1] = 1)
          [] t \in Numerici          -> numero_della_cella(t, riga[nome])
          [] OTHER                   -> Testo(scalar_as_string(t, riga[nome]))

RECURSIVE date_trunc_generic(_, _)
eval_temporal(e, riga) ==
    CASE e.n = "column" ->
           LET t == Tipi[e.name]
           IN  CASE t \notin {"Date32"} \cup (DOMAIN Timestamp \ {"UtcTz"}) -> Errore("tipo")
                 [] riga[e.name].nullo -> Null
                 [] t = "Date32"       -> Data(riga[e.name].v[1])
                 [] OTHER              -> millisecondi_per_difetto(riga[e.name].v[1], Timestamp[t])
      [] Sorgente(e) -> date_trunc_generic(e.args, riga)
      [] e.n = "literal" /\ e.value = Null -> Null
      [] OTHER -> Errore("piano")
date_trunc_generic(args, riga) ==
    IF args[1].n # "unit" THEN Errore("piano") ELSE TroncaScalare(eval_temporal(args[2], riga), args[1].value)

\* The first element that makes the test decides, in the order of the list.
Cerca(valore, voci) ==
    LET esiti == [i \in DOMAIN voci |-> Decide(compare(valore, voci[i]), {0})]
        decisi == {i \in DOMAIN voci : Fallito(esiti[i]) \/ Vero(esiti[i])}
    IN  IF decisi = {} THEN Booleano(FALSE) ELSE esiti[Min(decisi)]

\* A pattern that does not compile is the plan's fault when it is a literal.
ColpaDelPiano(s, e) ==
    IF s.k = "invalid_regex" /\ e.args[2].n = "literal" THEN Errore("regex") ELSE s

\* Contesto::verifica_pattern, where the pattern would be compiled.
verifica_pattern(p) == Len(p) <= max_regex_bytes
PatternLungo(args) == (\A i \in DOMAIN args : args[i].k = "Text") /\ ~ verifica_pattern(args[2].v)

RECURSIVE evaluate(_, _, _)
\* The values of several trees in order, up to the first that fails.
Valuta(args, riga, politica) ==
    LET r == [i \in DOMAIN args |-> evaluate(args[i], riga, politica)]
        falliti == {i \in DOMAIN args : Fallito(r[i])}
    IN  [ errore |-> IF falliti = {} THEN Null ELSE Valore(r[Min(falliti)]),
          valori |-> [i \in DOMAIN args |-> Valore(r[i])], z |-> \E i \in DOMAIN args : r[i].z ]
evaluate(e, riga, politica) ==
    CASE e.n = "column"  -> Con(column(e.name, riga), FALSE)
      [] e.n = "literal" -> Con(e.value, FALSE)
      [] e.n = "unary" ->
           IF SoloNull(e) /\ Tipi[e.value.name] = Geometria
             THEN Con(Booleano(riga[e.value.name].nullo <=> e.op = "is_null"), FALSE)
             ELSE LET r == evaluate(e.value, riga, politica)
                  IN  IF Fallito(r) THEN r ELSE Con(unary(e.op, Valore(r)), r.z)
      [] e.n = "binary" ->
           LET a == Valuta(<<e.left, e.right>>, riga, politica)
               s == binary(e.op, a.valori[1], a.valori[2])
           IN  IF Fallito(a.errore) THEN Con(a.errore, a.z)
               ELSE IF e.op = "divide" THEN dividi(s, a.z, politica) ELSE Con(s, a.z)
      [] e.n = "function" /\ e.name = "date_trunc" -> Con(date_trunc_generic(e.args, riga), FALSE)
      [] e.n = "function" /\ e.name = "in" ->
           LET r == evaluate(e.args[1], riga, politica)
           IN  IF Fallito(r) \/ Valore(r) = Null THEN r ELSE Con(Cerca(Valore(r), e.args[2].items), r.z)
      [] e.n = "function" ->
           LET a == Valuta(e.args, riga, politica)
               s == ColpaDelPiano(function(e.name, a.valori), e)
           IN  CASE Fallito(a.errore) -> Con(a.errore, a.z)
                 [] e.name = "regex_replace" /\ PatternLungo(a.valori) -> Con(Errore("limite"), a.z)
                 [] OTHER -> Con(verifica_testo(s), a.z)
      [] e.n = "case" ->
           LET r == [i \in DOMAIN e.branches |-> evaluate(e.branches[i].when, riga, politica)]
               C(i) == Richiede("Boolean", Valore(r[i]))
               fermi == {i \in DOMAIN r : Fallito(r[i]) \/ Fallito(C(i)) \/ Vero(C(i))}
               f == IF fermi = {} THEN Len(r) ELSE Min(fermi)
               scelto == IF fermi = {} THEN e.else_value ELSE e.branches[f].then
               z == \E i \in 1 .. f : r[i].z
           IN  IF fermi # {} /\ ~ Vero(C(f)) THEN Con(IF Fallito(r[f]) THEN Valore(r[f]) ELSE C(f), z)
               ELSE LET t == evaluate(scelto, riga, politica) IN Con(Valore(t), z \/ t.z)

-----------------------------------------------------------------------------
(* A batch: the same loop around the interpreter and the program *)

\* A column holds the double of a number.
Pubblicata(s) == IF s.k = "Number" THEN Doppio(s.v[1]) ELSE s
\* Mutant of Celle: the first value of the batch chooses the type of its column.
Celle_delLotto(esiti, kind) ==
    LET primi == {i \in DOMAIN esiti : esiti[i].k # "Null"}
        tipo == IF primi = {} THEN kind ELSE esiti[Min(primi)].k
    IN  [i \in DOMAIN esiti |-> Pubblicata(Richiede(tipo, Valore(esiti[i])))]

\* The cells of the column, each required to be of the type the schema decided.
Celle(esiti, kind) == [i \in DOMAIN esiti |-> Pubblicata(Richiede(kind, Valore(esiti[i])))]
\* The rows are evaluated in order: a failure that is not of the row ends the step,
\* the others are collected and refuse the batch; the divisions by zero that became
\* null are counted once per row, unless the row fails.
Batch(esiti, kind) ==
    LET fatali == {i \in DOMAIN esiti : esiti[i].k \in Fatali}
        rifiuti == {i \in DOMAIN esiti : esiti[i].k \in DiRiga}
        uscita == Celle(esiti, kind)
        diversi == {i \in DOMAIN esiti : Fallito(uscita[i])}
        Fine(esito, causa) == [esito |-> esito, causa |-> causa, colonna |-> <<>>, zeri |-> 0]
    IN  CASE fatali # {}  -> Fine("errore", esiti[Min(fatali)].k)
          [] rifiuti # {} -> [Fine("rifiutate", "") EXCEPT !.colonna = [i \in DOMAIN esiti |-> Errore(esiti[i].k)]]
          [] diversi # {} -> Fine("errore", "uscita")
          [] OTHER        -> [ esito |-> "ok", causa |-> "", colonna |-> uscita,
                               zeri |-> Cardinality({i \in DOMAIN esiti : esiti[i].z}) ]
expression_generic_kind(c, righe, kind) ==
    Batch([i \in DOMAIN righe |-> evaluate(c.expression, righe[i], c.politica)], kind)

-----------------------------------------------------------------------------
(***************************************************************************)
(* table.formula (kernels-table/src/formula.rs): the recursive evaluation  *)
(* of the parsed formula, and the postfix program it is compiled to, with  *)
(* a stack of numbers or, where a text may come, a stack of values.        *)
(*                                                                         *)
(* The tree has the nodes "number", "text", "column", "neg" and "op".      *)
(* Only Int64 and Float64 columns are numbers, every other one is a text;  *)
(* a NaN of a column goes through, unlike in table.expression.             *)
(***************************************************************************)

NumeriDellaFormula == {"Int64", "Float64"}

\* A result of finite operands is finite.
risultato_finito(left, right, value) ==
    IF is_finite(value) \/ ~ is_finite(left) \/ ~ is_finite(right) THEN Doppio(value)
    ELSE Errore("non_finite_result")
Operazione(op, left, right) ==
    IF op = "divide" /\ right = 0 THEN Errore("division_by_zero")
    ELSE risultato_finito(left, right, Calcolo(op, left, right))
Opposto(x) == IF is_finite(x) THEN -x ELSE x
display(s) == IF s.k = "Number" THEN <<Cifra + s.v[1]>> ELSE s.v

-----------------------------------------------------------------------------
(* What the schema decides *)

figli_formula(e) ==
    CASE e.n = "neg" -> <<e.value>> [] e.n = "op" -> <<e.left, e.right>> [] OTHER -> <<>>
RECURSIVE NodiFormula(_)
NodiFormula(e) == {e} \cup UNION {NodiFormula(f) : f \in ToSet(figli_formula(e))}
Divisioni(e) == {x \in NodiFormula(e) : x.n = "op" /\ x.op = "divide"}
RECURSIVE zero_letterale(_)
zero_letterale(e) == (e.n = "number" /\ e.value = 0) \/ (e.n = "neg" /\ zero_letterale(e.value))
verifica_divisione(c) ==
    /\ c.politica # "" => Divisioni(c.formula) # {}
    /\ \A x \in Divisioni(c.formula) : ~ zero_letterale(x.right)

column_formula_type(nome) ==
    CASE nome \notin DOMAIN Tipi \/ Tipi[nome] = Geometria -> "rifiuto"
      [] Tipi[nome] \in NumeriDellaFormula   -> "Number"
      [] Tipi[nome] \notin text_convertible  -> "rifiuto"
      [] OTHER                               -> "Text"
RECURSIVE infer_expr_type(_)
infer_expr_type(e) ==
    CASE e.n = "number" -> "Number"
      [] e.n = "text"   -> "Text"
      [] e.n = "column" -> column_formula_type(e.name)
      [] e.n = "neg"    -> IF infer_expr_type(e.value) = "Number" THEN "Number" ELSE "rifiuto"
      [] e.n = "op"     ->
           LET due == {infer_expr_type(e.left), infer_expr_type(e.right)}
           IN  CASE "rifiuto" \in due -> "rifiuto"
                 [] due = {"Number"}  -> "Number"
                 [] OTHER             -> IF e.op = "add" THEN "Text" ELSE "rifiuto"
analyze_formula(c) == IF verifica_divisione(c) THEN infer_expr_type(c.formula) ELSE "rifiuto"

-----------------------------------------------------------------------------
(* The recursive evaluation *)

CellaDiFormula(nome, riga) ==
    LET t == Tipi[nome]
    IN  CASE riga[nome].nullo          -> Null
          [] t \in NumeriDellaFormula  -> Doppio(scalar_as_f64_rounded(t, riga[nome]))
          [] OTHER                     -> Testo(scalar_as_string(t, riga[nome]))
RECURSIVE evaluate_formula(_, _)
evaluate_formula(e, riga) ==
    CASE e.n = "number" -> Doppio(e.value)
      [] e.n = "text"   -> Testo(e.value)
      [] e.n = "column" -> CellaDiFormula(e.name, riga)
      [] e.n = "neg"    ->
           LET s == evaluate_formula(e.value, riga)
           IN  CASE s.k = "Number" -> Doppio(Opposto(s.v[1]))
                 [] s.k = "Text"   -> Errore("tipo")
                 [] OTHER          -> s
      [] e.n = "op"     ->
           LET l == evaluate_formula(e.left, riga)
               r == evaluate_formula(e.right, riga)
           IN  CASE Fallito(l) -> l
                 [] Fallito(r) -> r
                 [] l = Null \/ r = Null -> Null
                 [] l.k = "Number" /\ r.k = "Number" -> Operazione(e.op, l.v[1], r.v[1])
                 [] e.op = "add" -> Testo(display(l) \o display(r))
                 [] OTHER -> Errore("tipo")

-----------------------------------------------------------------------------
(* The postfix program *)

CompilaIn == {"Int64", "Float64", "Utf8"}
\* The code of a tree; ok is FALSE where a column has no reader, numeric where a
\* text may come.
RECURSIVE emit(_)
emit(e) ==
    CASE e.n = "number" -> [ok |-> TRUE, ops |-> <<e>>, numeric |-> TRUE]
      [] e.n = "text"   -> [ok |-> TRUE, ops |-> <<e>>, numeric |-> FALSE]
      [] e.n = "column" -> [ok |-> Tipi[e.name] \in CompilaIn, ops |-> <<e>>,
                            numeric |-> Tipi[e.name] \in NumeriDellaFormula]
      [] e.n = "neg"    -> LET x == emit(e.value) IN [x EXCEPT !.ops = Append(@, [n |-> "neg"])]
      [] e.n = "op"     ->
           LET l == emit(e.left)
               r == emit(e.right)
           IN  [ ok |-> l.ok /\ r.ok, ops |-> l.ops \o r.ops \o <<[n |-> "op", op |-> e.op]>>,
                 numeric |-> l.numeric /\ r.numeric ]

\* A stack with the failure that stopped the row, if any.
Pila(stack) == [stack |-> stack, errore |-> Null]
Rotta(causa) == [stack |-> <<>>, errore |-> Errore(causa)]
Sotto(stack, n) == SubSeq(stack, 1, Len(stack) - n)
\* The end of a row's run: exactly one value must be left on the stack.
Finale(pila) == IF ~Fallito(pila.errore) /\ Len(pila.stack) # 1 THEN Rotta("interno") ELSE pila

\* eval_numeric_row: a null keeps a place in the stack, with a number nobody looks at.
PassoNumerico(stack, op, riga) ==
    LET n == Len(stack)
        nuovo(x) == IF Fallito(x) THEN Rotta(x.k) ELSE Pila(Append(Sotto(stack, 2), <<x.v[1], FALSE>>))
    IN  CASE op.n = "number" -> Pila(Append(stack, <<op.value, FALSE>>))
          [] op.n = "column" ->
               LET c == riga[op.name]
               IN  Pila(Append(stack, IF c.nullo THEN <<0, TRUE>>
                                      ELSE <<scalar_as_f64_rounded(Tipi[op.name], c), FALSE>>))
          [] op.n = "neg" ->
               IF n < 1 THEN Rotta("interno")
               ELSE Pila(Append(Sotto(stack, 1), <<Opposto(stack[n][1]), stack[n][2]>>))
          [] op.n = "op" ->
               CASE n < 2 -> Rotta("interno")
                 [] stack[n][2] \/ stack[n - 1][2] -> Pila(Append(Sotto(stack, 2), <<0, TRUE>>))
                 [] OTHER -> nuovo(Operazione(op.op, stack[n - 1][1], stack[n][1]))
          [] OTHER -> Rotta("interno")
eval_numeric_row(ops, riga) ==
    LET p == Finale(FoldLeft(LAMBDA pila, op : IF Fallito(pila.errore) THEN pila
                                               ELSE PassoNumerico(pila.stack, op, riga),
                             Pila(<<>>), ops))
    IN  IF Fallito(p.errore) THEN p.errore
        ELSE IF p.stack[1][2] THEN Null ELSE Doppio(p.stack[1][1])

binary_slot(op, left, right) ==
    CASE left = Null \/ right = Null -> Null
      [] left.k = "Number" /\ right.k = "Number" -> Operazione(op, left.v[1], right.v[1])
      [] op = "add" -> Testo(display(left) \o display(right))
      [] OTHER -> Errore("tipo")
neg_slot(s) ==
    CASE s.k = "Number" -> Doppio(Opposto(s.v[1])) [] s.k = "Text" -> Errore("tipo") [] OTHER -> s
PassoSlot(stack, op, riga) ==
    LET n == Len(stack)
        Mette(presi, s) == IF Fallito(s) THEN Rotta(s.k) ELSE Pila(Append(Sotto(stack, presi), s))
    IN  CASE op.n = "number" -> Mette(0, Doppio(op.value))
          [] op.n = "text"   -> Mette(0, Testo(op.value))
          [] op.n = "column" -> Mette(0, CellaDiFormula(op.name, riga))
          [] op.n = "neg"    -> IF n < 1 THEN Rotta("interno") ELSE Mette(1, neg_slot(stack[n]))
          [] op.n = "op"     -> IF n < 2 THEN Rotta("interno")
                                ELSE Mette(2, binary_slot(op.op, stack[n - 1], stack[n]))
eval_slot_row(ops, riga) ==
    LET p == Finale(FoldLeft(LAMBDA pila, op : IF Fallito(pila.errore) THEN pila
                                               ELSE PassoSlot(pila.stack, op, riga),
                             Pila(<<>>), ops))
    IN  IF Fallito(p.errore) THEN p.errore ELSE p.stack[1]

-----------------------------------------------------------------------------
(* The batch: a division by zero that the policy makes null makes null the  *)
(* whole row, which is counted                                              *)

EsitoDiRiga(s, politica) == dividi(verifica_testo(s), FALSE, politica)
formula_generic(c, righe, kind) ==
    Batch([i \in DOMAIN righe |-> EsitoDiRiga(evaluate_formula(c.formula, righe[i]), c.politica)], kind)
run_numeric(p, c, righe) ==
    Batch([i \in DOMAIN righe |-> EsitoDiRiga(eval_numeric_row(p.ops, righe[i]), c.politica)], "Number")
run_slots(p, c, righe, kind) ==
    Batch([i \in DOMAIN righe |-> EsitoDiRiga(eval_slot_row(p.ops, righe[i]), c.politica)], kind)
\* A numeric program with a static type of text is a defect of the compiler.
run(p, c, righe, kind) ==
    CASE p.numeric /\ kind # "Number" -> [esito |-> "errore", causa |-> "interno", colonna |-> <<>>, zeri |-> 0]
      [] p.numeric -> run_numeric(p, c, righe)
      [] OTHER     -> run_slots(p, c, righe, kind)
formula_con_effetti(c, righe) ==
    LET kind == analyze_formula(c)
        p == emit(c.formula)
    IN  IF righe # <<>> /\ p.ok THEN run(p, c, righe, kind) ELSE formula_generic(c, righe, kind)
=============================================================================
