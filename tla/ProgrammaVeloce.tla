--------------------------- MODULE ProgrammaVeloce ---------------------------
(***************************************************************************)
(* The program table.expression compiles a tree to when the batch has rows *)
(* (expressions/fast.rs): columns and literals resolved once, what cannot  *)
(* be resolved kept as a failure that only an evaluation of the node       *)
(* raises.  It has operations of its own, meant to give the values, the    *)
(* failures and the count of divisions by zero of the interpreter.         *)
(***************************************************************************)
EXTENDS Espressioni

-----------------------------------------------------------------------------
(* The operations on values *)

fast_compare(l, r) ==
    IF Null \in {l, r} THEN Null
    ELSE IF l.k # r.k THEN Errore("tipo")
    ELSE [k |-> "Ordine", v |-> <<IF l.k = "Number" THEN Segno(l.v[2], r.v[2]) ELSE cmp(l.v, r.v)>>]
fast_arithmetic(op, l, r) ==
    CASE \E x \in {l, r} : x.k \notin {"Null", "Number"} -> Errore("tipo")
      [] Null \in {l, r} -> Null
      [] op = "divide" /\ r.v[1] = 0 -> Errore("division_by_zero")
      [] OTHER -> LET x == Calcolo(op, l.v[1], r.v[1])
                  IN  IF is_finite(x) THEN Doppio(x) ELSE Errore("non_finite_result")
fast_logical(op, l, r) ==
    CASE \E x \in {l, r} : x.k \notin {"Null", "Boolean"} -> Errore("tipo")
      [] op = "and" -> IF Booleano(FALSE) \in {l, r} THEN Booleano(FALSE)
                       ELSE IF Null \in {l, r} THEN Null ELSE Booleano(TRUE)
      [] op = "or"  -> IF Booleano(TRUE) \in {l, r} THEN Booleano(TRUE)
                       ELSE IF Null \in {l, r} THEN Null ELSE Booleano(FALSE)
fast_binary(op, l, r) ==
    LET o == fast_compare(l, r)
        Vale(p) == IF o.k = "Ordine" THEN Booleano(p) ELSE o
    IN  CASE op \in Aritmetici -> fast_arithmetic(op, l, r)
          [] op \in Logici     -> fast_logical(op, l, r)
          [] op = "equal"         -> Vale(o.v[1] = 0)
          [] op = "not_equal"     -> Vale(o.v[1] # 0)
          [] op = "greater"       -> Vale(o.v[1] = 1)
          [] op = "greater_equal" -> Vale(o.v[1] # -1)
          [] op = "less"          -> Vale(o.v[1] = -1)
          [] op = "less_equal"    -> Vale(o.v[1] # 1)
fast_unary(op, s) ==
    CASE op = "is_null"     -> Booleano(s = Null)
      [] op = "is_not_null" -> Booleano(s # Null)
      [] op = "not"    -> CASE s = Null -> Null [] s.k = "Boolean" -> Booleano(s.v[1] = 0) [] OTHER -> Errore("tipo")
      [] op = "negate" -> CASE s = Null -> Null [] s.k = "Number" -> opposto(s) [] OTHER -> Errore("tipo")

fast_substring_index(s) ==
    CASE s = Null          -> Null
      [] s.k # "Number"    -> Errore("tipo")
      [] s.v[1] < 0        -> Errore("indice")
      [] OTHER             -> [k |-> "Indice", v |-> <<s.v[1] \div 2>>]
fast_substring(args) ==
    LET da == fast_substring_index(args[2])
        lungo == IF Len(args) = 2 THEN [k |-> "Indice", v |-> <<Len(args[1].v)>>] ELSE fast_substring_index(args[3])
    IN  CASE args[1] = Null       -> Null
          [] args[1].k # "Text"   -> Errore("tipo")
          [] da.k # "Indice"      -> da
          [] lungo.k # "Indice"   -> lungo
          [] OTHER -> Testo(SubSeq(args[1].v, da.v[1] + 1, Min({da.v[1] + lungo.v[1], Len(args[1].v)})))
\* The arguments in order, until one is null or no text.
fast_concat(args) ==
    FoldLeft(LAMBDA s, x : CASE s.k # "Text" -> s [] x.k = "Text" -> Testo(s.v \o x.v)
                             [] x = Null -> Null [] OTHER -> Errore("tipo"), Testo(<<>>), args)
fast_best(args, verso) ==
    FoldLeft(LAMBDA c, x :
                 LET o == fast_compare(c.best, x)
                 IN  CASE c.fine -> c
                       [] o.k # "Ordine" -> [fine |-> TRUE, best |-> o]
                       [] OTHER -> IF o.v[1] = verso THEN [c EXCEPT !.best = x] ELSE c,
             [fine |-> FALSE, best |-> Head(args)], Tail(args)).best
\* The functions with nodes of their own are not among these.
fast_function(nome, args) ==
    LET a == args[1]
        Tipo(kind, s) == IF \E i \in DOMAIN args : args[i].k \notin {"Null", kind} THEN Errore("tipo")
                         ELSE IF Null \in ToSet(args) THEN Null ELSE s
    IN  CASE ~ ArietaGiusta(nome, args) -> Errore("piano")
          [] nome = "coalesce" -> IF ToSet(args) = {Null} THEN Null ELSE Head(SelectSeq(args, LAMBDA s : s # Null))
          [] nome = "null_if" ->
               LET o == fast_compare(a, args[2])
               IN  CASE a = Null -> a [] Fallito(o) -> o
                     [] OTHER -> IF o.k = "Ordine" /\ o.v = <<0>> THEN Null ELSE a
          [] nome = "lower"  -> Tipo("Text", Testo(to_lowercase(a.v)))
          [] nome = "upper"  -> Tipo("Text", Testo(to_uppercase(a.v)))
          [] nome = "trim"   -> Tipo("Text", Testo(trim(a.v)))
          [] nome = "length" -> Tipo("Text", Doppio(Mezzi(Len(a.v))))
          [] nome = "year"   -> Tipo("Text", IF IsPrefix(<<Giorno>>, a.v) THEN Doppio(AnnoDelTesto) ELSE Errore("dato"))
          [] nome = "concat" -> fast_concat(args)
          [] nome = "contains"    -> Tipo("Text", Booleano(contains(a.v, args[2].v)))
          [] nome = "starts_with" -> Tipo("Text", Booleano(IsPrefix(args[2].v, a.v)))
          [] nome = "ends_with"   -> Tipo("Text", Booleano(IsSuffix(args[2].v, a.v)))
          [] nome = "abs"    -> Tipo("Number", assoluto(a))
          [] nome = "round"  -> Tipo("Number", Doppio(round(a.v[1])))
          [] nome = "floor"  -> Tipo("Number", Doppio(floor(a.v[1])))
          [] nome = "ceil"   -> Tipo("Number", Doppio(ceil(a.v[1])))
          [] nome = "power"  -> Tipo("Number", LET x == powf(a.v[1], args[2].v[1])
                                               IN  IF is_finite(x) THEN Doppio(x) ELSE Errore("non_finite_result"))
          [] nome = "substring" -> fast_substring(args)
          [] nome = "between" ->
               LET low == fast_compare(a, args[2])
                   high == fast_compare(a, args[3])
               IN  CASE Null \in ToSet(args) -> Null [] Fallito(low) -> low [] Fallito(high) -> high
                     [] OTHER -> Booleano(low.v[1] # -1 /\ high.v[1] # 1)
          [] nome = "greatest" -> fast_best(args, -1)
          [] nome = "least"    -> fast_best(args, 1)
          [] OTHER -> Errore("interno")

-----------------------------------------------------------------------------
(* Compilation *)

Pigro(causa) == [n |-> "error", causa |-> causa]
FastColumn(nome) ==
    LET t == Tipi[nome]
    IN  [ n |-> "column", nome |-> nome,
          lettore |-> CASE t \in {"Boolean", "Float64", "Int64", "Decimal128", "Date32"} -> t
                        [] t \in Temporali -> "Temporale"
                        [] t = "Utf8" -> "Str"
                        [] OTHER -> "Other" ]
\* Mutant of get: an integer is read as its double, which is then what compares.
get_arrotonda(c, riga) ==
    IF riga[c.nome].nullo THEN Null
    ELSE IF c.lettore \in {"Int64", "Decimal128"} THEN finite_number(Tondo(riga[c.nome].v[1]), Tondo(riga[c.nome].v[1]))
    ELSE column(c.nome, riga)

get(c, riga) ==
    LET cella == riga[c.nome]
        x == cella.v[1]
    IN  CASE cella.nullo -> Null
          [] c.lettore = "Boolean" -> Booleano(x = 1)
          [] c.lettore = "Float64" -> finite_number(x, x)
          [] c.lettore \in {"Int64", "Decimal128"} -> finite_number(Tondo(x), x)
          [] c.lettore \in {"Date32", "Temporale"} -> finite_number(Tondo(Mezzi(x)), Mezzi(x))
          [] c.lettore = "Str" -> Testo(cella.v)
          [] OTHER -> column(c.nome, riga)

RECURSIVE compile_date_trunc(_)
compile_temporal(e) ==
    CASE e.n = "column" ->
           LET t == Tipi[e.name]
           IN  CASE t = "Date32" -> [n |-> "date32", nome |-> e.name]
                 [] t \in DOMAIN Timestamp \ {"UtcTz"} -> [n |-> "timestamp", nome |-> e.name, unita |-> Timestamp[t]]
                 [] OTHER -> Pigro("tipo")
      [] Sorgente(e) -> compile_date_trunc(e.args)
      [] e.n = "literal" /\ e.value = Null -> [n |-> "null"]
      [] OTHER -> Pigro("piano")
compile_date_trunc(args) ==
    IF args[1].n # "unit" THEN Pigro("piano")
    ELSE [n |-> "date_trunc", unit |-> args[1].value, source |-> compile_temporal(args[2])]

RECURSIVE compile_expression(_)
\* A literal pattern is compiled here, once.
compile_regex_replace(args) ==
    [ n |-> "regex_replace", value |-> compile_expression(args[1]), replacement |-> compile_expression(args[3]),
      pattern |-> IF args[2].n = "literal" /\ args[2].value.k = "Text"
                    THEN [n |-> "compiled", valida |-> regex_valida(args[2].value.v), testo |-> args[2].value.v]
                    ELSE compile_expression(args[2]) ]
compile_expression(e) ==
    CASE e.n = "column"  -> IF e.name \in DOMAIN Tipi THEN FastColumn(e.name) ELSE Pigro("dato")
      [] e.n = "literal" -> [n |-> "literal", value |-> e.value]
      [] e.n = "unary" /\ SoloNull(e) /\ Tipi[e.value.name] = Geometria ->
           [n |-> "null_column", nome |-> e.value.name, negate |-> e.op = "is_not_null"]
      [] e.n = "unary"   -> [n |-> "unary", op |-> e.op, value |-> compile_expression(e.value)]
      [] e.n = "binary"  -> [n |-> "binary", op |-> e.op, left |-> compile_expression(e.left),
                             right |-> compile_expression(e.right)]
      [] e.n = "function" /\ e.name = "date_trunc" -> compile_date_trunc(e.args)
      [] e.n = "function" /\ e.name = "in" ->
           [n |-> "in", value |-> compile_expression(e.args[1]), list |-> e.args[2].items]
      [] e.n = "function" /\ e.name = "regex_replace" -> compile_regex_replace(e.args)
      [] e.n = "function" ->
           [n |-> "function", name |-> e.name, args |-> [i \in DOMAIN e.args |-> compile_expression(e.args[i])]]
      [] e.n = "case" ->
           [ n |-> "case", else_value |-> compile_expression(e.else_value),
             branches |-> [i \in DOMAIN e.branches |->
                             <<compile_expression(e.branches[i].when), compile_expression(e.branches[i].then)>>] ]
      [] OTHER -> Pigro("piano")

-----------------------------------------------------------------------------
(* Evaluation *)

\* `in`: one element after the other, until one is equal or does not compare.
fast_in(valore, list) ==
    FoldLeft(LAMBDA s, item :
                 LET o == fast_compare(valore, item)
                 IN  CASE s # Booleano(FALSE) -> s [] Fallito(o) -> o
                       [] OTHER -> Booleano(o = [k |-> "Ordine", v |-> <<0>>]),
             Booleano(FALSE), list)

RECURSIVE evaluate_fast(_, _, _)
EvalDateTrunc(node, riga, politica) ==
    LET s == node.source
    IN  TroncaScalare(
            CASE s.n = "date32"     -> IF riga[s.nome].nullo THEN Null ELSE Data(riga[s.nome].v[1])
              [] s.n = "timestamp"  -> IF riga[s.nome].nullo THEN Null
                                       ELSE millisecondi_per_difetto(riga[s.nome].v[1], s.unita)
              [] s.n = "null"       -> Null
              [] s.n = "error"      -> Errore(s.causa)
              [] s.n = "date_trunc" -> Valore(evaluate_fast(s, riga, politica)), node.unit)
\* Value, pattern and replacement are computed, then required to be texts, then the
\* nulls are looked at; only then the pattern.
EvalRegex(node, riga, politica) ==
    LET v == evaluate_fast(node.value, riga, politica)
        fisso == node.pattern.n = "compiled"
        p == IF fisso THEN Con(Testo(node.pattern.testo), FALSE) ELSE evaluate_fast(node.pattern, riga, politica)
        r == evaluate_fast(node.replacement, riga, politica)
        valida == IF fisso THEN node.pattern.valida ELSE regex_valida(p.v)
        s == SeTutti("Text", <<Valore(v), Valore(p), Valore(r)>>,
                 IF ~ fisso /\ ~ verifica_pattern(p.v) THEN Errore("limite")
                 ELSE IF ~ valida THEN Errore(IF fisso THEN "regex" ELSE "invalid_regex")
                 ELSE verifica_testo(Testo(replace_all(v.v, p.v, r.v))))
    IN  CASE Fallito(v) -> v [] Fallito(p) -> p [] Fallito(r) -> r [] OTHER -> Con(s, v.z \/ p.z \/ r.z)
EvalCase(node, riga, politica) ==
    FoldLeft(LAMBDA c, ramo :
                 IF c.chiuso THEN c
                 ELSE LET w == evaluate_fast(ramo[1], riga, politica)
                          b == Richiede("Boolean", Valore(w))
                          z == c.r.z \/ w.z
                      IN  CASE Fallito(w) -> [r |-> w, chiuso |-> TRUE]
                            [] Fallito(b) -> [r |-> Con(b, z), chiuso |-> TRUE]
                            [] Vero(b) -> LET t == evaluate_fast(ramo[2], riga, politica)
                                          IN  [r |-> Con(t, z \/ t.z), chiuso |-> TRUE]
                            [] OTHER -> [r |-> Con(Null, z), chiuso |-> FALSE],
             [r |-> Con(Null, FALSE), chiuso |-> FALSE], node.branches)
evaluate_fast(node, riga, politica) ==
    CASE node.n = "literal"     -> Con(node.value, FALSE)
      [] node.n = "column"      -> Con(get(node, riga), FALSE)
      [] node.n = "null_column" -> Con(Booleano(riga[node.nome].nullo # node.negate), FALSE)
      [] node.n = "error"       -> Con(Errore(node.causa), FALSE)
      [] node.n = "unary"       ->
           LET r == evaluate_fast(node.value, riga, politica)
           IN  IF Fallito(r) THEN r ELSE Con(fast_unary(node.op, Valore(r)), r.z)
      [] node.n = "binary"      ->
           LET l == evaluate_fast(node.left, riga, politica)
               r == evaluate_fast(node.right, riga, politica)
               s == fast_binary(node.op, Valore(l), Valore(r))
           IN  CASE Fallito(l) -> l [] Fallito(r) -> r
                 [] node.op = "divide" -> dividi(s, l.z \/ r.z, politica)
                 [] OTHER -> Con(s, l.z \/ r.z)
      [] node.n = "function"    ->
           LET r == [i \in DOMAIN node.args |-> evaluate_fast(node.args[i], riga, politica)]
               falliti == {i \in DOMAIN r : Fallito(r[i])}
           IN  IF falliti # {} THEN r[Min(falliti)]
               ELSE Con(verifica_testo(fast_function(node.name, [i \in DOMAIN r |-> Valore(r[i])])),
                        \E i \in DOMAIN r : r[i].z)
      [] node.n = "case"        ->
           LET c == EvalCase(node, riga, politica)
               t == evaluate_fast(node.else_value, riga, politica)
           IN  IF c.chiuso THEN c.r ELSE Con(t, c.r.z \/ t.z)
      [] node.n = "date_trunc"  -> Con(EvalDateTrunc(node, riga, politica), FALSE)
      [] node.n = "in"          ->
           LET r == evaluate_fast(node.value, riga, politica)
           IN  IF Fallito(r) \/ Valore(r) = Null THEN r ELSE Con(fast_in(Valore(r), node.list), r.z)
      [] node.n = "regex_replace" -> EvalRegex(node, riga, politica)

FastProgram_run(c, righe, kind) ==
    LET root == compile_expression(c.expression)
    IN  Batch([i \in DOMAIN righe |-> evaluate_fast(root, righe[i], c.politica)], kind)
expression_con_effetti(c, righe) ==
    LET kind == static_output_kind(c)
    IN  IF righe = <<>> THEN expression_generic_kind(c, righe, kind) ELSE FastProgram_run(c, righe, kind)
=============================================================================
