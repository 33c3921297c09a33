------------------------------- MODULE Scalari -------------------------------
(***************************************************************************)
(* The values the calculated columns are made of (expressions/scalar.rs,   *)
(* temporal.rs and the functions of interpreter.rs).                       *)
(*                                                                         *)
(* A number keeps two values: the double it computes with and the exact    *)
(* one it compares with.  Doubles are a small floating format counted in   *)
(* halves: every half up to EsattoFino, then one of two, then one of four, *)
(* up to MaxFinito; beyond, not finite.  NonFinito stands for the NaN of a *)
(* column.  A text is a sequence of small characters.  The calendar has    *)
(* short units, all multiples of the finer ones as the real ones are.      *)
(***************************************************************************)
EXTENDS Integers, Sequences, SequencesExt, FiniteSetsExt

CONSTANTS
    EsattoFino,     \* doubles are exact up to here (2^53)
    MaxFinito,      \* the largest finite double
    Migliaio,       \* milliseconds of a second, and each finer unit of the next
    MaxIstante,     \* the largest i64
    DecimaleOltre,  \* one more than the largest Decimal128, no double
    max_string_bytes,
    max_regex_bytes

\* ------------------------------------------------------------- f64 (external)
Mezzi(n) == 2 * n
NonFinito == MaxFinito + 1
MinIstante == -MaxIstante - 1
DecimaleMinimo == -DecimaleOltre
is_finite(x) == x \in -MaxFinito .. MaxFinito
Assoluto(x) == IF x < 0 THEN -x ELSE x
Tondo(n) ==
    LET a == Assoluto(n)
        q == IF a <= EsattoFino THEN 1 ELSE IF a <= 2 * EsattoFino THEN 2 ELSE 4
        giu == a - (a % q)
        t == IF 2 * (a % q) > q \/ (2 * (a % q) = q /\ (giu \div q) % 2 = 1) THEN giu + q ELSE giu
    IN  IF t > MaxFinito THEN NonFinito ELSE IF n < 0 THEN -t ELSE t
Calcolo(op, a, b) ==
    IF ~ (is_finite(a) /\ is_finite(b)) THEN NonFinito
    ELSE CASE op = "add"      -> Tondo(a + b)
           [] op = "subtract" -> Tondo(a - b)
           [] op = "multiply" -> Tondo((a * b) \div 2)
           [] op = "divide"   -> Tondo(IF b < 0 THEN (-2 * a) \div (-b) ELSE (2 * a) \div b)
floor(x) == x - (x % 2)
ceil(x) == -floor(-x)
round(x) == IF x % 2 = 0 THEN x ELSE IF x < 0 THEN x - 1 ELSE x + 1
powf(b, e) == IF e = 0 THEN Mezzi(1) ELSE IF b = 0 THEN (IF e < 0 THEN NonFinito ELSE 0) ELSE Calcolo("multiply", b, b)

\* ----------------------------------------------------------------- the scalars
Null == [k |-> "Null", v |-> <<>>]
Numero(valore, esatto) == [k |-> "Number", v |-> <<valore, esatto>>]
Doppio(x) == Numero(x, x)
Booleano(b) == [k |-> "Boolean", v |-> <<IF b THEN 1 ELSE 0>>]
Testo(s) == [k |-> "Text", v |-> s]
Data(giorni) == [k |-> "Date32", v |-> <<giorni>>]
Istante(ms) == [k |-> "TimestampMs", v |-> <<ms>>]
Vero(s) == s = Booleano(TRUE)

\* A failure: of the row alone, or of the whole step.  "indice" and "regex" are the
\* InvalidPlan of an argument read from the rows and from a literal pattern.
DiRiga == {"division_by_zero", "non_finite_input", "non_finite_result", "invalid_regex"}
Fatali == {"tipo", "piano", "indice", "regex", "dato", "limite", "interno"}
Errore(causa) == [k |-> causa, v |-> <<>>]
Fallito(s) == s.k \in DiRiga \cup Fatali

opposto(n) == IF n.v[2] = DecimaleMinimo THEN Errore("dato") ELSE Numero(-n.v[1], -n.v[2])
assoluto(n) == IF n.v[2] = DecimaleMinimo THEN Errore("dato") ELSE Numero(Assoluto(n.v[1]), Assoluto(n.v[2]))
Finito(x) == IF is_finite(x) THEN Doppio(x) ELSE Errore("non_finite_result")

\* boolean, numero, text: the value of that kind or null, never a conversion.
Richiede(kind, s) == IF s.k \in {"Null", kind} THEN s ELSE Errore("tipo")
\* The first of several requirements that fails, null if a value is null, else f.
SeTutti(kind, args, Valore) ==
    CASE \E i \in DOMAIN args : Fallito(Richiede(kind, args[i])) -> Errore("tipo")
      [] \E i \in DOMAIN args : args[i] = Null -> Null
      [] OTHER -> Valore

\* -1, 0, 1 as an ordering; null with a null.
Segno(a, b) == IF a < b THEN -1 ELSE IF a > b THEN 1 ELSE 0
cmp(s, t) ==
    IF s = t THEN 0
    ELSE LET comune == Min({Len(s), Len(t)})
             diversi == {i \in 1 .. comune : s[i] # t[i]}
         IN  IF diversi = {} THEN Segno(Len(s), Len(t)) ELSE Segno(s[Min(diversi)], t[Min(diversi)])
compare(l, r) ==
    CASE l = Null \/ r = Null -> Null
      [] l.k # r.k            -> Errore("tipo")
      [] l.k = "Number"       -> [k |-> "Ordine", v |-> <<Segno(l.v[2], r.v[2])>>]
      [] OTHER                -> [k |-> "Ordine", v |-> <<cmp(l.v, r.v)>>]
Decide(ordine, ammessi) == IF ordine.k # "Ordine" THEN ordine ELSE Booleano(ordine.v[1] \in ammessi)

arithmetic(op, l, r) ==
    SeTutti("Number", <<l, r>>,
        IF op = "divide" /\ r.v[1] = 0 THEN Errore("division_by_zero")
        ELSE Finito(Calcolo(op, l.v[1], r.v[1])))
logical(op, l, r) ==
    LET decisivo == Booleano(op = "or")
    IN  CASE \E x \in {l, r} : Fallito(Richiede("Boolean", x)) -> Errore("tipo")
          [] decisivo \in {l, r} -> decisivo
          [] Null \in {l, r}     -> Null
          [] OTHER               -> Booleano(op = "and")
Confronti == [ equal |-> {0}, not_equal |-> {-1, 1}, greater |-> {1}, greater_equal |-> {0, 1},
               less |-> {-1}, less_equal |-> {-1, 0} ]
Aritmetici == {"add", "subtract", "multiply", "divide"}
Logici == {"and", "or"}
binary(op, l, r) ==
    CASE op \in Aritmetici -> arithmetic(op, l, r)
      [] op \in Logici     -> logical(op, l, r)
      [] OTHER             -> Decide(compare(l, r), Confronti[op])
unary(op, s) ==
    CASE op = "is_null"     -> Booleano(s = Null)
      [] op = "is_not_null" -> Booleano(s # Null)
      [] op = "not"         -> LET b == Richiede("Boolean", s)
                               IN  IF b.k = "Boolean" THEN Booleano(~ Vero(b)) ELSE b
      [] op = "negate"      -> LET n == Richiede("Number", s) IN IF n.k = "Number" THEN opposto(n) ELSE n

-----------------------------------------------------------------------------
(* The functions of an expression on values already computed, and the       *)
(* truncation of dates (interpreter.rs, temporal.rs).                       *)

\* ------------------------------------------------------------ texts (external)
\* Characters: a space, a small and a capital letter, a parenthesis that makes no
\* pattern, a date in ten bytes; from Cifra on, the text of a number.
Spazio == 0
Minuscola == 1
Maiuscola == 2
Aperta == 3
Giorno == 4
Cifra == 100
AnnoDelTesto == Mezzi(1)
to_lowercase(s) == [i \in DOMAIN s |-> IF s[i] = Maiuscola THEN Minuscola ELSE s[i]]
to_uppercase(s) == [i \in DOMAIN s |-> IF s[i] = Minuscola THEN Maiuscola ELSE s[i]]
trim(s) ==
    LET pieni == {i \in DOMAIN s : s[i] # Spazio}
    IN  IF pieni = {} THEN <<>> ELSE SubSeq(s, Min(pieni), Max(pieni))
contains(s, p) == \E i \in 1 .. Len(s) + 1 : IsPrefix(p, SubSeq(s, i, Len(s)))
regex_valida(p) == Aperta \notin ToSet(p)
\* Every occurrence of a pattern of one character; the other patterns match nothing.
replace_all(s, p, con) ==
    IF Len(p) # 1 THEN s ELSE FlattenSeq([i \in DOMAIN s |-> IF s[i] = p[1] THEN con ELSE <<s[i]>>])

Infinito == 64
\* The arguments a function takes, fewest and most.
arity ==
    [ coalesce |-> <<1, Infinito>>, concat |-> <<1, Infinito>>, greatest |-> <<1, Infinito>>,
      least |-> <<1, Infinito>>, lower |-> <<1, 1>>, upper |-> <<1, 1>>, trim |-> <<1, 1>>,
      length |-> <<1, 1>>, year |-> <<1, 1>>, abs |-> <<1, 1>>, round |-> <<1, 1>>,
      floor |-> <<1, 1>>, ceil |-> <<1, 1>>, null_if |-> <<2, 2>>, contains |-> <<2, 2>>,
      starts_with |-> <<2, 2>>, ends_with |-> <<2, 2>>, power |-> <<2, 2>>, in |-> <<2, 2>>,
      date_trunc |-> <<2, 2>>, substring |-> <<2, 3>>, regex_replace |-> <<3, 3>>, between |-> <<3, 3>> ]
ArietaGiusta(nome, args) == Len(args) \in arity[nome][1] .. arity[nome][2]

substring_index(s) ==
    LET n == Richiede("Number", s)
    IN  IF n.k # "Number" THEN n
        ELSE IF n.v[1] < 0 THEN Errore("indice") ELSE Doppio(n.v[1] \div 2)

\* The index is looked at with the text not null, the length with both.
substring(args) ==
    LET testo == Richiede("Text", args[1])
        start == substring_index(args[2])
        len == IF Len(args) = 3 THEN substring_index(args[3]) ELSE Doppio(Len(testo.v))
    IN  CASE testo.k # "Text"   -> testo
          [] start.k # "Number" -> start
          [] len.k # "Number"   -> len
          [] OTHER -> Testo(SubSeq(testo.v, start.v[1] + 1, Min({Len(testo.v), start.v[1] + len.v[1]})))

\* concat stops at the first argument that is null or no text.
concat(args) ==
    LET altri == {i \in DOMAIN args : args[i].k # "Text"}
    IN  IF altri = {} THEN Testo(FlattenSeq([i \in DOMAIN args |-> args[i].v]))
        ELSE Richiede("Text", args[Min(altri)])

\* greatest and least keep the best so far; a null met on the way is the result.
Migliore(args, verso) ==
    FoldLeft(LAMBDA m, s :
                 IF Fallito(m.best) \/ m.chiuso THEN m
                 ELSE LET o == compare(m.best, s)
                      IN  IF o.k # "Ordine" THEN [best |-> o, chiuso |-> TRUE]
                          ELSE IF o.v[1] = verso THEN [m EXCEPT !.best = s] ELSE m,
             [best |-> args[1], chiuso |-> FALSE], Tail(args)).best

TestoInTesto == {"lower", "upper", "trim"}
function(nome, args) ==
    LET A(i) == args[i].v
    IN  CASE ~ ArietaGiusta(nome, args) -> Errore("piano")
          [] nome = "coalesce" ->
               LET pieni == {i \in DOMAIN args : args[i] # Null} IN IF pieni = {} THEN Null ELSE args[Min(pieni)]
          [] nome = "null_if" ->
               LET o == compare(args[1], args[2])
               IN  IF args[1] = Null THEN Null ELSE IF Fallito(o) THEN o
                   ELSE IF o = [k |-> "Ordine", v |-> <<0>>] THEN Null ELSE args[1]
          [] nome \in TestoInTesto \cup {"length", "year"} ->
               SeTutti("Text", args,
                   CASE nome = "lower"  -> Testo(to_lowercase(A(1)))
                     [] nome = "upper"  -> Testo(to_uppercase(A(1)))
                     [] nome = "trim"   -> Testo(trim(A(1)))
                     [] nome = "length" -> Doppio(Mezzi(Len(A(1))))
                     [] nome = "year"   -> IF IsPrefix(<<Giorno>>, A(1)) THEN Doppio(AnnoDelTesto) ELSE Errore("dato"))
          [] nome = "concat" -> concat(args)
          [] nome \in {"contains", "starts_with", "ends_with"} ->
               SeTutti("Text", args,
                   Booleano(CASE nome = "contains"    -> contains(A(1), A(2))
                              [] nome = "starts_with" -> IsPrefix(A(2), A(1))
                              [] nome = "ends_with"   -> IsSuffix(A(2), A(1))))
          [] nome \in {"abs", "round", "floor", "ceil"} ->
               SeTutti("Number", args,
                   CASE nome = "abs"   -> assoluto(args[1])
                     [] nome = "round" -> Doppio(round(A(1)[1]))
                     [] nome = "floor" -> Doppio(floor(A(1)[1]))
                     [] nome = "ceil"  -> Doppio(ceil(A(1)[1])))
          [] nome = "power" -> SeTutti("Number", args, Finito(powf(A(1)[1], A(2)[1])))
          [] nome = "substring" -> substring(args)
          [] nome = "regex_replace" ->
               SeTutti("Text", args,
                   IF regex_valida(A(2)) THEN Testo(replace_all(A(1), A(2), A(3))) ELSE Errore("invalid_regex"))
          [] nome = "between" ->
               LET basso == Decide(compare(args[1], args[2]), {0, 1})
                   alto == Decide(compare(args[1], args[3]), {-1, 0})
               IN  IF Null \in ToSet(args) THEN Null
                   ELSE IF Fallito(basso) THEN basso ELSE IF Fallito(alto) THEN alto
                   ELSE Booleano(Vero(basso) /\ Vero(alto))
          [] nome \in {"greatest", "least"} -> Migliore(args, IF nome = "greatest" THEN -1 ELSE 1)
          [] OTHER -> Errore("interno")

\* Contesto::verifica_testo, on a text a function has made.
verifica_testo(s) == IF s.k = "Text" /\ Len(s.v) > max_string_bytes THEN Errore("limite") ELSE s

-----------------------------------------------------------------------------
(* Dates.  Units finer than a day do not truncate a date; a second is the   *)
(* finest unit of all.                                                      *)

SottoIlGiorno == {"hour", "minute", "second"}
Unita == {"year", "month", "day"} \cup SottoIlGiorno
\* The lengths of the calendar of chrono, each twice the one before.
Giorni == [day |-> 1, month |-> 2, year |-> 4]
Millisecondi ==
    [ second |-> Migliaio, minute |-> 2 * Migliaio, hour |-> 4 * Migliaio,
      day |-> 8 * Migliaio, month |-> 16 * Migliaio, year |-> 32 * Migliaio ]
i64(n) == n \in MinIstante .. MaxIstante
Tronca(n, passo) == n - (n % passo)

trunc_date32_days(giorni, unit) ==
    IF unit \in SottoIlGiorno THEN Errore("piano") ELSE Data(Tronca(giorni, Giorni[unit]))
trunc_timestamp_ms_value(ms, unit) ==
    LET t == Tronca(ms, Millisecondi[unit]) IN IF i64(t) THEN Istante(t) ELSE Errore("dato")
\* The native value in milliseconds, rounded down; seconds may leave the range.
millisecondi_per_difetto(valore, unita) ==
    CASE unita = "s"  -> IF i64(valore * Migliaio) THEN Istante(valore * Migliaio) ELSE Errore("dato")
      [] unita = "ms" -> Istante(valore)
      [] unita = "us" -> Istante(valore \div Migliaio)
      [] unita = "ns" -> Istante(valore \div (Migliaio * Migliaio))
TroncaScalare(s, unit) ==
    CASE s.k = "Date32"      -> trunc_date32_days(s.v[1], unit)
      [] s.k = "TimestampMs" -> trunc_timestamp_ms_value(s.v[1], unit)
      [] s = Null \/ Fallito(s) -> s
      [] OTHER               -> Errore("interno")
=============================================================================
