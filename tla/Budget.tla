------------------------------- MODULE Budget -------------------------------
(***************************************************************************)
(* The prediction of the peak of a step (plenora-pipeline: budget.rs, and  *)
(* the quantities of esecuzione.rs): integer arithmetic of two widths,     *)
(* checked or saturating, rounded up term by term.                         *)
(***************************************************************************)
EXTENDS Integers, Sequences

CONSTANTS
    Bit,            \* width of the narrow type, 64 in the build; the wide one is double
    Mille,          \* denominator of the coefficients, 1000 in the build
    Numeratore,     \* FATTORE_SICUREZZA
    Denominatore

ASSUME BudgetAssunto ==
    /\ {Bit, Mille, Numeratore, Denominatore} \subseteq Nat \ {0}
    /\ Bit >= 2 /\ Mille >= 4 /\ Denominatore < 2 ^ Bit

MaxStretto == 2 ^ Bit - 1
MaxLargo == 2 ^ Bit * 2 ^ Bit - 1

Maggiore(x, y) == IF x >= y THEN x ELSE y
Satura(x, massimo) == IF x > massimo THEN massimo ELSE x
div_ceil(x, y) == (x + y - 1) \div y

-----------------------------------------------------------------------------
(* budget.rs *)

per_unita_perDifetto(millesimi, unita) == (millesimi * unita) \div Mille
per_unita(millesimi, unita) == div_ceil(millesimi * unita, Mille)

base(c, g) ==
    c.a
    + Maggiore(Maggiore(per_unita(c.r, g.righe) + per_unita(c.c, g.byte),
                        per_unita(c.r_stretta, g.righe)),
               per_unita(c.c_larga, g.byte))
    + per_unita(c.k, g.celle)
    + per_unita(c.p, g.coppie)

picco(c, g) ==
    Satura(div_ceil(Satura(base(c, g) * Numeratore, MaxLargo), Denominatore), MaxStretto)

-----------------------------------------------------------------------------
(* The quantities of a step *)

\* Rows of one or two inputs.
somma(righe_in) ==
    Satura(IF Len(righe_in) = 1 THEN righe_in[1] ELSE righe_in[1] + righe_in[2], MaxStretto)

coppie(righe_in) ==
    IF Len(righe_in) = 2 THEN Satura(righe_in[1] * righe_in[2], MaxStretto) ELSE 0

\* The bytes: the larger of what is kept alive and what a copy takes.
byte_ingresso(vivi, copia) == Maggiore(vivi, Satura(copia, MaxStretto))

ingresso_del_passo(righe_in, previste, colonne, byte) ==
    LET righe == Maggiore(somma(righe_in), previste)
    IN [righe  |-> righe,
        byte   |-> byte,
        coppie |-> coppie(righe_in),
        celle  |-> Satura(righe * colonne, MaxStretto)]

=============================================================================
