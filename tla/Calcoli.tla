------------------------------ MODULE Calcoli ------------------------------
(***************************************************************************)
(* The calculations of the runner that keep no state, one call each: the   *)
(* expansion limit and the prediction of a peak against exact rationals,   *)
(* and what validate computes step by step (depth of the plan, provenance  *)
(* of the rows) against its definition on the whole graph.                 *)
(***************************************************************************)
EXTENDS Piano, Espansione, Budget

CONSTANTS
    MaxMantissa,
    MaxEsponente,
    Coefficienti,   \* the coefficients of a cost
    Quantita,       \* rows, columns and bytes of a step
    Ingressi,       \* the inputs a plan may have: sequences of names
    Uscite,         \* the names its steps define, in order
    MaxPassi        \* bound: steps of a plan

\* The domain limits.rs states for its comparison: a sum of two counts times a mantissa
\* stays in the wide type (2^65 * 2^53 in u128).
ASSUME DominioAssunto ==
    /\ {MaxMantissa, MaxEsponente} \subseteq Nat
    /\ MaxStretto < 2 ^ Larghezza
    /\ (2 * MaxStretto) * MaxMantissa < 2 ^ Larghezza

ASSUME QuantitaAssunte == (Coefficienti \cup Quantita) \subseteq 0 .. MaxStretto

\* The names of a plan are distinct and allowed.
ASSUME PianiAssunti ==
    /\ MaxPassi \in Nat
    /\ Uscite \in Seq(NomiAmmessi) /\ SenzaRipetizioni(Uscite) /\ MaxPassi <= Len(Uscite)
    /\ \A ins \in Ingressi : /\ ins \in Seq(NomiAmmessi) /\ ins # <<>> /\ SenzaRipetizioni(ins)
                             /\ ToSet(ins) \cap ToSet(Uscite) = {}

VARIABLES
    dati,       \* the arguments of the call
    ingresso,   \* of a prediction: the quantities the model is given
    risposta    \* what the code answers, "attesa" before

varsCalcoli == <<dati, ingresso, risposta>>

Conteggi == 0 .. MaxStretto
Nessuno == [righe |-> 0, byte |-> 0, coppie |-> 0, celle |-> 0]

Espansioni ==
    [ tipo : {"espansione"}, vincolo : Vincoli,
      out : Conteggi, sinistra : Conteggi, destra : Conteggi,
      fattore : [ordinabile : {TRUE}, mantissa : 0 .. MaxMantissa,
                 esponente : -MaxEsponente .. MaxEsponente]
                \cup {[ordinabile |-> FALSE, mantissa |-> 1, esponente |-> 0]} ]

Costi ==
    [ tipo : {"costo"}, a : Coefficienti, r : Coefficienti, c : Coefficienti,
      r_stretta : Coefficienti, c_larga : Coefficienti, k : Coefficienti,
      p : Coefficienti ]

\* A plan is written one step at a time, then submitted.
PianiVuoti ==
    {[tipo |-> "piano", inputs |-> ins, steps |-> <<>>, outputs |-> <<Head(ins)>>] : ins \in Ingressi}

Op(arieta, conserva) ==
    [ nota |-> TRUE, canonico |-> TRUE, arieta |-> arieta, lunga |-> FALSE,
      prepara |-> "ok", analisi |-> "ok", conCosto |-> TRUE, conserva |-> conserva, moltiplicatore |-> 0,
      esente |-> FALSE, vincolo |-> "SumRelative" ]

InitCalcoli ==
    /\ dati \in Espansioni \cup Costi \cup PianiVuoti
    /\ ingresso = Nessuno
    /\ risposta = "attesa"

\* ExpansionConstraint::exceeded
Confronta ==
    /\ risposta = "attesa" /\ dati.tipo = "espansione"
    /\ risposta' = IF exceeded(dati.vincolo, dati.out, dati.sinistra, dati.destra, dati.fattore)
                     THEN "supera" ELSE "sta"
    /\ UNCHANGED <<dati, ingresso>>

\* The prediction of a step with one or two inputs, at least one row foreseen.
Prevede(righe_in, colonne, vivi, copia) ==
    /\ risposta = "attesa" /\ dati.tipo = "costo"
    /\ ingresso' = ingresso_del_passo(righe_in, 1, colonne, byte_ingresso(vivi, copia))
    /\ risposta' = "previsto"
    /\ UNCHANGED dati

AggiungiPasso(conserva) ==
    /\ risposta = "attesa" /\ dati.tipo = "piano"
    /\ Len(dati.steps) < MaxPassi
    /\ \E ins \in SeqOf(Definiti(dati, Len(dati.steps) + 1), 2) \ {<<>>} :
         dati' = [dati EXCEPT !.steps = Append(@,
               [ out |-> Uscite[Len(@) + 1], inputs |-> ins,
                 op |-> Op(IF Len(ins) = 1 THEN "Unary" ELSE "BinaryOrdered", conserva) ])]
    /\ UNCHANGED <<ingresso, risposta>>

Valida ==
    /\ risposta = "attesa" /\ dati.tipo = "piano"
    /\ risposta' = validate(dati, dati.inputs, TuttoInRegola)
    /\ UNCHANGED <<dati, ingresso>>

NextCalcoli ==
    \/ Confronta
    \/ \E righe_in \in {<<x>> : x \in Quantita} \cup (Quantita \X Quantita),
          colonne \in Quantita, vivi \in Quantita, copia \in Quantita \cup {MaxStretto + 1} :
         Prevede(righe_in, colonne, vivi, copia)
    \/ \E conserva \in BOOLEAN : AggiungiPasso(conserva)
    \/ Valida

SpecCalcoli == InitCalcoli /\ [][NextCalcoli]_varsCalcoli

-----------------------------------------------------------------------------
(* The expansion limit *)

\* out / base > mantissa * 2^esponente over the rationals, with the convention of
\* JoinExpansion::compute for an empty base; a factor that is not finite and
\* positive accepts only an empty output.
OltreEsatto(out, b, f) ==
    IF ~ f.ordinabile THEN out > 0
    ELSE IF f.esponente >= 0 THEN out > b * f.mantissa * 2 ^ f.esponente
    ELSE out * 2 ^ (-f.esponente) > b * f.mantissa

\* The bases a constraint names; for MaxRelative the largest of the ratios
\* exceeds the factor exactly when the ratio to the smaller side does.
BaseEsatta ==
    CASE dati.vincolo = "SumRelative"   -> dati.sinistra + dati.destra
      [] dati.vincolo = "LeftRelative"  -> dati.sinistra
      [] dati.vincolo = "RightRelative" -> dati.destra
      [] dati.vincolo = "MaxRelative"   ->
           IF dati.sinistra < dati.destra THEN dati.sinistra ELSE dati.destra

\* The limit fires exactly when the exact ratio exceeds the factor: no shift that
\* loses bits, no empty base and no huge or tiny factor opens it or closes it.
EspansioneEsatta ==
    risposta \in {"supera", "sta"} =>
        (risposta = "supera" <=> OltreEsatto(dati.out, BaseEsatta, dati.fattore))

-----------------------------------------------------------------------------
(* The prediction *)

\* The peak without rounding, times Mille and Denominatore.
Esatto(c, g) ==
    Numeratore * (Mille * c.a
                  + Maggiore(Maggiore(c.r * g.righe + c.c * g.byte, c.r_stretta * g.righe),
                             c.c_larga * g.byte)
                  + c.k * g.celle + c.p * g.coppie)

\* The prediction is never below the formula of the model: a peak that does not fit
\* becomes the largest u64, and the sums of `base`, which nothing checks, fit the
\* wide type.
MaiPerDifetto ==
    risposta = "previsto" =>
        /\ base(dati, ingresso) <= MaxLargo
        /\ \/ picco(dati, ingresso) = MaxStretto
           \/ picco(dati, ingresso) * Mille * Denominatore >= Esatto(dati, ingresso)

-----------------------------------------------------------------------------
(* The plan *)

\* Step j takes the table step i defines.
Segue(i, j) == dati.steps[i].out \in ToSet(dati.steps[j].inputs)

\* A chain: steps each of which takes what the previous one of the set defines.
Catena(C) ==
    \A j \in C : (\E i \in C : i < j) =>
        Segue(Max({i \in C : i < j}), j)

\* Step j takes its rows, one by one, from what step i defines.
TieneLeRighe(i, j) == dati.steps[j].op.conserva /\ dati.steps[j].inputs[1] = dati.steps[i].out

\* The inputs of the steps that are one of the names given.
ArchiDi(nomi) ==
    {a \in Indici(dati) \X (1 .. 2) :
        a[2] <= Len(dati.steps[a[1]].inputs) /\ dati.steps[a[1]].inputs[a[2]] \in nomi}

\* validate accepts a plan within the counts exactly when no chain of dependent steps
\* is longer than max_plan_depth and no table feeds more than max_fan_out inputs: the
\* bookkeeping of verifica_limiti_del_piano is the longest path of the graph.  And the
\* rows of a table are those of an input of the plan exactly when a chain of
\* row-keeping steps, each on its first input, goes back to it: the map `provenance`
\* neither loses the attribution of a diagnostic nor invents it.
ValidazioneEsatta ==
    dati.tipo = "piano" =>
        /\ risposta # "attesa" =>
             (risposta = "ok" <=>
                /\ Len(dati.inputs) <= MaxInputs /\ Len(dati.steps) <= MaxPlanNodes
                /\ Cardinality(ArchiDi(Nomi)) <= MaxPlanEdges
                /\ \A C \in SUBSET Indici(dati) : Catena(C) => Cardinality(C) <= MaxPlanDepth
                /\ \A n \in Nomi : Cardinality(ArchiDi({n})) <= MaxFanOut)
        /\ \A j \in Indici(dati) :
             dati.steps[j].out \in Provenienza(dati)[Len(dati.steps)] <=>
                \E C \in SUBSET (1 .. j) :
                    /\ j \in C
                    /\ \A k \in C : dati.steps[k].op.conserva
                    /\ \A k \in C \ {Min(C)} : TieneLeRighe(Max({i \in C : i < k}), k)
                    /\ dati.steps[Min(C)].inputs[1] \in ToSet(dati.inputs)

=============================================================================
