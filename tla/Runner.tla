------------------------------- MODULE Runner -------------------------------
(***************************************************************************)
(* The runner: PipelineValidata::run_interrompibile                        *)
(* (plenora-pipeline/src/esecuzione.rs).                                   *)
(*                                                                         *)
(* It executes a validated plan on whole tables in memory.  Its state is   *)
(* the map `vivi` from names to resident tables; a table leaves it after   *)
(* the last step that uses it, and the plan's outputs never do.  A budget  *)
(* of live bytes is checked before a kernel runs, after it and at the two  *)
(* ends.  Another thread may raise the cancellation signal, and the clock  *)
(* may pass the deadline, at any moment; the runner looks at them before   *)
(* every step and before it hands the outputs over, never inside a kernel. *)
(*                                                                         *)
(* One action is the code between two points where the other thread or the *)
(* clock can matter.  A check of the interruption is two actions: the load *)
(* of the signal and, after it, the reading of the clock.                  *)
(*                                                                         *)
(* Kernels are external: what a kernel returns is a choice over the tables *)
(* it can build, which share allocations with its inputs or own new ones.  *)
(*                                                                         *)
(* An operator named X_... just before X is a mutant of X: a plausible     *)
(* mistake in the same code, which the property named for it in            *)
(* PROJECT.json must catch.  No specification uses it.                     *)
(***************************************************************************)
EXTENDS Piano, Memoria, Espansione

CONSTANTS
    Piani,          \* the validated plans to run
    Budget,         \* max_governed_memory_bytes
    MaxInputRows, MaxRowsPerEdge, MaxOutputRows,
    Fattore,        \* max_expansion_factor
    MaxRighe,       \* bound: rows of a table of the model
    Previsioni,     \* bound: the predictions of the cost model
    Assente         \* no table under this name

ASSUME PianiAssunti == \A p \in Piani : PianoValido(p)

ASSUME BudgetAssunto == Budget \in 1 .. MaxU64

ASSUME RigheAssunte == {MaxInputRows, MaxRowsPerEdge, MaxOutputRows, MaxRighe} \subseteq Nat

ASSUME PrevisioniAssunte == Previsioni \subseteq 0 .. MaxU64

\* A table: its rows, the buffers its columns reach and whether its rows are
\* still, one by one, those of an input of the plan.
Tabelle == [righe : 0 .. MaxRighe, buffer : SUBSET Buffer, sorgente : BOOLEAN]

ASSUME AssenteAssunto == Assente \notin Tabelle

VARIABLES
    piano,          \* the plan (self)
    pc,             \* where the runner is
    passo,          \* index of the current step; Len + 1 after the last one
    vivi,           \* resident tables by name
    previsti,       \* byte_previsti of the step whose kernel may run
    report,         \* the report: start and one record per step
    uscite,         \* the outputs taken out of `vivi`, in plan order
    esito,          \* what run_interrompibile returned
    annullato,      \* the cancellation signal (Interruzione.annullamento)
    scaduto,        \* the deadline has passed (Interruzione.scadenza)
    alzatoAl        \* observation: the step at which an interruption was raised

vars == <<piano, pc, passo, vivi, previsti, report, uscite, esito,
          annullato, scaduto, alzatoAl>>

Categorie == {"InvalidPlan", "Schema", "ResourceLimit", "Internal",
              "DataMapping", "Cancelled", "Timeout"}

InCorso == [stato |-> "in_corso", categoria |-> "nessuna", causa |-> "nessuna",
            esempi |-> FALSE]
Reso == [InCorso EXCEPT !.stato = "reso"]
Errore(cat, perche, es) ==
    [stato |-> "errore", categoria |-> cat, causa |-> perche, esempi |-> es]

-----------------------------------------------------------------------------
(* The resident tables *)

Vuoto == [n \in Nomi |-> Assente]

Residenti(v) == {n \in Nomi : v[n] # Assente}

BufferDi(v, S) == UNION {v[n].buffer : n \in S}

BufferVivi(v) == BufferDi(v, Residenti(v))

ByteVivi(v) == byte_vivi(BufferVivi(v))

Toglie(v, S) == [n \in Nomi |-> IF n \in S THEN Assente ELSE v[n]]

(***************************************************************************)
(* Last use.  `ultimo_uso` is filled from the last step backwards and the  *)
(* first entry of a name stays, after the outputs were entered with a use  *)
(* that never ends: the last use of a name that is not an output is the    *)
(* last step that takes it or defines it.                                  *)
(***************************************************************************)
Tocca(p, i) == ToSet(p.steps[i].inputs) \cup {p.steps[i].out}

UltimoUso_primoUso(p, n, i) ==
    /\ n \notin ToSet(p.outputs)
    /\ n \in Tocca(p, i)
    /\ \A j \in Indici(p) : j < i => n \notin Tocca(p, j)
UltimoUso_ancheUscite(p, n, i) ==
    /\ n \in Tocca(p, i)
    /\ \A j \in Indici(p) : j > i => n \notin Tocca(p, j)
UltimoUso(p, n, i) ==
    /\ n \notin ToSet(p.outputs)
    /\ n \in Tocca(p, i)
    /\ \A j \in Indici(p) : j > i => n \notin Tocca(p, j)

\* The names released after step i.
Liberati(p, i) == {n \in Nomi : UltimoUso(p, n, i)}

\* The inputs no step uses and no output names: released before the first step.
LiberatiAllAvvio(p) ==
    {n \in ToSet(p.inputs) : /\ n \notin ToSet(p.outputs)
                             /\ \A i \in Indici(p) : n \notin Tocca(p, i)}

-----------------------------------------------------------------------------
Init ==
    /\ piano \in Piani
    /\ pc = "ingressi"
    /\ passo = 1
    /\ vivi = Vuoto
    /\ previsti = 0
    /\ report = [iniziali |-> 0, avvio |-> {}, passi |-> <<>>]
    /\ uscite = <<>>
    /\ esito = InCorso
    /\ annullato = FALSE
    /\ scaduto = FALSE
    /\ alzatoAl = 0

\* Early return with an error: the tables are dropped, nothing is handed over.
Esce(errore) ==
    /\ pc' = "fine"
    /\ esito' = errore
    /\ vivi' = Vuoto
    /\ uscite' = <<>>
    /\ UNCHANGED <<piano, passo, previsti, report>>

ambiente == <<annullato, scaduto, alzatoAl>>

PassoCorrente == piano.steps[passo]
Ingressi == ToSet(PassoCorrente.inputs)

(***************************************************************************)
(* The caller's tables, one at a time.  `difetto` stands for what the      *)
(* normalisation and the comparison with the validated schema find.        *)
(***************************************************************************)
CaricaIngresso(nome, tabella, difetto) ==
    /\ pc = "ingressi"
    /\ tabella.sorgente
    /\ LET rifiuto ==
             IF nome \notin ToSet(piano.inputs)   THEN "InvalidPlan"
             ELSE IF difetto # "ok"               THEN difetto
             ELSE IF tabella.righe > MaxInputRows THEN "ResourceLimit"
             ELSE IF nome \in Residenti(vivi)     THEN "InvalidPlan"
             ELSE "ok"
       IN IF rifiuto # "ok"
            THEN Esce(Errore(rifiuto, "ingresso", FALSE))
            ELSE /\ vivi' = [vivi EXCEPT ![nome] = tabella]
                 /\ UNCHANGED <<piano, pc, passo, previsti, report, uscite, esito>>
    /\ UNCHANGED ambiente

\* The list of tables is over: missing inputs, releases before the first step,
\* and the first boundary of the budget.
Avvio ==
    /\ pc = "ingressi"
    /\ LET avvio == LiberatiAllAvvio(piano)
           v == Toglie(vivi, avvio)
       IN IF ToSet(piano.inputs) \ Residenti(vivi) # {}
            THEN Esce(Errore("InvalidPlan", "mancante", FALSE))
          ELSE IF NonRappresentabile(BufferVivi(v))
            THEN Esce(Errore("Internal", "somma", FALSE))
          ELSE IF ByteVivi(v) > Budget
            THEN Esce(Errore("ResourceLimit", "iniziali", FALSE))
          ELSE /\ vivi' = v
               /\ report' = [report EXCEPT !.iniziali = ByteVivi(v), !.avvio = avvio]
               /\ pc' = IF Len(piano.steps) = 0 THEN "finale" ELSE "segnale"
               /\ UNCHANGED <<piano, passo, previsti, uscite, esito>>
    /\ UNCHANGED ambiente

-----------------------------------------------------------------------------
(* Interruzione::verifica, before a step and before the delivery *)

VerificaSegnale_soloAlPrimoPasso ==
    /\ pc = "segnale"
    /\ IF annullato /\ passo = 1
         THEN Esce(Errore("Cancelled", "interruzione", FALSE))
         ELSE /\ pc' = "orologio"
              /\ UNCHANGED <<piano, passo, vivi, previsti, report, uscite, esito>>
    /\ UNCHANGED ambiente
VerificaSegnale_nonAllaFine ==
    /\ pc = "segnale"
    /\ IF annullato /\ passo \in Indici(piano)
         THEN Esce(Errore("Cancelled", "interruzione", FALSE))
         ELSE /\ pc' = "orologio"
              /\ UNCHANGED <<piano, passo, vivi, previsti, report, uscite, esito>>
    /\ UNCHANGED ambiente
VerificaSegnale ==
    /\ pc = "segnale"
    /\ IF annullato
         THEN Esce(Errore("Cancelled", "interruzione", FALSE))
         ELSE /\ pc' = "orologio"
              /\ UNCHANGED <<piano, passo, vivi, previsti, report, uscite, esito>>
    /\ UNCHANGED ambiente

\* The clock is read after the signal.  After the last step what follows is the
\* return of the outputs.
VerificaOrologio ==
    /\ pc = "orologio"
    /\ IF scaduto
         THEN Esce(Errore("Timeout", "interruzione", FALSE))
         ELSE IF passo \in Indici(piano)
         THEN /\ pc' = "previsione"
              /\ UNCHANGED <<piano, passo, vivi, previsti, report, uscite, esito>>
         ELSE /\ pc' = "fine"
              /\ esito' = Reso
              /\ UNCHANGED <<piano, passo, vivi, previsti, report, uscite>>
    /\ UNCHANGED ambiente

-----------------------------------------------------------------------------
(* A step *)

\* residenti.checked_add(byte_previsti) fails or exceeds the budget.
OltrePrevisione_avvolge(p) == (ByteVivi(vivi) + p) % (MaxU64 + 1) > Budget
OltrePrevisione(p) == ByteVivi(vivi) + p > MaxU64 \/ ByteVivi(vivi) + p > Budget

\* Before the kernel: its inputs must be resident, and the live bytes plus the
\* predicted peak p must be representable and stay in the budget.
Previsione(p) ==
    /\ pc = "previsione"
    /\ IF ~ (Ingressi \subseteq Residenti(vivi))
         THEN Esce(Errore("Internal", "non_residente", FALSE))
       ELSE IF NonRappresentabile(BufferVivi(vivi))
         THEN Esce(Errore("Internal", "somma", FALSE))
       ELSE IF OltrePrevisione(p)
         THEN Esce(Errore("ResourceLimit", "previsione", FALSE))
       ELSE /\ previsti' = p
            /\ pc' = "kernel"
            /\ UNCHANGED <<piano, passo, vivi, report, uscite, esito>>
    /\ UNCHANGED ambiente

\* The kernel fails or panics.  The rows it points at are those of its first
\* input: diagnostica_nella_base drops the examples unless they are source rows.
KernelFallisce(categoria, esempi) ==
    /\ pc = "kernel"
    /\ Esce(Errore(categoria, "kernel",
                   esempi /\ base_indici(piano, passo) = "Sorgente"))
    /\ UNCHANGED ambiente

\* The tables a kernel can return: it reaches the allocations of its inputs and
\* new ones; an operation that keeps the rows keeps those of its first input.
UscitaPossibile(t) ==
    LET prima == vivi[PassoCorrente.inputs[1]]
        vive == {b.inizio : b \in BufferVivi(vivi)}
    IN /\ t.buffer \subseteq BufferDi(vivi, Ingressi) \cup {b \in Buffer : b.inizio \notin vive}
       /\ IF PassoCorrente.op.conserva
            THEN t.righe = prima.righe /\ t.sorgente = prima.sorgente
            ELSE ~ t.sorgente

RigheIn == [k \in DOMAIN PassoCorrente.inputs |-> vivi[PassoCorrente.inputs[k]].righe]

\* check_edge_counts: an output of the plan is not an edge.
SuperaArco_soloUscite(t) ==
    PassoCorrente.out \in ToSet(piano.outputs) /\ t.righe > MaxRowsPerEdge
SuperaArco(t) ==
    PassoCorrente.out \notin ToSet(piano.outputs) /\ t.righe > MaxRowsPerEdge

\* The checks on the output of a kernel, in their order.  `difetto` stands for
\* what validate_batch finds on the columns and conforma on the schema.
RifiutoUscita(t, difetto, con_uscita) ==
    LET espansione == check_expansion(PassoCorrente.op, RigheIn, t.righe, Fattore)
    IN IF t.righe > MaxInputRows                 THEN <<"ResourceLimit", "righe">>
       ELSE IF difetto \in {"ResourceLimit", "Schema"} THEN <<difetto, "colonne">>
       ELSE IF SuperaArco(t)                     THEN <<"ResourceLimit", "arco">>
       ELSE IF espansione # "ok"                 THEN <<espansione, "espansione">>
       ELSE IF difetto = "Internal"              THEN <<"Internal", "conforma">>
       ELSE IF con_uscita > MaxU64               THEN <<"Internal", "somma">>
       ELSE IF con_uscita < ByteVivi(vivi)       THEN <<"Internal", "diminuiti">>
       ELSE IF con_uscita > Budget               THEN <<"ResourceLimit", "uscita">>
       ELSE <<"ok", "ok">>

\* The row a step adds to the report, with v the tables left after the releases.
ReportPasso_primaDeiRilasci(con_uscita, v) ==
    [ out |-> PassoCorrente.out, byte_previsti |-> previsti,
      margine_kernel |-> Budget - ByteVivi(vivi),
      byte_output_esclusivi |-> con_uscita - ByteVivi(vivi),
      byte_vivi_con_uscita |-> con_uscita,
      liberati |-> Liberati(piano, passo), byte_vivi |-> con_uscita ]
ReportPasso(con_uscita, v) ==
    [ out |-> PassoCorrente.out,
      byte_previsti |-> previsti,
      margine_kernel |-> Budget - ByteVivi(vivi),
      byte_output_esclusivi |-> con_uscita - ByteVivi(vivi),
      byte_vivi_con_uscita |-> con_uscita,
      liberati |-> Liberati(piano, passo),
      byte_vivi |-> ByteVivi(v) ]

\* The kernel returns t: checks, insertion, releases, report.
KernelRende(t, difetto) ==
    /\ pc = "kernel"
    /\ UscitaPossibile(t)
    /\ LET con_uscita == byte_vivi(BufferVivi(vivi) \cup t.buffer)
           rifiuto == RifiutoUscita(t, difetto, con_uscita)
           v == Toglie([vivi EXCEPT ![PassoCorrente.out] = t], Liberati(piano, passo))
       IN IF rifiuto[1] # "ok"
            THEN Esce(Errore(rifiuto[1], rifiuto[2], FALSE))
            ELSE /\ vivi' = v
                 /\ report' = [report EXCEPT !.passi = Append(@, ReportPasso(con_uscita, v))]
                 /\ passo' = passo + 1
                 /\ pc' = IF passo = Len(piano.steps) THEN "finale" ELSE "segnale"
                 /\ previsti' = 0
                 /\ UNCHANGED <<piano, uscite, esito>>
    /\ UNCHANGED ambiente

-----------------------------------------------------------------------------
(* After the last step: the last boundary of the budget and the outputs, taken
   in plan order; then the last check of the interruption. *)
Finale ==
    /\ pc = "finale"
    /\ LET richiesti == ToSet(piano.outputs)
           difettose == {k \in DOMAIN piano.outputs :
                           \/ piano.outputs[k] \notin Residenti(vivi)
                           \/ vivi[piano.outputs[k]].righe > MaxOutputRows}
       IN IF NonRappresentabile(BufferVivi(vivi))
            THEN Esce(Errore("Internal", "somma", FALSE))
          ELSE IF ByteVivi(vivi) > Budget
            THEN Esce(Errore("ResourceLimit", "finali", FALSE))
          ELSE IF difettose # {}
            THEN \E k \in difettose :
                   /\ \A j \in difettose : k <= j
                   /\ Esce(IF piano.outputs[k] \in Residenti(vivi)
                             THEN Errore("ResourceLimit", "righe_output", FALSE)
                             ELSE Errore("Internal", "non_residente_a_fine_piano", FALSE))
          ELSE /\ uscite' = [k \in DOMAIN piano.outputs |->
                               <<piano.outputs[k], vivi[piano.outputs[k]]>>]
               /\ vivi' = Toglie(vivi, richiesti)
               /\ pc' = "segnale"
               /\ UNCHANGED <<piano, passo, previsti, report, esito>>
    /\ UNCHANGED ambiente

-----------------------------------------------------------------------------
(* The other thread and the clock *)

Alza == alzatoAl' = IF alzatoAl = 0 THEN passo ELSE alzatoAl

Annulla ==
    /\ pc # "fine"
    /\ ~ annullato
    /\ annullato' = TRUE
    /\ Alza
    /\ UNCHANGED <<piano, pc, passo, vivi, previsti, report, uscite, esito, scaduto>>

Scade ==
    /\ pc # "fine"
    /\ ~ scaduto
    /\ scaduto' = TRUE
    /\ Alza
    /\ UNCHANGED <<piano, pc, passo, vivi, previsti, report, uscite, esito, annullato>>

-----------------------------------------------------------------------------
Esecutore ==
    \/ \E n \in Nomi, t \in Tabelle, d \in {"ok", "Schema", "ResourceLimit"} :
         CaricaIngresso(n, t, d)
    \/ Avvio
    \/ VerificaSegnale
    \/ VerificaOrologio
    \/ \E p \in Previsioni : Previsione(p)
    \/ \E c \in {"DataMapping", "ResourceLimit", "Internal"}, e \in BOOLEAN :
         KernelFallisce(c, e)
    \/ \E t \in Tabelle, d \in {"ok", "Schema", "ResourceLimit", "Internal"} :
         KernelRende(t, d)
    \/ Finale

Terminato == pc = "fine" /\ UNCHANGED vars

Next == Esecutore \/ Annulla \/ Scade \/ Terminato

Spec == Init /\ [][Next]_vars

-----------------------------------------------------------------------------
(* Properties *)

\* A row of the report (ReportPasso): every number of bytes is a u64.
Righe ==
    [ out : Nomi, byte_previsti : 0 .. MaxU64, margine_kernel : 0 .. MaxU64,
      byte_output_esclusivi : 0 .. MaxU64, byte_vivi_con_uscita : 0 .. MaxU64,
      liberati : SUBSET Nomi, byte_vivi : 0 .. MaxU64 ]

Punti == {"ingressi", "segnale", "orologio", "previsione", "kernel", "finale", "fine"}

\* Between the start and the return, with the outputs still in `vivi`.
AlConfine == pc \in {"segnale", "orologio", "previsione", "kernel", "finale"} /\ uscite = <<>>

\* Types of the runner's variables: the step index stays between the first step
\* and one past the last, the report has one record per step executed, and no
\* subtraction of the report (margin, exclusive bytes) underflows its u64.
TypeOK ==
    /\ piano \in Piani
    /\ pc \in Punti
    /\ passo \in 1 .. Len(piano.steps) + 1
    /\ vivi \in [Nomi -> Tabelle \cup {Assente}]
    /\ previsti \in 0 .. MaxU64
    /\ report \in [iniziali : 0 .. MaxU64, avvio : SUBSET Nomi, passi : Seq(Righe)]
    /\ Len(report.passi) = passo - 1
    /\ esito.stato \in {"in_corso", "reso", "errore"}
    /\ esito.categoria \in Categorie \cup {"nessuna"}
    /\ esito.esempi \in BOOLEAN
    /\ annullato \in BOOLEAN
    /\ scaduto \in BOOLEAN
    /\ alzatoAl \in 0 .. Len(piano.steps) + 1

\* The names that must be resident before step i: those already defined that are
\* an output of the plan or that step i or a later one takes.
Necessari(p, i) ==
    {n \in Definiti(p, i) :
        \/ n \in ToSet(p.outputs)
        \/ \E j \in Indici(p) : j >= i /\ n \in Tocca(p, j)}

\* The backward computation of the last uses and the releases after each step keep
\* exactly the tables that are still needed: none is released before its last
\* consumer, none stays after it, and the plan's outputs stay to the end.
ResidentiEsatti == AlConfine => Residenti(vivi) = Necessari(piano, passo)

\* At every boundary the bytes kept alive by the resident tables are within
\* max_governed_memory_bytes, and while a kernel runs its predicted peak fits in
\* what is left (also when the sum would not fit a u64).
BudgetAiConfini ==
    /\ AlConfine => ByteVivi(vivi) <= Budget
    /\ pc = "kernel" => ByteVivi(vivi) + previsti <= Budget

\* The defensive returns of the runner are never taken on a validated plan: no
\* step and no output finds its table missing, adding a table never lowers the
\* live bytes, and the last boundary never exceeds the budget the steps kept.
DifeseMaiRaggiunte ==
    esito.causa \notin {"non_residente", "non_residente_a_fine_piano",
                        "diminuiti", "finali"}

ByteDopo(i) == IF i = 0 THEN report.iniziali ELSE report.passi[i].byte_vivi

\* The report is one account from the first byte to the last: each step starts
\* from the live bytes the previous one left, adds its exclusive bytes, and gave
\* its kernel exactly the rest of the budget; the last entry is what is resident.
\* When the outputs are returned every table of the plan, input or out of a step, was
\* released exactly once or is an output, never both.
RapportoConcatenato ==
    /\ \A i \in 1 .. Len(report.passi) :
         LET r == report.passi[i]
         IN /\ r.byte_vivi_con_uscita = ByteDopo(i - 1) + r.byte_output_esclusivi
            /\ r.margine_kernel = Budget - ByteDopo(i - 1)
            /\ r.byte_previsti <= r.margine_kernel
            /\ r.byte_vivi <= r.byte_vivi_con_uscita
            /\ r.byte_vivi_con_uscita <= Budget
    /\ AlConfine => ByteVivi(vivi) = ByteDopo(passo - 1)
    /\ esito.stato = "reso" =>
         \A n \in Definiti(piano, Len(piano.steps) + 1) :
            LET rilasci == {i \in 1 .. Len(report.passi) : n \in report.passi[i].liberati}
                         \cup (IF n \in report.avvio THEN {0} ELSE {})
            IN Cardinality(rilasci) = IF n \in ToSet(piano.outputs) THEN 0 ELSE 1

\* The base of the row indices decided in validation is true of the data when the
\* kernel runs: the rows of the step's first input are the rows of a plan input
\* exactly when base_indici says so, so no example points at a row of another table.
BaseFedele ==
    pc = "kernel" =>
        (base_indici(piano, passo) = "Sorgente" <=> vivi[PassoCorrente.inputs[1]].sorgente)

\* A table that a step hands to the next ones stays within max_rows_per_edge, and
\* what is returned within max_output_rows, whatever the kernels produce.
RigheEntroILimiti ==
    /\ AlConfine => \A n \in Residenti(vivi) :
         n \notin ToSet(piano.inputs) \cup ToSet(piano.outputs) =>
             vivi[n].righe <= MaxRowsPerEdge
    /\ esito.stato = "reso" => \A k \in DOMAIN uscite : uscite[k][2].righe <= MaxOutputRows

\* No kernel of a later step is reached once the signal is up or the deadline has
\* passed: the step under way ends and the next check stops the run.
FermaAlProssimoControllo ==
    (annullato \/ scaduto) /\ pc \in {"previsione", "kernel"} => passo = alzatoAl

\* The last look at the signal before the outputs are handed over.
OltreUltimoSegnale == pc = "orologio" /\ passo \notin Indici(piano)

\* An interruption raised before the last check is never followed by a delivery:
\* the outputs are not returned, however late in the run it was raised.
InterrottoNonConsegna ==
    /\ [](annullato /\ pc # "fine" /\ ~ OltreUltimoSegnale => [](esito.stato # "reso"))
    /\ [](scaduto /\ pc # "fine" => [](esito.stato # "reso"))

\* Cancellation prevails over the deadline: with the signal up before a check
\* begins, the run does not end with Timeout, whatever the clock says.
AnnullamentoPrevale ==
    [](annullato /\ pc \notin {"orologio", "fine"} => [](esito.categoria # "Timeout"))

\* The answer of an interrupted run: never the outputs, and Cancelled rather than
\* Timeout when the signal came first.
InterruzioneRispettata == InterrottoNonConsegna /\ AnnullamentoPrevale

=============================================================================
