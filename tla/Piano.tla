------------------------------- MODULE Piano -------------------------------
(***************************************************************************)
(* The plan of a pipeline and its validation (plenora-pipeline/src/        *)
(* piano.rs and validazione.rs): single assignment of names, the limits    *)
(* on the shape of the plan, arity, row provenance.                        *)
(*                                                                         *)
(* A plan is a record of three sequences.  A step carries the facts of its *)
(* catalogue descriptor and of its config that the control flow depends    *)
(* on: arity, cost model, whether it keeps the rows of its first input,    *)
(* the row expansion fixed by the config (0: none), the exemption from the *)
(* expansion factor and the base of the expansion of a binary operation.   *)
(***************************************************************************)
EXTENDS Integers, Sequences, FiniteSets, SequencesExt

CONSTANTS
    Nomi,           \* table names
    NomiAmmessi,    \* the names verifica_nome accepts
    MaxInputs, MaxPlanNodes, MaxPlanEdges, MaxFanOut, MaxPlanDepth

ASSUME NomiAssunti == NomiAmmessi \subseteq Nomi

ASSUME LimitiDelPianoAssunti ==
    {MaxInputs, MaxPlanNodes, MaxPlanEdges, MaxFanOut, MaxPlanDepth} \subseteq Nat

Arieta == {"Unary", "BinaryOrdered", "NAry"}
Esiti == {"ok", "InvalidPlan", "Unsupported", "Schema", "Crs", "ResourceLimit", "Internal"}
Vincoli == {"SumRelative", "LeftRelative", "RightRelative", "MaxRelative"}

Descrittore ==
    [ nota : BOOLEAN,           \* find_operation knows the operation
      canonico : BOOLEAN,       \* the plan uses its canonical id
      arieta : Arieta,
      lunga : BOOLEAN,          \* its config exceeds max_config_bytes_per_node
      prepara : Esiti,          \* PassoPreparato::prepara (tables only)
      analisi : Esiti,          \* analyze_*_contract and the checks after it
      conCosto : BOOLEAN,       \* costo_di has a model for it
      conserva : BOOLEAN,       \* source_row_provenance = Preserved
      moltiplicatore : Nat,     \* moltiplicatore_dichiarato, 0 when absent
      esente : BOOLEAN,         \* expansion_factor_exempt
      vincolo : Vincoli ]       \* expansion_constraint

Passo == [ out : Nomi, inputs : Seq(Nomi), op : Descrittore ]

Pipeline == [ inputs : Seq(Nomi), steps : Seq(Passo), outputs : Seq(Nomi) ]

-----------------------------------------------------------------------------
(* Names *)

Indici(p) == 1 .. Len(p.steps)

\* The names defined before step i: `definiti` when the loop reaches it.
Definiti(p, i) ==
    ToSet(p.inputs) \cup {p.steps[j].out : j \in 1 .. (i - 1)}

SenzaRipetizioni(s) == \A i, j \in DOMAIN s : s[i] = s[j] => i = j

\* Every name is defined once, among the inputs and the outs of the steps; a
\* step uses names defined before it; the outputs exist and are distinct.
NomiSSA(p) ==
    /\ ToSet(p.inputs) \subseteq NomiAmmessi
    /\ SenzaRipetizioni(p.inputs)
    /\ \A i \in Indici(p) :
         /\ p.steps[i].out \in NomiAmmessi
         /\ ToSet(p.steps[i].inputs) \subseteq Definiti(p, i)
         /\ p.steps[i].out \notin Definiti(p, i)
    /\ p.outputs # <<>>
    /\ ToSet(p.outputs) \subseteq Definiti(p, Len(p.steps) + 1)
    /\ SenzaRipetizioni(p.outputs)

-----------------------------------------------------------------------------
(* Limits on the shape of the plan *)

\* profondita after the first i steps, for every name: 0 for a plan input.
Profondita_primoIngresso(p) ==
    LET f[i \in 0 .. Len(p.steps)] ==
          IF i = 0 THEN [n \in Nomi |-> 0]
          ELSE [f[i - 1] EXCEPT ![p.steps[i].out] = 1 + f[i - 1][p.steps[i].inputs[1]]]
    IN f
Profondita(p) ==
    LET f[i \in 0 .. Len(p.steps)] ==
          IF i = 0 THEN [n \in Nomi |-> 0]
          ELSE [f[i - 1] EXCEPT ![p.steps[i].out] =
                  1 + Max({0} \cup {f[i - 1][n] : n \in ToSet(p.steps[i].inputs)})]
    IN f

\* The edges of the plan: one for every input of every step, so a step that takes
\* the same table twice has two edges from it.
Archi(p) ==
    UNION {{<<i, k>> : k \in DOMAIN p.steps[i].inputs} : i \in Indici(p)}

\* The consumers of a table.
Consumatori(p, n) == {a \in Archi(p) : p.steps[a[1]].inputs[a[2]] = n}

\* verifica_limiti_del_piano
LimitiDelPiano(p) ==
    /\ Len(p.inputs) <= MaxInputs
    /\ Len(p.steps) <= MaxPlanNodes
    /\ Cardinality(Archi(p)) <= MaxPlanEdges
    /\ \A i \in Indici(p) : ~ p.steps[i].op.lunga
    /\ \A n \in Nomi : Cardinality(Consumatori(p, n)) <= MaxFanOut
    /\ \A i \in Indici(p) : Profondita(p)[i][p.steps[i].out] <= MaxPlanDepth

-----------------------------------------------------------------------------
(* Steps *)

\* verifica_arieta: the category of the refusal, or "ok".
verifica_arieta(d, ricevuti) ==
    CASE d.arieta = "Unary" /\ ricevuti # 1         -> "InvalidPlan"
      [] d.arieta = "BinaryOrdered" /\ ricevuti # 2 -> "InvalidPlan"
      [] d.arieta = "NAry" /\ ricevuti < 2          -> "InvalidPlan"
      [] d.arieta = "NAry" /\ ricevuti > 2          -> "Unsupported"
      [] OTHER                                      -> "ok"

\* The checks of one step, in the order of the loop.
EsitoDelPasso(passo) ==
    LET arieta == verifica_arieta(passo.op, Len(passo.inputs))
    IN IF ~ passo.op.nota              THEN "Unsupported"
       ELSE IF ~ passo.op.canonico     THEN "InvalidPlan"
       ELSE IF arieta # "ok"           THEN arieta
       ELSE IF passo.op.prepara # "ok" THEN passo.op.prepara
       ELSE IF ~ passo.op.conCosto     THEN "Unsupported"
       ELSE passo.op.analisi

\* The names whose rows are those of a plan input, after the first i steps
\* (the map `provenance`): a step that keeps rows keeps its first input's.
Provenienza_ognuno(p) ==
    LET f[i \in 0 .. Len(p.steps)] ==
          IF i = 0 THEN ToSet(p.inputs)
          ELSE IF p.steps[i].inputs[1] \in f[i - 1]
               THEN f[i - 1] \cup {p.steps[i].out}
               ELSE f[i - 1]
    IN f
Provenienza(p) ==
    LET f[i \in 0 .. Len(p.steps)] ==
          IF i = 0 THEN ToSet(p.inputs)
          ELSE IF p.steps[i].inputs[1] \in f[i - 1] /\ p.steps[i].op.conserva
               THEN f[i - 1] \cup {p.steps[i].out}
               ELSE f[i - 1]
    IN f

\* The base of the row indices in the diagnostics of step i.
base_indici(p, i) ==
    IF p.steps[i].inputs[1] \in Provenienza(p)[i - 1]
      THEN "Sorgente" ELSE "SenzaAttribuzione"

\* What validate finds in the parts of the plan that are not its graph: version and
\* limits, CRS and contracts of the inputs, schemas of the outputs.
AltriControlli == [limiti : Esiti, contratti : Esiti, schemi : Esiti]
TuttoInRegola == [limiti |-> "ok", contratti |-> "ok", schemi |-> "ok"]

\* Pipeline::validate: "ok" or the category of the first refusal; `forniti` is
\* the sequence of input names a schema was given for.
validate(p, forniti, altro) ==
    LET rifiuti == {i \in Indici(p) : EsitoDelPasso(p.steps[i]) # "ok"}
        primo == CHOOSE i \in rifiuti : \A j \in rifiuti : i <= j
    IN IF altro.limiti # "ok"
         THEN altro.limiti
       ELSE IF \/ ~ NomiSSA(p)
               \/ ~ LimitiDelPiano(p)
               \/ ~ SenzaRipetizioni(forniti)
               \/ ToSet(forniti) # ToSet(p.inputs)
         THEN "InvalidPlan"
       ELSE IF altro.contratti # "ok" THEN altro.contratti
       ELSE IF rifiuti # {}           THEN EsitoDelPasso(p.steps[primo])
       ELSE altro.schemi

\* The plans the runner is given.
PianoValido(p) == p \in Pipeline /\ validate(p, p.inputs, TuttoInRegola) = "ok"

=============================================================================
