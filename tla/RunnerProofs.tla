---------------------------- MODULE RunnerProofs ----------------------------
(***************************************************************************)
(* Theorems about the runner, for every plan, budget and set of buffers.   *)
(***************************************************************************)
EXTENDS Runner, FiniteSetTheorems, WellFoundedInduction, TLAPS

-----------------------------------------------------------------------------
(* The live bytes *)

\* The bytes reached from buffers are finitely many, so byte_vivi is a number.
LEMMA ByteFiniti ==
    ASSUME NEW S, S \subseteq Buffer
    PROVE  IsFiniteSet(ByteRaggiunti(S)) /\ byte_vivi(S) \in Nat
<1>1. IsFiniteSet(S)
  BY FS_Subset, BufferAssunti
<1>2. ASSUME NEW b \in S PROVE IsFiniteSet(ByteDelBuffer(b))
  <2>1. b.capacita \in Nat
    BY BufferAssunti
  <2>2. IsFiniteSet(1 .. b.capacita)
    BY <2>1, FS_Interval
  <2>3. IsFiniteSet({b.inizio})
    BY FS_Singleton
  <2> QED
    BY <2>2, <2>3, FS_Product DEF ByteDelBuffer
<1>3. IsFiniteSet({ByteDelBuffer(b) : b \in S})
  <2> DEFINE f == [b \in S |-> ByteDelBuffer(b)]
             T == {ByteDelBuffer(b) : b \in S}
  <2>1. f \in Surjection(S, T)
    BY DEF Surjection
  <2> QED
    BY <1>1, <2>1, FS_Surjection
<1>4. IsFiniteSet(ByteRaggiunti(S))
  BY <1>2, <1>3, FS_UNION DEF ByteRaggiunti
<1> QED
  BY <1>4, FS_CardinalityType DEF byte_vivi

\* Reaching more buffers never lowers the live bytes.
LEMMA ByteMonotoni ==
    ASSUME NEW T, T \subseteq Buffer, NEW S, S \subseteq T
    PROVE  byte_vivi(S) <= byte_vivi(T)
<1>1. ByteRaggiunti(S) \subseteq ByteRaggiunti(T)
  BY DEF ByteRaggiunti
<1>2. IsFiniteSet(ByteRaggiunti(T))
  BY ByteFiniti
<1> QED
  BY <1>1, <1>2, FS_Subset DEF byte_vivi


-----------------------------------------------------------------------------
(* The resident tables *)

Mappe == [Nomi -> Tabelle \cup {Assente}]

\* The live buffers are buffers, and releasing names only takes some away.
LEMMA BufferTipo ==
    ASSUME NEW v \in Mappe
    PROVE  BufferVivi(v) \subseteq Buffer
BY DEF Mappe, BufferVivi, BufferDi, Residenti, Tabelle

LEMMA TogliePrende ==
    ASSUME NEW v \in Mappe, NEW S
    PROVE  /\ Toglie(v, S) \in Mappe
           /\ Residenti(Toglie(v, S)) = Residenti(v) \ S
           /\ \A n \in Residenti(Toglie(v, S)) : Toglie(v, S)[n] = v[n]
           /\ BufferVivi(Toglie(v, S)) \subseteq BufferVivi(v)
<1>1. /\ Toglie(v, S) \in Mappe
      /\ Residenti(Toglie(v, S)) = Residenti(v) \ S
      /\ \A n \in Residenti(Toglie(v, S)) : Toglie(v, S)[n] = v[n]
  BY DEF Mappe, Toglie, Residenti
<1> QED
  BY <1>1 DEF BufferVivi, BufferDi

\* Inserting the table t under the name n.
Mette(v, n, t) == [v EXCEPT ![n] = t]

LEMMA InserisceTabella ==
    ASSUME NEW v \in Mappe, NEW n \in Nomi, NEW t \in Tabelle
    PROVE  /\ Mette(v, n, t) \in Mappe
           /\ Residenti(Mette(v, n, t)) = Residenti(v) \cup {n}
           /\ Mette(v, n, t)[n] = t
           /\ \A m \in Residenti(Mette(v, n, t)) : m # n => Mette(v, n, t)[m] = v[m]
           /\ BufferVivi(Mette(v, n, t)) \subseteq BufferVivi(v) \cup t.buffer
<1> DEFINE w == Mette(v, n, t)
<1>1. /\ w \in Mappe
      /\ Residenti(w) = Residenti(v) \cup {n}
      /\ w[n] = t
      /\ \A m \in Residenti(w) : m # n => w[m] = v[m]
  BY AssenteAssunto DEF Mappe, Residenti, Mette
<1>2. BufferVivi(w) \subseteq BufferVivi(v) \cup t.buffer
  <2> HIDE DEF w
  <2> SUFFICES ASSUME NEW b \in BufferVivi(w)
               PROVE  b \in BufferVivi(v) \cup t.buffer
    OBVIOUS
  <2>1. PICK m \in Residenti(w) : b \in w[m].buffer
    BY DEF BufferVivi, BufferDi
  <2>2. CASE m = n
    BY <1>1, <2>1, <2>2
  <2>3. CASE m # n
    <3>1. m \in Residenti(v) /\ b \in v[m].buffer
      BY <1>1, <2>1, <2>3
    <3> QED
      BY <3>1 DEF BufferVivi, BufferDi
  <2> QED
    BY <2>2, <2>3
<1> QED
  BY <1>1, <1>2

LEMMA VuotoTipo == Vuoto \in Mappe
BY DEF Vuoto, Mappe

-----------------------------------------------------------------------------
(* The plan *)

\* A validated plan is a pipeline in single assignment form.
LEMMA PianoSSA ==
    ASSUME NEW p \in Piani
    PROVE  /\ p \in Pipeline
           /\ NomiSSA(p)
BY PianiAssunti DEF PianoValido, validate

LEMMA TipiDelPiano ==
    ASSUME NEW p \in Piani
    PROVE  /\ Len(p.steps) \in Nat
           /\ ToSet(p.inputs) \subseteq Nomi
           /\ ToSet(p.outputs) \subseteq Nomi
           /\ p.outputs \in Seq(Nomi) /\ p.outputs # <<>>
           /\ \A i \in Indici(p) : p.steps[i].out \in Nomi
           /\ \A i \in Indici(p) : p.steps[i].inputs \in Seq(Nomi)
<1>1. /\ p.inputs \in Seq(Nomi)
      /\ p.steps \in Seq(Passo)
      /\ p.outputs \in Seq(Nomi) /\ p.outputs # <<>>
  BY PianoSSA DEF Pipeline, NomiSSA
<1>2. \A s \in Seq(Nomi) : ToSet(s) \subseteq Nomi
  BY DEF ToSet
<1>3. \A i \in Indici(p) : p.steps[i] \in Passo
  BY <1>1 DEF Indici
<1>4. /\ \A i \in Indici(p) : p.steps[i].out \in Nomi
      /\ \A i \in Indici(p) : p.steps[i].inputs \in Seq(Nomi)
  BY <1>3 DEF Passo
<1> QED
  BY <1>1, <1>2, <1>4

\* The names needed before the first step are the plan's inputs, except those
\* released at the start.
LEMMA NecessariAllAvvio ==
    ASSUME NEW p \in Piani
    PROVE  Necessari(p, 1) = ToSet(p.inputs) \ LiberatiAllAvvio(p)
<1>1. Definiti(p, 1) = ToSet(p.inputs)
  BY DEF Definiti
<1>2. \A j \in Indici(p) : j >= 1
  BY DEF Indici
<1> QED
  BY <1>1, <1>2 DEF Necessari, LiberatiAllAvvio

\* What a step does to the needed names: it defines one and ends the last uses.
LEMMA NecessariDopoIlPasso ==
    ASSUME NEW p \in Piani, NEW i \in Indici(p)
    PROVE  Necessari(p, i + 1) =
               (Necessari(p, i) \cup {p.steps[i].out}) \ Liberati(p, i)
<1>1. Definiti(p, i + 1) = Definiti(p, i) \cup {p.steps[i].out}
  <2>1. 1 .. ((i + 1) - 1) = (1 .. (i - 1)) \cup {i}
    BY TipiDelPiano DEF Indici
  <2> QED
    BY <2>1 DEF Definiti
<1>2. Definiti(p, i + 1) \subseteq Nomi
  BY TipiDelPiano DEF Definiti, Indici
<1>3. \A j \in Indici(p) : j >= i + 1 <=> j > i
  BY TipiDelPiano DEF Indici
<1>4. \A j \in Indici(p) : j >= i <=> (j > i \/ j = i)
  BY TipiDelPiano DEF Indici
<1>5. p.steps[i].out \in Tocca(p, i)
  BY DEF Tocca
<1> QED
  BY <1>1, <1>2, <1>3, <1>4, <1>5 DEF Necessari, Liberati, UltimoUso

\* A step's inputs, and the plan's outputs at the end, are among the needed names.
LEMMA NecessariIngressi ==
    ASSUME NEW p \in Piani, NEW i \in Indici(p)
    PROVE  /\ ToSet(p.steps[i].inputs) \subseteq Necessari(p, i)
           /\ p.steps[i].out \notin Necessari(p, i)
<1>1. i >= i
  BY TipiDelPiano DEF Indici
<1> QED
  BY <1>1, PianoSSA DEF NomiSSA, Necessari, Tocca

LEMMA NecessariUscite ==
    ASSUME NEW p \in Piani
    PROVE  ToSet(p.outputs) \subseteq Necessari(p, Len(p.steps) + 1)
BY PianoSSA DEF NomiSSA, Necessari

-----------------------------------------------------------------------------
(* The inductive invariant.  The safety properties are not inductive alone:
   which tables are resident depends on where the runner is in the plan, and the
   bytes at a boundary on which tables are resident. *)

\* Where the runner can be, with which step index and with which outputs.
Controllo ==
    /\ pc = "ingressi" => /\ passo = 1
                          /\ uscite = <<>>
                          /\ Residenti(vivi) \subseteq ToSet(piano.inputs)
    /\ pc \in {"segnale", "orologio"} =>
         IF uscite = <<>> THEN passo \in Indici(piano) ELSE passo = Len(piano.steps) + 1
    /\ pc \in {"previsione", "kernel"} => passo \in Indici(piano) /\ uscite = <<>>
    /\ pc = "finale" => passo = Len(piano.steps) + 1 /\ uscite = <<>>
    /\ pc # "fine" => esito = InCorso

IInv ==
    /\ TypeOK
    /\ Controllo
    /\ ResidentiEsatti
    /\ BudgetAiConfini
    /\ DifeseMaiRaggiunte

Difese == {"non_residente", "non_residente_a_fine_piano", "diminuiti", "finali"}

\* An early return keeps the invariant, whatever the error, unless it is one of
\* the defensive ones.
LEMMA EsceMantiene ==
    ASSUME IInv, NEW cat \in Categorie, NEW perche, perche \notin Difese,
           NEW es \in BOOLEAN,
           Esce(Errore(cat, perche, es)), UNCHANGED ambiente
    PROVE  IInv'
<1> USE DEF IInv, Esce
<1>1. TypeOK'
  BY VuotoTipo DEF TypeOK, Mappe, Punti, Errore, ambiente
<1>2. Controllo'
  BY DEF Controllo
<1>3. ResidentiEsatti' /\ BudgetAiConfini'
  BY DEF ResidentiEsatti, BudgetAiConfini, AlConfine
<1>4. DifeseMaiRaggiunte'
  BY DEF DifeseMaiRaggiunte, Difese, Errore
<1> QED
  BY <1>1, <1>2, <1>3, <1>4

LEMMA InitIInv == Init => IInv
<1> SUFFICES ASSUME Init PROVE IInv
  OBVIOUS
<1> USE DEF Init
<1>1. TypeOK
  <2>1. Len(piano.steps) \in Nat
    BY TipiDelPiano
  <2>2. Len(<<>>) = 0 /\ <<>> \in Seq(Righe)
    OBVIOUS
  <2>3. /\ report \in [iniziali : 0 .. MaxU64, avvio : SUBSET Nomi, passi : Seq(Righe)]
        /\ Len(report.passi) = passo - 1
    BY <2>2, MaxU64Assunto
  <2>4. /\ esito.stato \in {"in_corso", "reso", "errore"}
        /\ esito.categoria \in Categorie \cup {"nessuna"}
        /\ esito.esempi \in BOOLEAN
    BY DEF InCorso
  <2>5. /\ piano \in Piani
        /\ pc \in Punti
        /\ passo \in 1 .. Len(piano.steps) + 1
        /\ vivi \in [Nomi -> Tabelle \cup {Assente}]
        /\ previsti \in 0 .. MaxU64
        /\ alzatoAl \in 0 .. Len(piano.steps) + 1
    BY <2>1, VuotoTipo, MaxU64Assunto DEF Mappe, Punti
  <2> QED
    BY <2>3, <2>4, <2>5 DEF TypeOK
<1>2. Controllo
  BY DEF Controllo, Residenti, Vuoto
<1>3. ResidentiEsatti /\ BudgetAiConfini
  BY DEF ResidentiEsatti, BudgetAiConfini, AlConfine
<1>4. DifeseMaiRaggiunte
  BY DEF DifeseMaiRaggiunte, InCorso
<1> QED
  BY <1>1, <1>2, <1>3, <1>4 DEF IInv

\* The numbers of the runner in a state of the invariant.
LEMMA NumeriDelRunner ==
    ASSUME TypeOK
    PROVE  /\ vivi \in Mappe
           /\ ByteVivi(vivi) \in Nat
           /\ BufferVivi(vivi) \subseteq Buffer
           /\ Budget \in Nat /\ MaxU64 \in Nat /\ Budget <= MaxU64
           /\ Len(piano.steps) \in Nat
<1>1. vivi \in Mappe
  BY DEF TypeOK, Mappe
<1>2. BufferVivi(vivi) \subseteq Buffer
  BY <1>1, BufferTipo
<1>3. ByteVivi(vivi) \in Nat
  BY <1>2, ByteFiniti DEF ByteVivi
<1>4. Len(piano.steps) \in Nat
  BY TipiDelPiano DEF TypeOK
<1> QED
  BY <1>1, <1>2, <1>3, <1>4, BudgetAssunto, MaxU64Assunto

LEMMA CaricaMantiene ==
    ASSUME IInv, NEW nome \in Nomi, NEW t \in Tabelle,
           NEW difetto \in {"ok", "Schema", "ResourceLimit"},
           CaricaIngresso(nome, t, difetto)
    PROVE  IInv'
<1> DEFINE rifiuto ==
      IF nome \notin ToSet(piano.inputs)  THEN "InvalidPlan"
      ELSE IF difetto # "ok"              THEN difetto
      ELSE IF t.righe > MaxInputRows      THEN "ResourceLimit"
      ELSE IF nome \in Residenti(vivi)    THEN "InvalidPlan"
      ELSE "ok"
<1>1. CASE rifiuto # "ok"
  <2>1. rifiuto \in Categorie
    BY <1>1 DEF Categorie
  <2>2. Esce(Errore(rifiuto, "ingresso", FALSE)) /\ UNCHANGED ambiente
    BY <1>1 DEF CaricaIngresso
  <2> QED
    BY <2>1, <2>2, EsceMantiene DEF Difese
<1>2. CASE rifiuto = "ok"
  <2>1. /\ nome \in ToSet(piano.inputs)
        /\ vivi' = [vivi EXCEPT ![nome] = t]
        /\ pc = "ingressi"
        /\ UNCHANGED <<piano, pc, passo, previsti, report, uscite, esito>>
        /\ UNCHANGED ambiente
    BY <1>2 DEF CaricaIngresso
  <2>2. vivi' \in Mappe /\ Residenti(vivi') = Residenti(vivi) \cup {nome}
    <3>1. vivi' = Mette(vivi, nome, t)
      BY <2>1 DEF Mette
    <3> QED
      BY <3>1, InserisceTabella, NumeriDelRunner DEF IInv
  <2>3. TypeOK'
    BY <2>1, <2>2 DEF IInv, TypeOK, Mappe, ambiente
  <2>4. Controllo'
    BY <2>1, <2>2 DEF IInv, Controllo
  <2>5. ResidentiEsatti' /\ BudgetAiConfini' /\ DifeseMaiRaggiunte'
    BY <2>1 DEF IInv, ResidentiEsatti, BudgetAiConfini, AlConfine, DifeseMaiRaggiunte
  <2> QED
    BY <2>3, <2>4, <2>5 DEF IInv
<1> QED
  BY <1>1, <1>2

LEMMA AvvioMantiene ==
    ASSUME IInv, Avvio
    PROVE  IInv'
<1> DEFINE avvio == LiberatiAllAvvio(piano)
           v == Toglie(vivi, avvio)
<1>1. CASE ToSet(piano.inputs) \ Residenti(vivi) # {}
  BY <1>1, EsceMantiene DEF Avvio, Difese, Categorie
<1>2. CASE /\ ToSet(piano.inputs) \ Residenti(vivi) = {}
           /\ NonRappresentabile(BufferVivi(v))
  BY <1>2, EsceMantiene DEF Avvio, Difese, Categorie
<1>3. CASE /\ ToSet(piano.inputs) \ Residenti(vivi) = {}
           /\ ~ NonRappresentabile(BufferVivi(v))
           /\ ByteVivi(v) > Budget
  BY <1>3, EsceMantiene DEF Avvio, Difese, Categorie
<1>4. CASE /\ ToSet(piano.inputs) \ Residenti(vivi) = {}
           /\ ~ NonRappresentabile(BufferVivi(v))
           /\ ~ (ByteVivi(v) > Budget)
  <2>1. /\ pc = "ingressi"
        /\ vivi' = v
        /\ report' = [report EXCEPT !.iniziali = ByteVivi(v), !.avvio = avvio]
        /\ pc' = IF Len(piano.steps) = 0 THEN "finale" ELSE "segnale"
        /\ UNCHANGED <<piano, passo, previsti, uscite, esito>>
        /\ UNCHANGED ambiente
    BY <1>4 DEF Avvio
  <2>2. /\ vivi \in Mappe
        /\ Len(piano.steps) \in Nat
        /\ Budget \in Nat /\ MaxU64 \in Nat /\ Budget <= MaxU64
    BY NumeriDelRunner DEF IInv
  <2>3. /\ v \in Mappe
        /\ Residenti(v) = Residenti(vivi) \ avvio
        /\ BufferVivi(v) \subseteq Buffer
    BY <2>2, TogliePrende, BufferTipo
  <2>4. ByteVivi(v) \in 0 .. Budget
    BY <1>4, <2>2, <2>3, ByteFiniti DEF ByteVivi
  <2>5. avvio \in SUBSET Nomi
    BY TipiDelPiano DEF IInv, TypeOK, LiberatiAllAvvio
  <2>6. TypeOK'
    <3>1. /\ report' \in [iniziali : 0 .. MaxU64, avvio : SUBSET Nomi, passi : Seq(Righe)]
          /\ report'.passi = report.passi
      <4> DEFINE nuovo == [iniziali |-> ByteVivi(v), avvio |-> avvio,
                           passi |-> report.passi]
      <4>1. report' = nuovo
        BY <2>1 DEF IInv, TypeOK
      <4>2. report.passi \in Seq(Righe)
        BY DEF IInv, TypeOK
      <4>3. ByteVivi(v) \in 0 .. MaxU64
        BY <2>2, <2>4
      <4> HIDE DEF v, avvio
      <4> QED
        BY <2>5, <4>1, <4>2, <4>3
    <3> QED
      BY <2>1, <2>3, <3>1 DEF IInv, TypeOK, Mappe, Punti, ambiente
  <2>7. Controllo'
    BY <2>1, <2>2 DEF IInv, Controllo, Indici
  <2>8. ResidentiEsatti'
    <3>1. Residenti(v) = ToSet(piano.inputs) \ avvio
      BY <1>4, <2>1, <2>3 DEF IInv, Controllo
    <3>2. Residenti(v) = Necessari(piano, 1)
      BY <3>1, NecessariAllAvvio DEF IInv, TypeOK
    <3> QED
      BY <2>1, <3>2 DEF IInv, Controllo, ResidentiEsatti
  <2>9. BudgetAiConfini' /\ DifeseMaiRaggiunte'
    BY <2>1, <2>2, <2>4 DEF IInv, BudgetAiConfini, AlConfine, DifeseMaiRaggiunte
  <2> QED
    BY <2>6, <2>7, <2>8, <2>9 DEF IInv
<1> QED
  BY <1>1, <1>2, <1>3, <1>4

LEMMA SegnaleMantiene ==
    ASSUME IInv, VerificaSegnale
    PROVE  IInv'
<1>1. CASE annullato
  BY <1>1, EsceMantiene DEF VerificaSegnale, Difese, Categorie
<1>2. CASE ~ annullato
  <2>1. /\ pc = "segnale" /\ pc' = "orologio"
        /\ UNCHANGED <<piano, passo, vivi, previsti, report, uscite, esito>>
        /\ UNCHANGED ambiente
    BY <1>2 DEF VerificaSegnale
  <2> QED
    BY <2>1 DEF IInv, TypeOK, Controllo, ResidentiEsatti, BudgetAiConfini,
                DifeseMaiRaggiunte, AlConfine, Punti, ambiente
<1> QED
  BY <1>1, <1>2

LEMMA OrologioMantiene ==
    ASSUME IInv, VerificaOrologio
    PROVE  IInv'
<1>1. CASE scaduto
  BY <1>1, EsceMantiene DEF VerificaOrologio, Difese, Categorie
<1>2. CASE ~ scaduto /\ passo \in Indici(piano)
  <2>1. /\ pc = "orologio" /\ pc' = "previsione"
        /\ UNCHANGED <<piano, passo, vivi, previsti, report, uscite, esito>>
        /\ UNCHANGED ambiente
    BY <1>2 DEF VerificaOrologio
  <2>2. uscite = <<>>
    BY <1>2, <2>1, NumeriDelRunner DEF IInv, Controllo, Indici
  <2> QED
    BY <1>2, <2>1, <2>2 DEF IInv, TypeOK, Controllo, ResidentiEsatti, BudgetAiConfini,
                            DifeseMaiRaggiunte, AlConfine, Punti, ambiente
<1>3. CASE ~ scaduto /\ passo \notin Indici(piano)
  <2>1. /\ pc' = "fine" /\ esito' = Reso
        /\ UNCHANGED <<piano, passo, vivi, previsti, report, uscite>>
        /\ UNCHANGED ambiente
    BY <1>3 DEF VerificaOrologio
  <2>2. /\ Reso.stato = "reso" /\ Reso.categoria = "nessuna"
        /\ Reso.causa = "nessuna" /\ Reso.esempi = FALSE
    BY DEF Reso, InCorso
  <2> QED
    BY <2>1, <2>2 DEF IInv, TypeOK, Controllo, ResidentiEsatti, BudgetAiConfini,
                      DifeseMaiRaggiunte, AlConfine, Punti, ambiente
<1> QED
  BY <1>1, <1>2, <1>3

LEMMA PrevisioneMantiene ==
    ASSUME IInv, NEW p \in Previsioni, Previsione(p)
    PROVE  IInv'
<1>1. pc = "previsione" /\ passo \in Indici(piano) /\ uscite = <<>>
  BY DEF Previsione, IInv, Controllo
<1>2. Ingressi \subseteq Residenti(vivi)
  <2>1. Residenti(vivi) = Necessari(piano, passo)
    BY <1>1 DEF IInv, ResidentiEsatti, AlConfine
  <2> QED
    BY <1>1, <2>1, NecessariIngressi DEF IInv, TypeOK, Ingressi, PassoCorrente
<1>3. CASE NonRappresentabile(BufferVivi(vivi))
  BY <1>2, <1>3, EsceMantiene DEF Previsione, Difese, Categorie
<1>4. CASE /\ ~ NonRappresentabile(BufferVivi(vivi))
           /\ OltrePrevisione(p)
  BY <1>2, <1>4, EsceMantiene DEF Previsione, Difese, Categorie
<1>5. CASE /\ ~ NonRappresentabile(BufferVivi(vivi))
           /\ ~ OltrePrevisione(p)
  <2>1. /\ previsti' = p
        /\ pc' = "kernel"
        /\ UNCHANGED <<piano, passo, vivi, report, uscite, esito>>
        /\ UNCHANGED ambiente
    BY <1>2, <1>5 DEF Previsione
  <2>2. ByteVivi(vivi) + p <= Budget
    BY <1>5, NumeriDelRunner, PrevisioniAssunte DEF IInv, OltrePrevisione
  <2>3. TypeOK' /\ Controllo'
    BY <1>1, <2>1, PrevisioniAssunte DEF IInv, TypeOK, Controllo, Punti, ambiente
  <2>4. ResidentiEsatti' /\ BudgetAiConfini' /\ DifeseMaiRaggiunte'
    BY <1>1, <2>1, <2>2 DEF IInv, ResidentiEsatti, BudgetAiConfini, AlConfine,
                            DifeseMaiRaggiunte
  <2> QED
    BY <2>3, <2>4 DEF IInv
<1> QED
  BY <1>3, <1>4, <1>5

LEMMA FallisceMantiene ==
    ASSUME IInv, NEW c \in {"DataMapping", "ResourceLimit", "Internal"},
           NEW e \in BOOLEAN, KernelFallisce(c, e)
    PROVE  IInv'
<1> DEFINE es == e /\ base_indici(piano, passo) = "Sorgente"
<1>1. es \in BOOLEAN
  OBVIOUS
<1>2. Esce(Errore(c, "kernel", es)) /\ UNCHANGED ambiente
  BY DEF KernelFallisce
<1>3. c \in Categorie /\ "kernel" \notin Difese
  BY DEF Categorie, Difese
<1> HIDE DEF es
<1> QED
  BY <1>1, <1>2, <1>3, EsceMantiene

\* What check_expansion can answer.
LEMMA EsitiDellEspansione ==
    ASSUME NEW op, NEW r, NEW n, NEW f
    PROVE  check_expansion(op, r, n, f) \in {"ok", "Internal", "ResourceLimit"}
BY DEF check_expansion

\* The refusals of a kernel's output are not defensive: adding a table to the
\* resident ones never lowers their bytes.
LEMMA RifiutiDellUscita ==
    ASSUME IInv, NEW t \in Tabelle,
           NEW difetto \in {"ok", "Schema", "ResourceLimit", "Internal"}
    PROVE  LET con_uscita == byte_vivi(BufferVivi(vivi) \cup t.buffer)
               r == RifiutoUscita(t, difetto, con_uscita)
           IN /\ con_uscita \in Nat
              /\ ByteVivi(vivi) <= con_uscita
              /\ r[1] # "ok" => r[1] \in Categorie /\ r[2] \notin Difese
              /\ r[1] = "ok" => con_uscita <= Budget
<1> DEFINE con_uscita == byte_vivi(BufferVivi(vivi) \cup t.buffer)
           r == RifiutoUscita(t, difetto, con_uscita)
<1>1. BufferVivi(vivi) \cup t.buffer \subseteq Buffer
  BY NumeriDelRunner DEF IInv, Tabelle
<1>2. con_uscita \in Nat /\ ByteVivi(vivi) <= con_uscita
  BY <1>1, ByteFiniti, ByteMonotoni DEF ByteVivi
<1>3. ByteVivi(vivi) \in Nat /\ Budget \in Nat
  BY NumeriDelRunner DEF IInv
<1> HIDE DEF con_uscita
<1>4. ~ (con_uscita < ByteVivi(vivi))
  BY <1>2, <1>3
<1>5. /\ r[1] # "ok" => r[1] \in Categorie /\ r[2] \notin Difese
      /\ r[1] = "ok" => ~ (con_uscita > Budget)
  <2> DEFINE esp == check_expansion(PassoCorrente.op, RigheIn, t.righe, Fattore)
  <2>1. esp \in {"ok", "Internal", "ResourceLimit"}
    BY EsitiDellEspansione
  <2> HIDE DEF esp
  <2> QED
    BY <1>4, <2>1 DEF RifiutoUscita, esp, Categorie, Difese
<1> QED
  BY <1>2, <1>3, <1>5 DEF con_uscita

LEMMA RendeMantiene ==
    ASSUME IInv, NEW t \in Tabelle,
           NEW difetto \in {"ok", "Schema", "ResourceLimit", "Internal"},
           KernelRende(t, difetto)
    PROVE  IInv'
<1> DEFINE con_uscita == byte_vivi(BufferVivi(vivi) \cup t.buffer)
           rifiuto == RifiutoUscita(t, difetto, con_uscita)
           liberati == Liberati(piano, passo)
           w == [vivi EXCEPT ![PassoCorrente.out] = t]
           v == Toglie(w, liberati)
<1>0. /\ con_uscita \in Nat
      /\ ByteVivi(vivi) <= con_uscita
      /\ rifiuto[1] # "ok" => rifiuto[1] \in Categorie /\ rifiuto[2] \notin Difese
      /\ rifiuto[1] = "ok" => con_uscita <= Budget
  BY RifiutiDellUscita
<1>1. CASE rifiuto[1] # "ok"
  <2>1. Esce(Errore(rifiuto[1], rifiuto[2], FALSE)) /\ UNCHANGED ambiente
    BY <1>1 DEF KernelRende
  <2> HIDE DEF rifiuto
  <2> QED
    BY <1>0, <1>1, <2>1, EsceMantiene
<1>2. CASE rifiuto[1] = "ok"
  <2>1. /\ pc = "kernel"
        /\ vivi' = v
        /\ report' = [report EXCEPT !.passi = Append(@, ReportPasso(con_uscita, v))]
        /\ passo' = passo + 1
        /\ pc' = IF passo = Len(piano.steps) THEN "finale" ELSE "segnale"
        /\ previsti' = 0
        /\ UNCHANGED <<piano, uscite, esito>>
        /\ UNCHANGED ambiente
    BY <1>2 DEF KernelRende
  <2>2. /\ vivi \in Mappe
        /\ ByteVivi(vivi) \in Nat
        /\ BufferVivi(vivi) \subseteq Buffer
        /\ Budget \in Nat /\ MaxU64 \in Nat /\ Budget <= MaxU64
        /\ Len(piano.steps) \in Nat
    BY NumeriDelRunner DEF IInv
  <2>3. passo \in Indici(piano) /\ uscite = <<>> /\ piano \in Piani
    BY <2>1 DEF IInv, Controllo, TypeOK
  <2>4. PassoCorrente.out \in Nomi
    BY <2>3, TipiDelPiano DEF PassoCorrente
  <2>5. /\ w \in Mappe
        /\ Residenti(w) = Residenti(vivi) \cup {PassoCorrente.out}
        /\ BufferVivi(w) \subseteq BufferVivi(vivi) \cup t.buffer
    <3>1. PICK n \in Nomi : n = PassoCorrente.out
      BY <2>4
    <3>2. w = Mette(vivi, n, t)
      BY <3>1 DEF Mette
    <3> HIDE DEF w
    <3> QED
      BY <2>2, <3>1, <3>2, InserisceTabella
  <2>6. /\ v \in Mappe
        /\ Residenti(v) = Residenti(w) \ liberati
        /\ BufferVivi(v) \subseteq BufferVivi(vivi) \cup t.buffer
    <3> HIDE DEF w
    <3> QED
      BY <2>5, TogliePrende
  <2>7. ByteVivi(v) \in Nat /\ ByteVivi(v) <= con_uscita
    <3>1. BufferVivi(vivi) \cup t.buffer \subseteq Buffer
      BY <2>2 DEF Tabelle
    <3> HIDE DEF v
    <3> QED
      BY <2>6, <3>1, ByteMonotoni, ByteFiniti DEF ByteVivi
  <2>8. con_uscita <= Budget
    BY <1>0, <1>2
  <2> HIDE DEF con_uscita, v, w, rifiuto
  <2>9. TypeOK'
    <3>1. ReportPasso(con_uscita, v) \in Righe
      <4>1. /\ Budget - ByteVivi(vivi) \in 0 .. MaxU64
            /\ con_uscita - ByteVivi(vivi) \in 0 .. MaxU64
            /\ con_uscita \in 0 .. MaxU64
            /\ ByteVivi(v) \in 0 .. MaxU64
        BY <1>0, <2>2, <2>7, <2>8
      <4>2. liberati \in SUBSET Nomi
        BY DEF Liberati
      <4> QED
        BY <2>4, <4>1, <4>2 DEF ReportPasso, Righe, IInv, TypeOK
    <3>2. /\ report.passi \in Seq(Righe)
          /\ Len(report.passi) = passo - 1
      BY DEF IInv, TypeOK
    <3>3. /\ Append(report.passi, ReportPasso(con_uscita, v)) \in Seq(Righe)
          /\ Len(Append(report.passi, ReportPasso(con_uscita, v))) = passo
      BY <2>2, <2>3, <3>1, <3>2 DEF Indici
    <3>4. report' = [iniziali |-> report.iniziali, avvio |-> report.avvio,
                     passi |-> Append(report.passi, ReportPasso(con_uscita, v))]
      BY <2>1 DEF IInv, TypeOK
    <3>5. /\ report' \in [iniziali : 0 .. MaxU64, avvio : SUBSET Nomi, passi : Seq(Righe)]
          /\ Len(report'.passi) = passo' - 1
      <4>1. report.iniziali \in 0 .. MaxU64 /\ report.avvio \in SUBSET Nomi
        BY DEF IInv, TypeOK
      <4>2. report'.passi = Append(report.passi, ReportPasso(con_uscita, v))
        BY <3>4
      <4>3. passo' - 1 = passo
        BY <2>1, <2>2, <2>3 DEF Indici
      <4> QED
        BY <3>3, <3>4, <4>1, <4>2, <4>3
    <3>6. passo' \in 1 .. Len(piano.steps) + 1
      BY <2>1, <2>2, <2>3 DEF Indici
    <3>7. pc' \in Punti /\ previsti' \in 0 .. MaxU64
      BY <2>1, <2>2 DEF Punti
    <3> QED
      BY <2>1, <2>6, <3>5, <3>6, <3>7 DEF IInv, TypeOK, Mappe, ambiente
  <2>10. Controllo'
    BY <2>1, <2>2, <2>3 DEF IInv, Controllo, Indici
  <2>11. ResidentiEsatti'
    <3>1. Residenti(vivi) = Necessari(piano, passo)
      BY <2>1, <2>3 DEF IInv, ResidentiEsatti, AlConfine
    <3>2. Residenti(v) = Necessari(piano, passo + 1)
      BY <2>3, <2>5, <2>6, <3>1, NecessariDopoIlPasso DEF PassoCorrente
    <3> QED
      BY <2>1, <3>2 DEF ResidentiEsatti
  <2>12. BudgetAiConfini' /\ DifeseMaiRaggiunte'
    BY <1>0, <2>1, <2>2, <2>7, <2>8 DEF IInv, BudgetAiConfini, DifeseMaiRaggiunte
  <2> QED
    BY <2>9, <2>10, <2>11, <2>12 DEF IInv
<1> QED
  BY <1>1, <1>2

LEMMA FinaleMantiene ==
    ASSUME IInv, Finale
    PROVE  IInv'
<1> DEFINE richiesti == ToSet(piano.outputs)
<1>1. /\ pc = "finale" /\ uscite = <<>> /\ piano \in Piani
      /\ passo = Len(piano.steps) + 1
  BY DEF Finale, IInv, Controllo, TypeOK
<1>2. /\ vivi \in Mappe
      /\ ByteVivi(vivi) \in Nat /\ Budget \in Nat /\ Len(piano.steps) \in Nat
  BY NumeriDelRunner DEF IInv
<1>3. ~ (ByteVivi(vivi) > Budget)
  BY <1>1, <1>2 DEF IInv, BudgetAiConfini, AlConfine
<1>4. richiesti \subseteq Residenti(vivi)
  BY <1>1, NecessariUscite DEF IInv, ResidentiEsatti, AlConfine
<1> DEFINE difettose == {k \in DOMAIN piano.outputs :
                           \/ piano.outputs[k] \notin Residenti(vivi)
                           \/ vivi[piano.outputs[k]].righe > MaxOutputRows}
<1>5. CASE NonRappresentabile(BufferVivi(vivi))
  BY <1>5, EsceMantiene DEF Finale, Difese, Categorie
<1>6. CASE ~ NonRappresentabile(BufferVivi(vivi)) /\ difettose # {}
  <2>1. PICK k \in difettose :
          Esce(IF piano.outputs[k] \in Residenti(vivi)
                 THEN Errore("ResourceLimit", "righe_output", FALSE)
                 ELSE Errore("Internal", "non_residente_a_fine_piano", FALSE))
    BY <1>3, <1>6 DEF Finale
  <2>2. piano.outputs[k] \in richiesti
    BY DEF ToSet
  <2>3. Esce(Errore("ResourceLimit", "righe_output", FALSE))
    BY <1>4, <2>1, <2>2
  <2> QED
    BY <2>3, EsceMantiene DEF Finale, Difese, Categorie
<1>7. CASE ~ NonRappresentabile(BufferVivi(vivi)) /\ difettose = {}
  <2>1. /\ uscite' = [k \in DOMAIN piano.outputs |->
                        <<piano.outputs[k], vivi[piano.outputs[k]]>>]
        /\ vivi' = Toglie(vivi, richiesti)
        /\ pc' = "segnale"
        /\ UNCHANGED <<piano, passo, previsti, report, esito>>
        /\ UNCHANGED ambiente
    BY <1>3, <1>4, <1>7 DEF Finale
  <2>2. uscite' # <<>>
    <3>1. 1 \in DOMAIN piano.outputs
      BY <1>1, TipiDelPiano
    <3>2. 1 \in DOMAIN uscite'
      BY <2>1, <3>1
    <3> QED
      BY <3>2
  <2>3. vivi' \in Mappe
    BY <1>2, <2>1, TogliePrende
  <2>4. TypeOK'
    BY <2>1, <2>3 DEF IInv, TypeOK, Mappe, Punti, ambiente
  <2>5. Controllo'
    BY <1>1, <2>1, <2>2 DEF IInv, Controllo
  <2>6. ResidentiEsatti' /\ BudgetAiConfini' /\ DifeseMaiRaggiunte'
    BY <2>1, <2>2 DEF IInv, ResidentiEsatti, BudgetAiConfini, AlConfine, DifeseMaiRaggiunte
  <2> QED
    BY <2>4, <2>5, <2>6 DEF IInv
<1> QED
  BY <1>5, <1>6, <1>7

\* The other thread and the clock change nothing the invariant is about.
LEMMA AmbienteMantiene ==
    ASSUME IInv, Annulla \/ Scade
    PROVE  IInv'
<1>1. /\ UNCHANGED <<piano, pc, passo, vivi, previsti, report, uscite, esito>>
      /\ annullato' \in BOOLEAN /\ scaduto' \in BOOLEAN
      /\ alzatoAl' \in {passo, alzatoAl}
  BY DEF Annulla, Scade, Alza, IInv, TypeOK
<1>2. alzatoAl' \in 0 .. Len(piano.steps) + 1
  BY <1>1, NumeriDelRunner DEF IInv, TypeOK
<1>3. TypeOK'
  BY <1>1, <1>2 DEF IInv, TypeOK
<1>4. Controllo' /\ ResidentiEsatti' /\ BudgetAiConfini' /\ DifeseMaiRaggiunte'
  BY <1>1 DEF IInv, Controllo, ResidentiEsatti, BudgetAiConfini, AlConfine,
              DifeseMaiRaggiunte
<1> QED
  BY <1>3, <1>4 DEF IInv

LEMMA FermoMantiene ==
    ASSUME IInv, UNCHANGED vars
    PROVE  IInv'
BY DEF IInv, TypeOK, Controllo, ResidentiEsatti, BudgetAiConfini, AlConfine,
       DifeseMaiRaggiunte, vars

LEMMA PassoIInv == IInv /\ [Next]_vars => IInv'
<1> SUFFICES ASSUME IInv, [Next]_vars PROVE IInv'
  OBVIOUS
<1>1. CASE Esecutore
  BY <1>1, CaricaMantiene, AvvioMantiene, SegnaleMantiene, OrologioMantiene,
     PrevisioneMantiene, FallisceMantiene, RendeMantiene, FinaleMantiene
  DEF Esecutore
<1>2. CASE Annulla \/ Scade
  BY <1>2, AmbienteMantiene
<1>3. CASE Terminato \/ UNCHANGED vars
  BY <1>3, FermoMantiene DEF Terminato
<1> QED
  BY <1>1, <1>2, <1>3 DEF Next

-----------------------------------------------------------------------------
(* Theorems *)

\* The inductive invariant holds in every state of every run.
THEOREM Invariante == Spec => []IInv
BY InitIInv, PassoIInv, PTL DEF Spec

\* The runner's variables keep their types: in particular every number of bytes
\* of the report is a u64, so the subtractions of the step never underflow.
THEOREM TipiCorretti == Spec => []TypeOK
BY Invariante, PTL DEF IInv

\* run_interrompibile keeps resident exactly the tables still needed, for every
\* valid plan of any size.
THEOREM ResidentiSempreEsatti == Spec => []ResidentiEsatti
BY Invariante, PTL DEF IInv

\* The live bytes stay in max_governed_memory_bytes at every boundary, and the
\* predicted peak of a running kernel fits in the rest, for every budget.
THEOREM BudgetRispettato == Spec => []BudgetAiConfini
BY Invariante, PTL DEF IInv

\* The defensive error returns of the runner are dead code on validated plans.
THEOREM DifeseIrraggiungibili == Spec => []DifeseMaiRaggiunte
BY Invariante, PTL DEF IInv

-----------------------------------------------------------------------------
(* Interruption *)

\* Between the two halves of a check only an interruption raised there can be
\* pending, and past the check only one raised during this step.
Interruzioni ==
    /\ alzatoAl = 0 <=> ~ annullato /\ ~ scaduto
    /\ pc = "orologio" /\ annullato /\ ~ scaduto => alzatoAl = passo
    /\ FermaAlProssimoControllo

LEMMA PassoInterruzioni ==
    IInv /\ Interruzioni /\ [Next]_vars => Interruzioni'
<1> SUFFICES ASSUME IInv, Interruzioni, [Next]_vars PROVE Interruzioni'
  OBVIOUS
<1>0. /\ passo \in Nat /\ passo # 0
      /\ annullato \in BOOLEAN /\ scaduto \in BOOLEAN
  BY NumeriDelRunner DEF IInv, TypeOK
<1> USE DEF Interruzioni, FermaAlProssimoControllo, ambiente
<1>1. ASSUME NEW n \in Nomi, NEW t \in Tabelle, NEW d, CaricaIngresso(n, t, d)
      PROVE  Interruzioni'
  BY <1>1 DEF CaricaIngresso, Esce
<1>2. CASE Avvio
  BY <1>2 DEF Avvio, Esce
<1>3. CASE VerificaSegnale
  BY <1>3 DEF VerificaSegnale, Esce
<1>4. CASE VerificaOrologio
  BY <1>4 DEF VerificaOrologio, Esce
<1>5. ASSUME NEW p \in Previsioni, Previsione(p) PROVE Interruzioni'
  BY <1>5 DEF Previsione, Esce
<1>6. ASSUME NEW c, NEW e, KernelFallisce(c, e) PROVE Interruzioni'
  BY <1>6 DEF KernelFallisce, Esce
<1>7. ASSUME NEW t \in Tabelle, NEW d, KernelRende(t, d) PROVE Interruzioni'
  <2>1. pc' \in {"fine", "finale", "segnale"} /\ UNCHANGED ambiente
    BY <1>7 DEF KernelRende, Esce
  <2> QED
    BY <2>1
<1>8. CASE Finale
  BY <1>8 DEF Finale, Esce
<1>9. CASE Annulla
  BY <1>0, <1>9 DEF Annulla, Alza
<1>10. CASE Scade
  BY <1>0, <1>10 DEF Scade, Alza
<1>11. CASE Terminato \/ UNCHANGED vars
  BY <1>11 DEF Terminato, vars
<1> QED
  BY <1>1, <1>2, <1>3, <1>4, <1>5, <1>6, <1>7, <1>8, <1>9, <1>10, <1>11
  DEF Next, Esecutore

\* No kernel of a later step runs once an interruption was raised.
THEOREM FermaSempre == Spec => []FermaAlProssimoControllo
<1>1. Init => Interruzioni
  BY DEF Init, Interruzioni, FermaAlProssimoControllo
<1>2. Interruzioni => FermaAlProssimoControllo
  BY DEF Interruzioni
<1> QED
  BY <1>1, <1>2, Invariante, PassoInterruzioni, PTL DEF Spec

\* From a state with the signal up before the last look at it, and from one past
\* the deadline before the return, the run can only end without delivering.
SenzaConsegnaA ==
    /\ annullato
    /\ ~ OltreUltimoSegnale
    /\ esito.stato # "reso"

SenzaConsegnaS ==
    /\ scaduto
    /\ esito.stato # "reso"

LEMMA PassoSenzaConsegna ==
    IInv /\ [Next]_vars => /\ (SenzaConsegnaA => SenzaConsegnaA')
                          /\ (SenzaConsegnaS => SenzaConsegnaS')
<1> SUFFICES ASSUME IInv, [Next]_vars
             PROVE  /\ (SenzaConsegnaA => SenzaConsegnaA')
                    /\ (SenzaConsegnaS => SenzaConsegnaS')
  OBVIOUS
<1> USE DEF SenzaConsegnaA, SenzaConsegnaS, OltreUltimoSegnale, ambiente
<1>0. ASSUME NEW c, NEW q, NEW e, Esce(Errore(c, q, e)), UNCHANGED ambiente
      PROVE  /\ (SenzaConsegnaA => SenzaConsegnaA')
             /\ (SenzaConsegnaS => SenzaConsegnaS')
  BY <1>0 DEF Esce, Errore
<1>00. ASSUME UNCHANGED <<piano, passo, esito>>, UNCHANGED ambiente, pc' # "orologio"
       PROVE  /\ (SenzaConsegnaA => SenzaConsegnaA')
              /\ (SenzaConsegnaS => SenzaConsegnaS')
  BY <1>00
<1>1. ASSUME NEW n \in Nomi, NEW t \in Tabelle, NEW d, CaricaIngresso(n, t, d)
      PROVE  /\ (SenzaConsegnaA => SenzaConsegnaA')
             /\ (SenzaConsegnaS => SenzaConsegnaS')
  BY <1>0, <1>00, <1>1 DEF CaricaIngresso
<1>2. CASE Avvio
  BY <1>0, <1>00, <1>2 DEF Avvio
<1>3. CASE VerificaSegnale
  BY <1>0, <1>3 DEF VerificaSegnale
<1>4. CASE VerificaOrologio
  BY <1>0, <1>4 DEF VerificaOrologio
<1>5. ASSUME NEW p \in Previsioni, Previsione(p)
      PROVE  /\ (SenzaConsegnaA => SenzaConsegnaA')
             /\ (SenzaConsegnaS => SenzaConsegnaS')
  BY <1>0, <1>00, <1>5 DEF Previsione
<1>6. ASSUME NEW c, NEW e, KernelFallisce(c, e)
      PROVE  /\ (SenzaConsegnaA => SenzaConsegnaA')
             /\ (SenzaConsegnaS => SenzaConsegnaS')
  BY <1>0, <1>6 DEF KernelFallisce
<1>7. ASSUME NEW t \in Tabelle, NEW d, KernelRende(t, d)
      PROVE  /\ (SenzaConsegnaA => SenzaConsegnaA')
             /\ (SenzaConsegnaS => SenzaConsegnaS')
  <2>1. /\ pc' # "orologio" /\ UNCHANGED ambiente
        /\ \/ \E c, q, e : Esce(Errore(c, q, e))
           \/ esito' = esito
    BY <1>7 DEF KernelRende, Esce
  <2> QED
    BY <1>0, <2>1
<1>8. CASE Finale
  BY <1>0, <1>00, <1>8 DEF Finale
<1>9. CASE Annulla \/ Scade
  BY <1>9 DEF Annulla, Scade
<1>10. CASE Terminato \/ UNCHANGED vars
  BY <1>10 DEF Terminato, vars
<1> QED
  BY <1>1, <1>2, <1>3, <1>4, <1>5, <1>6, <1>7, <1>8, <1>9, <1>10 DEF Next, Esecutore

\* An interruption raised before the last check is never followed by a delivery.
THEOREM InterrottoMaiConsegna == Spec => InterrottoNonConsegna
<1>1. /\ IInv /\ annullato /\ pc # "fine" /\ ~ OltreUltimoSegnale => SenzaConsegnaA
      /\ IInv /\ scaduto /\ pc # "fine" => SenzaConsegnaS
      /\ SenzaConsegnaA => esito.stato # "reso"
      /\ SenzaConsegnaS => esito.stato # "reso"
  BY DEF SenzaConsegnaA, SenzaConsegnaS, IInv, Controllo, InCorso
<1> QED
  BY <1>1, Invariante, PassoSenzaConsegna, PTL DEF Spec, InterrottoNonConsegna

\* With the signal up outside the two halves of a check, no check reads the clock
\* again: the run ends with Cancelled or with an error of its own.
SenzaTimeout ==
    /\ annullato
    /\ pc # "orologio"
    /\ esito.categoria # "Timeout"

LEMMA PassoSenzaTimeout == IInv /\ [Next]_vars /\ SenzaTimeout => SenzaTimeout'
<1> SUFFICES ASSUME IInv, [Next]_vars, SenzaTimeout PROVE SenzaTimeout'
  OBVIOUS
<1> USE DEF SenzaTimeout, ambiente
<1>0. ASSUME NEW c, NEW q, NEW e, Esce(Errore(c, q, e)), c # "Timeout", UNCHANGED ambiente
      PROVE  SenzaTimeout'
  BY <1>0 DEF Esce, Errore
<1>1. ASSUME NEW n \in Nomi, NEW t \in Tabelle, NEW d \in {"ok", "Schema", "ResourceLimit"},
             CaricaIngresso(n, t, d)
      PROVE  SenzaTimeout'
  BY <1>0, <1>1 DEF CaricaIngresso
<1>2. CASE Avvio
  BY <1>0, <1>2 DEF Avvio
<1>3. CASE VerificaSegnale
  BY <1>0, <1>3 DEF VerificaSegnale
<1>4. CASE VerificaOrologio
  BY <1>4 DEF VerificaOrologio
<1>5. ASSUME NEW p \in Previsioni, Previsione(p) PROVE SenzaTimeout'
  BY <1>0, <1>5 DEF Previsione
<1>6. ASSUME NEW c \in {"DataMapping", "ResourceLimit", "Internal"}, NEW e,
             KernelFallisce(c, e)
      PROVE  SenzaTimeout'
  BY <1>0, <1>6 DEF KernelFallisce
<1>7. ASSUME NEW t \in Tabelle, NEW d \in {"ok", "Schema", "ResourceLimit", "Internal"},
             KernelRende(t, d)
      PROVE  SenzaTimeout'
  <2> DEFINE r == RifiutoUscita(t, d, byte_vivi(BufferVivi(vivi) \cup t.buffer))
  <2>1. r[1] # "Timeout"
    <3> DEFINE esp == check_expansion(PassoCorrente.op, RigheIn, t.righe, Fattore)
    <3>1. esp \in {"ok", "Internal", "ResourceLimit"}
      BY EsitiDellEspansione
    <3> HIDE DEF esp
    <3> QED
      BY <3>1 DEF RifiutoUscita, esp
  <2>2. \/ Esce(Errore(r[1], r[2], FALSE)) /\ UNCHANGED ambiente
        \/ /\ pc' \in {"finale", "segnale"} /\ esito' = esito
           /\ UNCHANGED ambiente
    BY <1>7 DEF KernelRende
  <2> HIDE DEF r
  <2> QED
    BY <1>0, <2>1, <2>2
<1>8. CASE Finale
  BY <1>0, <1>8 DEF Finale
<1>9. CASE Annulla \/ Scade
  BY <1>9 DEF Annulla, Scade
<1>10. CASE Terminato \/ UNCHANGED vars
  BY <1>10 DEF Terminato, vars
<1> QED
  BY <1>1, <1>2, <1>3, <1>4, <1>5, <1>6, <1>7, <1>8, <1>9, <1>10 DEF Next, Esecutore

\* Cancellation prevails over the deadline.
THEOREM AnnullamentoSemprePrevale == Spec => AnnullamentoPrevale
<1>1. /\ IInv /\ annullato /\ pc \notin {"orologio", "fine"} => SenzaTimeout
      /\ SenzaTimeout => esito.categoria # "Timeout"
  BY DEF SenzaTimeout, IInv, Controllo, InCorso
<1> QED
  BY <1>1, Invariante, PassoSenzaTimeout, PTL DEF Spec, AnnullamentoPrevale

\* Both facts about the answer of an interrupted run, for every plan and every
\* moment at which the signal or the deadline comes.
THEOREM InterruzioneSempreRispettata == Spec => InterruzioneRispettata
  BY InterrottoMaiConsegna, AnnullamentoSemprePrevale DEF InterruzioneRispettata

-----------------------------------------------------------------------------
(* Rows *)

\* The limits on rows hold of the resident tables and of the outputs from the
\* moment these are taken, not only when they are returned.
Limiti ==
    /\ AlConfine => \A n \in Residenti(vivi) :
         n \notin ToSet(piano.inputs) \cup ToSet(piano.outputs) =>
             vivi[n].righe <= MaxRowsPerEdge
    /\ \A k \in DOMAIN uscite : uscite[k][2].righe <= MaxOutputRows

LEMMA LimitiRende ==
    ASSUME IInv, Limiti, NEW t \in Tabelle, NEW d, KernelRende(t, d)
    PROVE  Limiti'
<1> DEFINE con_uscita == byte_vivi(BufferVivi(vivi) \cup t.buffer)
           rifiuto == RifiutoUscita(t, d, con_uscita)
           w == [vivi EXCEPT ![PassoCorrente.out] = t]
           v == Toglie(w, Liberati(piano, passo))
<1>1. CASE rifiuto[1] # "ok"
  BY <1>1 DEF KernelRende, Esce, Limiti, AlConfine
<1>2. CASE rifiuto[1] = "ok"
  <2>1. vivi' = v /\ piano' = piano /\ uscite' = uscite /\ pc = "kernel"
    BY <1>2 DEF KernelRende
  <2>2. /\ vivi \in Mappe /\ passo \in Indici(piano) /\ piano \in Piani
        /\ uscite = <<>>
    BY <2>1, NumeriDelRunner DEF IInv, Controllo, TypeOK
  <2>3. PICK o \in Nomi : o = PassoCorrente.out
    BY <2>2, TipiDelPiano DEF PassoCorrente
  <2>4. /\ w \in Mappe
        /\ Residenti(w) = Residenti(vivi) \cup {o}
        /\ w[o] = t
        /\ \A m \in Residenti(w) : m # o => w[m] = vivi[m]
    <3>1. w = Mette(vivi, o, t)
      BY <2>3 DEF Mette
    <3> HIDE DEF w
    <3> QED
      BY <2>2, <3>1, InserisceTabella
  <2>5. ~ SuperaArco(t)
    <3> HIDE DEF con_uscita
    <3> QED
      BY <1>2 DEF RifiutoUscita
  <2> HIDE DEF w
  <2>6. /\ Residenti(v) \subseteq Residenti(w)
        /\ \A n \in Residenti(v) : v[n] = w[n]
    BY <2>4, TogliePrende
  <2> HIDE DEF v
  <2>7. ASSUME NEW n \in Residenti(v), n \notin ToSet(piano.inputs) \cup ToSet(piano.outputs)
        PROVE  v[n].righe <= MaxRowsPerEdge
    <3>1. CASE n = o
      <4>1. ~ (t.righe > MaxRowsPerEdge)
        BY <2>3, <2>5, <2>7, <3>1 DEF SuperaArco
      <4>2. t.righe \in Int /\ MaxRowsPerEdge \in Int
        BY RigheAssunte DEF Tabelle
      <4> QED
        BY <2>4, <2>6, <2>7, <3>1, <4>1, <4>2
    <3>2. CASE n # o
      <4>1. n \in Residenti(vivi) /\ v[n] = vivi[n]
        BY <2>4, <2>6, <2>7, <3>2
      <4> QED
        BY <2>1, <2>2, <2>7, <4>1 DEF Limiti, AlConfine
    <3> QED
      BY <3>1, <3>2
  <2>8. \A k \in DOMAIN uscite' : uscite'[k][2].righe <= MaxOutputRows
    BY <2>1 DEF Limiti
  <2> QED
    BY <2>1, <2>7, <2>8 DEF Limiti
<1> QED
  BY <1>1, <1>2

LEMMA LimitiFinale ==
    ASSUME IInv, Limiti, Finale
    PROVE  Limiti'
<1> DEFINE difettose == {k \in DOMAIN piano.outputs :
                           \/ piano.outputs[k] \notin Residenti(vivi)
                           \/ vivi[piano.outputs[k]].righe > MaxOutputRows}
<1>1. CASE pc' = "fine"
  <2>1. uscite' = <<>>
    BY <1>1 DEF Finale, Esce
  <2> QED
    BY <1>1, <2>1 DEF Limiti, AlConfine
<1>2. CASE pc' # "fine"
  <2>1. /\ difettose = {}
        /\ uscite' = [k \in DOMAIN piano.outputs |->
                        <<piano.outputs[k], vivi[piano.outputs[k]]>>]
    BY <1>2 DEF Finale, Esce
  <2>2. ASSUME NEW k \in DOMAIN piano.outputs
        PROVE  vivi[piano.outputs[k]].righe <= MaxOutputRows
    <3>1. /\ piano.outputs[k] \in Residenti(vivi)
          /\ ~ (vivi[piano.outputs[k]].righe > MaxOutputRows)
      BY <2>1
    <3>2. vivi[piano.outputs[k]] \in Tabelle
      BY <3>1, NumeriDelRunner DEF IInv, Mappe, Residenti
    <3>3. vivi[piano.outputs[k]].righe \in Int /\ MaxOutputRows \in Int
      BY <3>2, RigheAssunte DEF Tabelle
    <3> QED
      BY <3>1, <3>3
  <2>3. \A k \in DOMAIN uscite' : uscite'[k][2].righe <= MaxOutputRows
    BY <2>1, <2>2
  <2>4. uscite' # <<>>
    <3>1. 1 \in DOMAIN piano.outputs
      BY TipiDelPiano DEF IInv, TypeOK
    <3>2. 1 \in DOMAIN uscite'
      BY <2>1, <3>1
    <3> QED
      BY <3>2
  <2> QED
    BY <2>3, <2>4 DEF Limiti, AlConfine
<1> QED
  BY <1>1, <1>2

LEMMA PassoLimiti == IInv /\ Limiti /\ [Next]_vars => Limiti'
<1> SUFFICES ASSUME IInv, Limiti, [Next]_vars PROVE Limiti'
  OBVIOUS
<1>0. ASSUME NEW e, Esce(e) PROVE Limiti'
  BY <1>0 DEF Esce, Limiti, AlConfine
<1>00. ASSUME UNCHANGED <<piano, vivi, uscite>>, AlConfine' => AlConfine
       PROVE  Limiti'
  BY <1>00 DEF Limiti
<1>1. ASSUME NEW n \in Nomi, NEW t \in Tabelle, NEW d, CaricaIngresso(n, t, d)
      PROVE  Limiti'
  BY <1>0, <1>1 DEF CaricaIngresso, Limiti, AlConfine
<1>2. CASE Avvio
  <2>1. CASE pc' = "fine"
    BY <1>0, <1>2, <2>1 DEF Avvio
  <2>2. CASE pc' # "fine"
    <3>1. /\ pc = "ingressi" /\ UNCHANGED <<piano, uscite>>
          /\ vivi' = Toglie(vivi, LiberatiAllAvvio(piano))
      BY <1>2, <2>2 DEF Avvio, Esce
    <3>2. Residenti(vivi') \subseteq ToSet(piano.inputs)
      BY <3>1, TogliePrende, NumeriDelRunner DEF IInv, Controllo
    <3> QED
      BY <3>1, <3>2 DEF Limiti
  <2> QED
    BY <2>1, <2>2
<1>3. CASE VerificaSegnale
  BY <1>0, <1>00, <1>3 DEF VerificaSegnale, AlConfine
<1>4. CASE VerificaOrologio
  BY <1>0, <1>00, <1>4 DEF VerificaOrologio, AlConfine
<1>5. ASSUME NEW p \in Previsioni, Previsione(p) PROVE Limiti'
  BY <1>0, <1>00, <1>5 DEF Previsione, AlConfine
<1>6. ASSUME NEW c, NEW e, KernelFallisce(c, e) PROVE Limiti'
  BY <1>0, <1>6 DEF KernelFallisce
<1>7. CASE Annulla \/ Scade
  BY <1>00, <1>7 DEF Annulla, Scade, AlConfine
<1>8. CASE Terminato \/ UNCHANGED vars
  BY <1>00, <1>8 DEF Terminato, vars, AlConfine
<1> QED
  BY <1>1, <1>2, <1>3, <1>4, <1>5, <1>6, <1>7, <1>8, LimitiRende, LimitiFinale
  DEF Next, Esecutore

\* No table over max_rows_per_edge passes from a step to the next and none over
\* max_output_rows is returned, whatever rows the kernels produce.
THEOREM RigheSempreEntroILimiti == Spec => []RigheEntroILimiti
<1>1. Init => Limiti
  BY DEF Init, Limiti, AlConfine
<1>2. Limiti => RigheEntroILimiti
  BY DEF Limiti, RigheEntroILimiti
<1> QED
  BY <1>1, <1>2, Invariante, PassoLimiti, PTL DEF Spec

-----------------------------------------------------------------------------
(* Row provenance *)

\* Every nonempty set of naturals has a least element.
LEMMA MinimoDi ==
    ASSUME NEW T, T \subseteq Nat, T # {}
    PROVE  \E x \in T : \A y \in T : x <= y
<1>1. PICK x \in T : \A y \in T : ~ (<<y, x>> \in OpToRel(<, Nat))
  BY NatLessThanWellFounded, WFMin
<1>2. \A y \in T : ~ (y < x)
  BY <1>1 DEF OpToRel
<1> QED
  BY <1>2

\* The steps of a validated plan pass their checks, so each has a first input.
LEMMA PrimoIngresso ==
    ASSUME NEW p \in Piani, NEW i \in Indici(p)
    PROVE  /\ 1 \in DOMAIN p.steps[i].inputs
           /\ p.steps[i].inputs[1] \in ToSet(p.steps[i].inputs)
           /\ p.steps[i].inputs[1] \in Nomi
<1> DEFINE rifiuti == {j \in Indici(p) : EsitoDelPasso(p.steps[j]) # "ok"}
           primo == CHOOSE j \in rifiuti : \A k \in rifiuti : j <= k
<1>1. p \in Pipeline /\ validate(p, p.inputs, TuttoInRegola) = "ok"
  BY PianiAssunti DEF PianoValido
<1>2. rifiuti # {} => EsitoDelPasso(p.steps[primo]) = "ok"
  BY <1>1 DEF validate, TuttoInRegola
<1>3. rifiuti = {}
  <2> SUFFICES ASSUME rifiuti # {} PROVE FALSE
    OBVIOUS
  <2>1. \E j \in rifiuti : \A k \in rifiuti : j <= k
    <3>1. rifiuti \subseteq Nat
      BY TipiDelPiano DEF Indici
    <3> HIDE DEF rifiuti
    <3> QED
      BY <3>1, MinimoDi
  <2>2. primo \in rifiuti
    <3> HIDE DEF rifiuti
    <3> QED
      BY <2>1
  <2> QED
    BY <1>2, <2>2
<1>4. verifica_arieta(p.steps[i].op, Len(p.steps[i].inputs)) = "ok"
  BY <1>3 DEF EsitoDelPasso
<1>5. p.steps[i] \in Passo
  BY <1>1 DEF Pipeline, Indici
<1>6. /\ p.steps[i].inputs \in Seq(Nomi)
      /\ p.steps[i].op.arieta \in {"Unary", "BinaryOrdered", "NAry"}
  BY <1>5 DEF Passo, Descrittore, Arieta
<1>7. Len(p.steps[i].inputs) >= 1
  <2> DEFINE d == p.steps[i].op
             n == Len(p.steps[i].inputs)
  <2>1. n \in Nat
    BY <1>6
  <2>2. d.arieta = "Unary" /\ n # 1 => verifica_arieta(d, n) # "ok"
    BY DEF verifica_arieta
  <2>3. d.arieta = "BinaryOrdered" /\ n # 2 => verifica_arieta(d, n) # "ok"
    BY DEF verifica_arieta
  <2>4. d.arieta = "NAry" /\ n < 2 => verifica_arieta(d, n) # "ok"
    BY DEF verifica_arieta
  <2> QED
    BY <1>4, <1>6, <2>1, <2>2, <2>3, <2>4
<1> QED
  BY <1>6, <1>7 DEF ToSet

\* What step i makes of the names S that carry the rows of a plan input.
Avanti(p, S, i) ==
    IF p.steps[i].inputs[1] \in S /\ p.steps[i].op.conserva
      THEN S \cup {p.steps[i].out}
      ELSE S

\* g is `provenance` along the first n steps.
ProvenienzaFino(p, g, n) ==
    g = [i \in 0 .. n |-> IF i = 0 THEN ToSet(p.inputs) ELSE Avanti(p, g[i - 1], i)]

LEMMA ProvenienzaEsiste ==
    ASSUME NEW p, NEW N \in Nat
    PROVE  \E g : ProvenienzaFino(p, g, N)
<1> DEFINE T == {n \in Nat : ~ \E g : ProvenienzaFino(p, g, n)}
<1> SUFFICES ASSUME T # {} PROVE FALSE
  OBVIOUS
<1>1. PICK m \in T : \A n \in T : m <= n
  <2> HIDE DEF T
  <2>1. T \subseteq Nat
    BY DEF T
  <2> QED
    BY <2>1, MinimoDi
<1>2. CASE m = 0
  <2> DEFINE g == [i \in 0 .. 0 |-> ToSet(p.inputs)]
  <2>1. g = [i \in 0 .. 0 |-> IF i = 0 THEN ToSet(p.inputs) ELSE Avanti(p, g[i - 1], i)]
    OBVIOUS
  <2>2. ProvenienzaFino(p, g, 0)
    BY <2>1 DEF ProvenienzaFino
  <2> QED
    BY <1>2, <2>2
<1>3. CASE m # 0
  <2>1. m \in Nat /\ m - 1 \in Nat /\ ~ (m <= m - 1)
    BY <1>3
  <2>2. PICK h : ProvenienzaFino(p, h, m - 1)
    BY <1>1, <2>1
  <2> DEFINE g == [i \in 0 .. m |-> IF i = m THEN Avanti(p, h[m - 1], m) ELSE h[i]]
  <2>3. ASSUME NEW i \in 0 .. m
        PROVE  g[i] = IF i = 0 THEN ToSet(p.inputs) ELSE Avanti(p, g[i - 1], i)
    <3>1. CASE i = m
      <4>1. g[i - 1] = h[m - 1]
        BY <1>3, <3>1, <2>1
      <4> QED
        BY <1>3, <3>1, <4>1
    <3>2. CASE i # m
      <4>1. i \in 0 .. (m - 1) /\ g[i] = h[i]
        BY <2>1, <3>2
      <4>2. h[i] = IF i = 0 THEN ToSet(p.inputs) ELSE Avanti(p, h[i - 1], i)
        BY <2>2, <4>1 DEF ProvenienzaFino
      <4>3. i # 0 => g[i - 1] = h[i - 1]
        BY <2>1, <3>2
      <4> QED
        BY <4>1, <4>2, <4>3
    <3> QED
      BY <3>1, <3>2
  <2>4. ProvenienzaFino(p, g, m)
    <3>1. g = [i \in 0 .. m |-> g[i]]
      OBVIOUS
    <3> HIDE DEF g
    <3>2. g = [i \in 0 .. m |-> IF i = 0 THEN ToSet(p.inputs) ELSE Avanti(p, g[i - 1], i)]
      BY <2>3, <3>1
    <3> QED
      BY <3>2 DEF ProvenienzaFino
  <2> QED
    BY <2>4
<1> QED
  BY <1>2, <1>3

\* The equations of `provenance`, and the names it can hold.
LEMMA ProvenienzaPassi ==
    ASSUME NEW p \in Piani
    PROVE  /\ Provenienza(p)[0] = ToSet(p.inputs)
           /\ \A i \in Indici(p) : Provenienza(p)[i] = Avanti(p, Provenienza(p)[i - 1], i)
<1> DEFINE N == Len(p.steps)
           F == CHOOSE g : ProvenienzaFino(p, g, N)
<1>0. N \in Nat
  BY TipiDelPiano
<1>1. ProvenienzaFino(p, F, N)
  BY <1>0, ProvenienzaEsiste
<1>2. Provenienza(p) = F
  BY DEF Provenienza, ProvenienzaFino, Avanti
<1> HIDE DEF F
<1>3. F = [i \in 0 .. N |-> IF i = 0 THEN ToSet(p.inputs) ELSE Avanti(p, F[i - 1], i)]
  BY <1>1 DEF ProvenienzaFino
<1>4. F[0] = ToSet(p.inputs)
  BY <1>0, <1>3
<1>5. \A i \in 1 .. N : F[i] = Avanti(p, F[i - 1], i)
  BY <1>0, <1>3
<1> QED
  BY <1>2, <1>4, <1>5 DEF Indici

LEMMA ProvenienzaDefiniti ==
    ASSUME NEW p \in Piani, NEW i \in 0 .. Len(p.steps)
    PROVE  Provenienza(p)[i] \subseteq Definiti(p, i + 1)
<1> DEFINE T == {n \in 0 .. Len(p.steps) : ~ (Provenienza(p)[n] \subseteq Definiti(p, n + 1))}
<1>0. Len(p.steps) \in Nat
  BY TipiDelPiano
<1> SUFFICES ASSUME T # {} PROVE FALSE
  OBVIOUS
<1>1. PICK m \in T : \A n \in T : m <= n
  <2>1. T \subseteq Nat
    BY <1>0
  <2> HIDE DEF T
  <2> QED
    BY <2>1, MinimoDi
<1>2. CASE m = 0
  BY <1>1, <1>2, ProvenienzaPassi DEF Definiti
<1>3. CASE m # 0
  <2>1. /\ m \in Indici(p)
        /\ m - 1 \in 0 .. Len(p.steps) /\ ~ (m <= m - 1)
        /\ (m - 1) + 1 = m
    BY <1>0, <1>3 DEF Indici
  <2>2. Provenienza(p)[m - 1] \subseteq Definiti(p, m)
    <3>1. m - 1 \notin T
      <4> HIDE DEF T
      <4> QED
        BY <1>1, <2>1
    <3> QED
      BY <2>1, <3>1
  <2>3. Provenienza(p)[m] \subseteq Provenienza(p)[m - 1] \cup {p.steps[m].out}
    BY <2>1, ProvenienzaPassi DEF Avanti
  <2>4. Definiti(p, m) \cup {p.steps[m].out} \subseteq Definiti(p, m + 1)
    <3>1. 1 .. (m - 1) \subseteq 1 .. ((m + 1) - 1) /\ m \in 1 .. ((m + 1) - 1)
      BY <1>0, <1>3
    <3> QED
      BY <3>1 DEF Definiti
  <2> QED
    BY <2>2, <2>3, <2>4
<1> QED
  BY <1>2, <1>3

\* A resident table carries the rows of a plan input exactly when `provenance`,
\* computed on the plan alone, says so of its name.
Attribuzione ==
    pc = "ingressi" \/ AlConfine =>
        \A n \in Residenti(vivi) :
            vivi[n].sorgente <=> n \in Provenienza(piano)[passo - 1]

LEMMA AttribuzioneRende ==
    ASSUME IInv, Attribuzione, NEW t \in Tabelle, NEW d, KernelRende(t, d)
    PROVE  Attribuzione'
<1> DEFINE con_uscita == byte_vivi(BufferVivi(vivi) \cup t.buffer)
           rifiuto == RifiutoUscita(t, d, con_uscita)
           w == [vivi EXCEPT ![PassoCorrente.out] = t]
           v == Toglie(w, Liberati(piano, passo))
<1>1. CASE rifiuto[1] # "ok"
  BY <1>1 DEF KernelRende, Esce, Attribuzione, AlConfine
<1>2. CASE rifiuto[1] = "ok"
  <2>1. /\ vivi' = v /\ piano' = piano /\ passo' = passo + 1 /\ pc = "kernel"
        /\ UscitaPossibile(t)
    BY <1>2 DEF KernelRende
  <2>2. /\ vivi \in Mappe /\ passo \in Indici(piano) /\ piano \in Piani
        /\ uscite = <<>>
        /\ Residenti(vivi) = Necessari(piano, passo)
    BY <2>1, NumeriDelRunner DEF IInv, Controllo, TypeOK, ResidentiEsatti, AlConfine
  <2>3. PICK o \in Nomi : o = PassoCorrente.out
    BY <2>2, TipiDelPiano DEF PassoCorrente
  <2>4. /\ w \in Mappe
        /\ Residenti(w) = Residenti(vivi) \cup {o}
        /\ w[o] = t
        /\ \A m \in Residenti(w) : m # o => w[m] = vivi[m]
    <3>1. w = Mette(vivi, o, t)
      BY <2>3 DEF Mette
    <3> HIDE DEF w
    <3> QED
      BY <2>2, <3>1, InserisceTabella
  <2> HIDE DEF w
  <2>5. /\ Residenti(v) \subseteq Residenti(w)
        /\ \A n \in Residenti(v) : v[n] = w[n]
    BY <2>4, TogliePrende
  <2> HIDE DEF v
  <2> DEFINE S == Provenienza(piano)[passo - 1]
             uno == PassoCorrente.inputs[1]
  <2>6. /\ passo \in Nat /\ (passo + 1) - 1 = passo
        /\ passo - 1 \in 0 .. Len(piano.steps) /\ (passo - 1) + 1 = passo
    BY <2>2, TipiDelPiano DEF Indici
  <2>7. Provenienza(piano)[passo' - 1] = Avanti(piano, S, passo)
    BY <2>1, <2>2, <2>6, ProvenienzaPassi
  <2>8. o \notin S
    <3>1. S \subseteq Definiti(piano, passo)
      BY <2>2, <2>6, ProvenienzaDefiniti
    <3>2. o \notin Definiti(piano, passo)
      BY <2>2, <2>3, PianoSSA DEF NomiSSA, PassoCorrente
    <3> QED
      BY <3>1, <3>2
  <2>9. uno \in Residenti(vivi)
    BY <2>2, PrimoIngresso, NecessariIngressi DEF PassoCorrente
  <2>10. \A n \in Residenti(vivi) : vivi[n].sorgente <=> n \in S
    BY <2>1, <2>2 DEF Attribuzione, AlConfine
  <2>11. t.sorgente <=> uno \in S /\ PassoCorrente.op.conserva
    <3>1. /\ t.sorgente \in BOOLEAN
          /\ vivi[uno].sorgente \in BOOLEAN
      BY <2>2, <2>9 DEF Tabelle, Mappe, Residenti
    <3>2. PassoCorrente.op.conserva => t.sorgente = vivi[uno].sorgente
      BY <2>1 DEF UscitaPossibile
    <3>3. ~ PassoCorrente.op.conserva => ~ t.sorgente
      BY <2>1 DEF UscitaPossibile
    <3>4. vivi[uno].sorgente <=> uno \in S
      BY <2>9, <2>10
    <3> HIDE DEF S, uno
    <3> QED
      BY <3>1, <3>2, <3>3, <3>4
  <2>12. /\ o \in Avanti(piano, S, passo) <=> uno \in S /\ PassoCorrente.op.conserva
         /\ \A n : n # o => (n \in Avanti(piano, S, passo) <=> n \in S)
    BY <2>3, <2>8 DEF Avanti, PassoCorrente
  <2>13. ASSUME NEW n \in Residenti(v)
         PROVE  v[n].sorgente <=> n \in Avanti(piano, S, passo)
    <3> HIDE DEF S, uno
    <3>1. CASE n = o
      BY <2>4, <2>5, <2>11, <2>12, <3>1
    <3>2. CASE n # o
      <4>1. n \in Residenti(vivi) /\ v[n] = vivi[n]
        BY <2>4, <2>5, <3>2
      <4> QED
        BY <2>10, <2>12, <3>2, <4>1
    <3> QED
      BY <3>1, <3>2
  <2> QED
    BY <2>1, <2>7, <2>13 DEF Attribuzione
<1> QED
  BY <1>1, <1>2

LEMMA PassoAttribuzione == IInv /\ Attribuzione /\ [Next]_vars => Attribuzione'
<1> SUFFICES ASSUME IInv, Attribuzione, [Next]_vars PROVE Attribuzione'
  OBVIOUS
<1>0. ASSUME NEW e, Esce(e) PROVE Attribuzione'
  BY <1>0 DEF Esce, Attribuzione, AlConfine
<1>00. ASSUME UNCHANGED <<piano, passo, vivi>>,
              (pc = "ingressi" \/ AlConfine)' => (pc = "ingressi" \/ AlConfine)
       PROVE  Attribuzione'
  BY <1>00 DEF Attribuzione
<1>1. ASSUME NEW n \in Nomi, NEW t \in Tabelle, NEW d, CaricaIngresso(n, t, d)
      PROVE  Attribuzione'
  <2>1. CASE pc' = "fine"
    BY <2>1 DEF Attribuzione, AlConfine
  <2>2. CASE pc' # "fine"
    <3>1. /\ pc = "ingressi" /\ n \in ToSet(piano.inputs)
          /\ t.sorgente /\ vivi' = Mette(vivi, n, t)
          /\ UNCHANGED <<piano, passo>>
      BY <1>1, <2>2 DEF CaricaIngresso, Esce, Mette
    <3>2. Provenienza(piano)[passo - 1] = ToSet(piano.inputs)
      BY <3>1, ProvenienzaPassi DEF IInv, Controllo, TypeOK
    <3>3. /\ Residenti(vivi') = Residenti(vivi) \cup {n}
          /\ vivi'[n] = t
          /\ \A m \in Residenti(vivi') : m # n => vivi'[m] = vivi[m]
      BY <3>1, InserisceTabella, NumeriDelRunner DEF IInv
    <3>4. ASSUME NEW m \in Residenti(vivi')
          PROVE  vivi'[m].sorgente <=> m \in Provenienza(piano)[passo - 1]
      <4>1. CASE m = n
        BY <3>1, <3>2, <3>3, <4>1
      <4>2. CASE m # n
        BY <3>1, <3>3, <4>2 DEF Attribuzione
      <4> QED
        BY <4>1, <4>2
    <3> QED
      BY <3>1, <3>4 DEF Attribuzione
  <2> QED
    BY <2>1, <2>2
<1>2. CASE Avvio
  <2>1. CASE pc' = "fine"
    BY <2>1 DEF Attribuzione, AlConfine
  <2>2. CASE pc' # "fine"
    <3>1. /\ pc = "ingressi" /\ UNCHANGED <<piano, passo, uscite>>
          /\ vivi' = Toglie(vivi, LiberatiAllAvvio(piano))
      BY <1>2, <2>2 DEF Avvio, Esce
    <3>2. /\ Residenti(vivi') \subseteq Residenti(vivi)
          /\ \A n \in Residenti(vivi') : vivi'[n] = vivi[n]
      BY <3>1, TogliePrende, NumeriDelRunner DEF IInv
    <3> QED
      BY <3>1, <3>2 DEF Attribuzione
  <2> QED
    BY <2>1, <2>2
<1>3. CASE VerificaSegnale
  BY <1>0, <1>00, <1>3 DEF VerificaSegnale, AlConfine
<1>4. CASE VerificaOrologio
  BY <1>0, <1>00, <1>4 DEF VerificaOrologio, AlConfine
<1>5. ASSUME NEW p \in Previsioni, Previsione(p) PROVE Attribuzione'
  BY <1>0, <1>00, <1>5 DEF Previsione, AlConfine
<1>6. ASSUME NEW c, NEW e, KernelFallisce(c, e) PROVE Attribuzione'
  BY <1>0, <1>6 DEF KernelFallisce
<1>7. CASE Finale
  <2>1. pc' = "fine" \/ (pc' = "segnale" /\ uscite' # <<>>)
    <3>1. 1 \in DOMAIN piano.outputs
      BY TipiDelPiano DEF IInv, TypeOK
    <3>2. \/ pc' = "fine"
          \/ /\ pc' = "segnale"
             /\ uscite' = [k \in DOMAIN piano.outputs |->
                             <<piano.outputs[k], vivi[piano.outputs[k]]>>]
      BY <1>7 DEF Finale, Esce
    <3>3. CASE pc' = "segnale"
      <4>1. 1 \in DOMAIN uscite'
        BY <3>1, <3>2, <3>3
      <4> QED
        BY <3>3, <4>1
    <3> QED
      BY <3>2, <3>3
  <2> QED
    BY <2>1 DEF Attribuzione, AlConfine
<1>8. CASE Annulla \/ Scade
  BY <1>00, <1>8 DEF Annulla, Scade, AlConfine
<1>9. CASE Terminato \/ UNCHANGED vars
  BY <1>00, <1>9 DEF Terminato, vars, AlConfine
<1> QED
  BY <1>1, <1>2, <1>3, <1>4, <1>5, <1>6, <1>7, <1>8, <1>9, AttribuzioneRende
  DEF Next, Esecutore

\* The base of the row indices decided in validation is true of the data whenever
\* a kernel runs, for every valid plan: no diagnostic points at rows of a table
\* that is not a plan input.
THEOREM BaseSempreFedele == Spec => []BaseFedele
<1>1. Init => Attribuzione
  BY DEF Init, Attribuzione, Residenti, Vuoto
<1>2. IInv /\ Attribuzione => BaseFedele
  <2> SUFFICES ASSUME IInv, Attribuzione, pc = "kernel"
               PROVE  base_indici(piano, passo) = "Sorgente"
                        <=> vivi[PassoCorrente.inputs[1]].sorgente
    BY DEF BaseFedele
  <2>1. /\ piano \in Piani /\ passo \in Indici(piano) /\ AlConfine
        /\ Residenti(vivi) = Necessari(piano, passo)
    BY DEF IInv, TypeOK, Controllo, ResidentiEsatti, AlConfine
  <2>2. PassoCorrente.inputs[1] \in Residenti(vivi)
    BY <2>1, PrimoIngresso, NecessariIngressi DEF PassoCorrente
  <2>3. base_indici(piano, passo) = "Sorgente"
          <=> PassoCorrente.inputs[1] \in Provenienza(piano)[passo - 1]
    BY DEF base_indici, PassoCorrente
  <2> QED
    BY <2>1, <2>2, <2>3 DEF Attribuzione
<1> QED
  BY <1>1, <1>2, Invariante, PassoAttribuzione, PTL DEF Spec

-----------------------------------------------------------------------------
(* The report *)

\* Every name of a validated plan that is not an output has exactly one release:
\* before the first step when no step touches it, after the last one that does
\* otherwise.  An output has none.
LEMMA UnSoloRilascio ==
    ASSUME NEW p \in Piani, NEW n \in Definiti(p, Len(p.steps) + 1)
    PROVE  LET rilasci == {i \in Indici(p) : n \in Liberati(p, i)}
                          \cup (IF n \in LiberatiAllAvvio(p) THEN {0} ELSE {})
           IN IF n \in ToSet(p.outputs) THEN rilasci = {} ELSE \E i : rilasci = {i}
<1> DEFINE S == {i \in Indici(p) : n \in Liberati(p, i)}
           R == S \cup (IF n \in LiberatiAllAvvio(p) THEN {0} ELSE {})
           T == {i \in Indici(p) : n \in Tocca(p, i)}
<1>0. Len(p.steps) \in Nat
  BY TipiDelPiano
<1>1. CASE n \in ToSet(p.outputs)
  BY <1>1 DEF Liberati, UltimoUso, LiberatiAllAvvio
<1>2. CASE n \notin ToSet(p.outputs) /\ T = {}
  <2>1. S = {}
    BY <1>2 DEF Liberati, UltimoUso
  <2>2. n \in ToSet(p.inputs)
    <3>1. \A j \in Indici(p) : n # p.steps[j].out
      BY <1>2 DEF Tocca
    <3>2. 1 .. ((Len(p.steps) + 1) - 1) = Indici(p)
      BY <1>0 DEF Indici
    <3> QED
      BY <3>1, <3>2 DEF Definiti
  <2>3. n \in LiberatiAllAvvio(p)
    BY <1>2, <2>2 DEF LiberatiAllAvvio
  <2>4. R = {0}
    BY <2>1, <2>3
  <2> QED
    BY <1>2, <2>4
<1>3. CASE n \notin ToSet(p.outputs) /\ T # {}
  <2>1. PICK m \in T : \A i \in T : i <= m
    <3> DEFINE U == {Len(p.steps) - i : i \in T}
    <3>1. U \subseteq Nat /\ U # {}
      <4>1. \A i \in T : Len(p.steps) - i \in Nat
        BY <1>0 DEF Indici
      <4> HIDE DEF T
      <4> QED
        BY <1>3, <4>1
    <3>2. PICK x \in U : \A y \in U : x <= y
      <4> HIDE DEF U
      <4> QED
        BY <3>1, MinimoDi
    <3>3. PICK m \in T : x = Len(p.steps) - m
      OBVIOUS
    <3>4. ASSUME NEW i \in T PROVE i <= m
      <4>1. Len(p.steps) - m <= Len(p.steps) - i
        BY <3>2, <3>3
      <4>2. i \in Int /\ m \in Int
        BY <1>0 DEF Indici
      <4> HIDE DEF T
      <4> QED
        BY <1>0, <4>1, <4>2
    <3> HIDE DEF T, U
    <3> QED
      BY <3>4
  <2>2. n \in Nomi
    BY <2>1, TipiDelPiano DEF Tocca, ToSet
  <2>3. n \notin LiberatiAllAvvio(p)
    BY <2>1 DEF LiberatiAllAvvio
  <2>4. ASSUME NEW i \in Indici(p)
        PROVE  n \in Liberati(p, i) <=> i = m
    <3>1. i \in Int /\ m \in Int /\ m \in Indici(p) /\ n \in Tocca(p, m)
      BY <1>0, <2>1 DEF Indici
    <3>2. CASE i = m
      <4>1. \A j \in Indici(p) : j > m => n \notin Tocca(p, j)
        BY <1>0, <2>1 DEF Indici
      <4> QED
        BY <1>3, <2>2, <3>1, <3>2, <4>1 DEF Liberati, UltimoUso
    <3>3. CASE i # m
      <4> SUFFICES ASSUME n \in Liberati(p, i) PROVE FALSE
        BY <3>3
      <4>1. i \in T /\ ~ (m > i)
        BY <3>1 DEF Liberati, UltimoUso
      <4>2. i <= m
        BY <2>1, <4>1
      <4> QED
        BY <3>1, <3>3, <4>1, <4>2
    <3> QED
      BY <3>2, <3>3
  <2>5. S = {m}
    BY <2>1, <2>4
  <2>6. R = {m}
    BY <2>3, <2>5
  <2> QED
    BY <1>3, <2>6
<1> QED
  BY <1>1, <1>2, <1>3

\* The rows of the report written so far, the link from the last of them to the
\* tables resident at a boundary, and the releases they record.
Riga(r, i) ==
    /\ r.passi[i].byte_vivi_con_uscita =
         (IF i = 1 THEN r.iniziali ELSE r.passi[i - 1].byte_vivi)
           + r.passi[i].byte_output_esclusivi
    /\ r.passi[i].margine_kernel =
         Budget - (IF i = 1 THEN r.iniziali ELSE r.passi[i - 1].byte_vivi)
    /\ r.passi[i].byte_previsti <= r.passi[i].margine_kernel
    /\ r.passi[i].byte_vivi <= r.passi[i].byte_vivi_con_uscita
    /\ r.passi[i].byte_vivi_con_uscita <= Budget

Rapporto ==
    /\ \A i \in 1 .. Len(report.passi) : Riga(report, i)
    /\ \A i \in 1 .. Len(report.passi) : report.passi[i].liberati = Liberati(piano, i)
    /\ AlConfine => ByteVivi(vivi) = ByteDopo(passo - 1)
    /\ pc # "ingressi" /\ esito.stato # "errore" => report.avvio = LiberatiAllAvvio(piano)
    /\ esito.stato = "reso" => passo = Len(piano.steps) + 1
    /\ pc = "ingressi" => report.passi = <<>>

LEMMA RapportoRende ==
    ASSUME IInv, Rapporto, NEW t \in Tabelle,
           NEW d \in {"ok", "Schema", "ResourceLimit", "Internal"}, KernelRende(t, d)
    PROVE  Rapporto'
<1> DEFINE con_uscita == byte_vivi(BufferVivi(vivi) \cup t.buffer)
           rifiuto == RifiutoUscita(t, d, con_uscita)
           liberati == Liberati(piano, passo)
           w == [vivi EXCEPT ![PassoCorrente.out] = t]
           v == Toglie(w, liberati)
<1>0. /\ con_uscita \in Nat
      /\ ByteVivi(vivi) <= con_uscita
      /\ rifiuto[1] = "ok" => con_uscita <= Budget
  BY RifiutiDellUscita
<1>1. CASE rifiuto[1] # "ok"
  BY <1>1 DEF KernelRende, Esce, Errore, Rapporto, AlConfine
<1>2. CASE rifiuto[1] = "ok"
  <2>1. /\ pc = "kernel"
        /\ vivi' = v
        /\ report' = [report EXCEPT !.passi = Append(@, ReportPasso(con_uscita, v))]
        /\ passo' = passo + 1
        /\ pc' # "ingressi"
        /\ UNCHANGED <<piano, uscite, esito>>
    BY <1>2 DEF KernelRende
  <2>2. /\ vivi \in Mappe
        /\ ByteVivi(vivi) \in Nat
        /\ BufferVivi(vivi) \subseteq Buffer
        /\ Budget \in Nat /\ MaxU64 \in Nat
        /\ Len(piano.steps) \in Nat
    BY NumeriDelRunner DEF IInv
  <2>3. /\ passo \in Indici(piano) /\ uscite = <<>> /\ piano \in Piani
        /\ AlConfine
        /\ passo \in Nat /\ passo >= 1
        /\ previsti \in Nat /\ ByteVivi(vivi) + previsti <= Budget
        /\ esito = InCorso
    BY <2>1, <2>2 DEF IInv, Controllo, TypeOK, AlConfine, Indici, BudgetAiConfini
  <2>4. ByteVivi(v) \in Nat /\ ByteVivi(v) <= con_uscita
    <3>1. BufferVivi(vivi) \cup t.buffer \subseteq Buffer
      BY <2>2 DEF Tabelle
    <3>2. PICK o \in Nomi : o = PassoCorrente.out
      BY <2>3, TipiDelPiano DEF PassoCorrente
    <3>3. w = Mette(vivi, o, t)
      BY <3>2 DEF Mette
    <3> HIDE DEF w
    <3>4. w \in Mappe /\ BufferVivi(w) \subseteq BufferVivi(vivi) \cup t.buffer
      BY <2>2, <3>3, InserisceTabella
    <3>5. BufferVivi(v) \subseteq BufferVivi(vivi) \cup t.buffer
      BY <3>4, TogliePrende
    <3> HIDE DEF v
    <3> QED
      BY <3>1, <3>5, ByteMonotoni, ByteFiniti DEF ByteVivi
  <2> DEFINE riga == ReportPasso(con_uscita, v)
             prima == ByteDopo(passo - 1)
  <2>5. prima = ByteVivi(vivi)
    BY <2>3 DEF Rapporto
  <2> HIDE DEF con_uscita, v, w, rifiuto
  <2>6. /\ riga.byte_vivi_con_uscita = con_uscita
        /\ riga.byte_output_esclusivi = con_uscita - ByteVivi(vivi)
        /\ riga.margine_kernel = Budget - ByteVivi(vivi)
        /\ riga.byte_previsti = previsti
        /\ riga.byte_vivi = ByteVivi(v)
        /\ riga.liberati = Liberati(piano, passo)
    BY DEF ReportPasso
  <2>7. /\ report.passi \in Seq(Righe)
        /\ Len(report.passi) = passo - 1
        /\ report' = [iniziali |-> report.iniziali, avvio |-> report.avvio,
                      passi |-> Append(report.passi, riga)]
    BY <2>1 DEF IInv, TypeOK
  <2> HIDE DEF riga
  <2>8. /\ report'.iniziali = report.iniziali
        /\ report'.avvio = report.avvio
        /\ report'.passi = Append(report.passi, riga)
    BY <2>7
  <2>9. /\ Len(report'.passi) = passo
        /\ report'.passi[passo] = riga
        /\ \A i \in 1 .. passo - 1 : report'.passi[i] = report.passi[i]
    BY <2>3, <2>7, <2>8
  <2>10. ASSUME NEW i \in 1 .. Len(report'.passi)
         PROVE  Riga(report', i) /\ report'.passi[i].liberati = Liberati(piano, i)
    <3>1. i \in Nat /\ i >= 1 /\ i <= passo
      BY <2>3, <2>9
    <3>2. CASE i = passo
      <4>1. (IF i = 1 THEN report'.iniziali ELSE report'.passi[i - 1].byte_vivi) = prima
        <5>1. CASE i = 1
          BY <2>8, <3>2, <5>1 DEF ByteDopo
        <5>2. CASE i # 1
          <6>1. passo - 1 \in 1 .. passo - 1 /\ passo - 1 # 0
            BY <2>3, <3>2, <5>2
          <6> QED
            BY <2>9, <3>2, <5>2, <6>1 DEF ByteDopo
        <5> QED
          BY <5>1, <5>2
      <4>2. /\ con_uscita = ByteVivi(vivi) + (con_uscita - ByteVivi(vivi))
            /\ previsti <= Budget - ByteVivi(vivi)
        BY <1>0, <2>2, <2>3
      <4>3. con_uscita <= Budget
        BY <1>0, <1>2
      <4> HIDE DEF prima
      <4> QED
        BY <2>4, <2>5, <2>6, <2>9, <3>2, <4>1, <4>2, <4>3 DEF Riga
    <3>3. CASE i # passo
      <4>1. i \in 1 .. passo - 1 /\ i \in 1 .. Len(report.passi)
        BY <2>3, <2>7, <3>1, <3>3
      <4>2. report'.passi[i] = report.passi[i]
        BY <2>9, <4>1
      <4>3. i # 1 => report'.passi[i - 1] = report.passi[i - 1]
        BY <2>9, <2>3, <3>1, <4>1
      <4>4. Riga(report, i) /\ report.passi[i].liberati = Liberati(piano, i)
        BY <4>1 DEF Rapporto
      <4> QED
        BY <2>8, <4>2, <4>3, <4>4 DEF Riga
    <3> QED
      BY <3>2, <3>3
  <2>11. ByteVivi(vivi') = ByteDopo(passo - 1)'
    <3>1. passo' - 1 = passo /\ passo # 0
      BY <2>1, <2>3
    <3> QED
      BY <2>1, <2>6, <2>9, <3>1 DEF ByteDopo
  <2>12. esito'.stato = "in_corso"
    BY <2>1, <2>3 DEF InCorso
  <2>13. report'.avvio = LiberatiAllAvvio(piano')
    BY <2>1, <2>3, <2>8 DEF Rapporto, InCorso
  <2> QED
    BY <2>1, <2>10, <2>11, <2>12, <2>13 DEF Rapporto
<1> QED
  BY <1>1, <1>2

LEMMA PassoRapporto == IInv /\ Rapporto /\ [Next]_vars => Rapporto'
<1> SUFFICES ASSUME IInv, Rapporto, [Next]_vars PROVE Rapporto'
  OBVIOUS
<1>0. ASSUME NEW c, NEW q, NEW e, Esce(Errore(c, q, e)) PROVE Rapporto'
  BY <1>0 DEF Esce, Errore, Rapporto, AlConfine
<1>00. ASSUME UNCHANGED <<piano, passo, vivi, report, esito>>, AlConfine' => AlConfine,
              pc # "ingressi" /\ pc' # "ingressi"
       PROVE  Rapporto'
  BY <1>00 DEF Rapporto, ByteDopo
<1>1. ASSUME NEW n \in Nomi, NEW t \in Tabelle, NEW d, CaricaIngresso(n, t, d)
      PROVE  Rapporto'
  <2>1. CASE pc' = "fine"
    BY <1>0, <1>1, <2>1 DEF CaricaIngresso
  <2>2. CASE pc' # "fine"
    <3>1. pc' = "ingressi" /\ UNCHANGED <<pc, piano, passo, report, esito>>
      BY <1>1, <2>2 DEF CaricaIngresso, Esce
    <3> QED
      BY <3>1 DEF Rapporto, AlConfine
  <2> QED
    BY <2>1, <2>2
<1>2. CASE Avvio
  <2>1. CASE pc' = "fine"
    BY <1>0, <1>2, <2>1 DEF Avvio
  <2>2. CASE pc' # "fine"
    <3> DEFINE v == Toglie(vivi, LiberatiAllAvvio(piano))
    <3>1. /\ pc = "ingressi" /\ UNCHANGED <<piano, passo, uscite, esito>>
          /\ vivi' = v
          /\ report' = [report EXCEPT !.iniziali = ByteVivi(v),
                                      !.avvio = LiberatiAllAvvio(piano)]
          /\ pc' # "ingressi"
      BY <1>2, <2>2 DEF Avvio, Esce
    <3>2. /\ report' = [iniziali |-> ByteVivi(v), avvio |-> LiberatiAllAvvio(piano),
                        passi |-> report.passi]
      BY <3>1 DEF IInv, TypeOK
    <3> HIDE DEF v
    <3>3. /\ report'.iniziali = ByteVivi(v)
          /\ report'.avvio = LiberatiAllAvvio(piano)
          /\ report'.passi = <<>>
      BY <3>1, <3>2 DEF Rapporto
    <3>4. passo = 1 /\ esito = InCorso
      BY <3>1 DEF IInv, Controllo
    <3>5. ByteVivi(vivi') = ByteDopo(passo - 1)'
      BY <3>1, <3>3, <3>4 DEF ByteDopo
    <3>6. Len(report'.passi) = 0
      BY <3>3
    <3> QED
      BY <3>1, <3>3, <3>4, <3>5, <3>6 DEF Rapporto, InCorso
  <2> QED
    BY <2>1, <2>2
<1>3. CASE VerificaSegnale
  BY <1>0, <1>00, <1>3 DEF VerificaSegnale, AlConfine
<1>4. CASE VerificaOrologio
  <2>1. CASE esito' = esito
    BY <1>00, <1>4, <2>1 DEF VerificaOrologio, AlConfine, Esce, Errore, IInv, Controllo, InCorso
  <2>2. CASE pc' = "fine" /\ esito' = Reso
    <3>1. passo \notin Indici(piano) /\ UNCHANGED <<piano, passo, report>>
          /\ pc = "orologio"
      BY <1>4, <2>2 DEF VerificaOrologio, Esce, Errore, Reso, InCorso
    <3>2. passo = Len(piano.steps) + 1
      BY <3>1, NumeriDelRunner DEF IInv, TypeOK, Indici
    <3>3. report.avvio = LiberatiAllAvvio(piano)
      BY <3>1 DEF Rapporto, IInv, Controllo, InCorso
    <3> QED
      BY <2>2, <3>1, <3>2, <3>3 DEF Rapporto, AlConfine
  <2> QED
    BY <1>0, <1>4, <2>1, <2>2 DEF VerificaOrologio
<1>5. ASSUME NEW p \in Previsioni, Previsione(p) PROVE Rapporto'
  BY <1>0, <1>00, <1>5 DEF Previsione, AlConfine
<1>6. ASSUME NEW c, NEW e, KernelFallisce(c, e) PROVE Rapporto'
  BY <1>0, <1>6 DEF KernelFallisce
<1>7. CASE Finale
  <2>1. CASE pc' = "fine"
    BY <1>0, <1>7, <2>1 DEF Finale
  <2>2. CASE pc' # "fine"
    <3>1. /\ pc' = "segnale" /\ pc = "finale"
          /\ UNCHANGED <<piano, passo, report, esito>>
          /\ uscite' = [k \in DOMAIN piano.outputs |->
                          <<piano.outputs[k], vivi[piano.outputs[k]]>>]
      BY <1>7, <2>2 DEF Finale, Esce
    <3>2. 1 \in DOMAIN piano.outputs
      BY TipiDelPiano DEF IInv, TypeOK
    <3>3. 1 \in DOMAIN uscite'
      BY <3>1, <3>2
    <3>4. uscite' # <<>>
      BY <3>3
    <3> QED
      BY <3>1, <3>4 DEF Rapporto, AlConfine
  <2> QED
    BY <2>1, <2>2
<1>8. CASE Annulla \/ Scade
  BY <1>8 DEF Annulla, Scade, AlConfine, Rapporto, ByteDopo
<1>9. CASE Terminato \/ UNCHANGED vars
  BY <1>9 DEF Terminato, vars, AlConfine, Rapporto, ByteDopo
<1> QED
  BY <1>1, <1>2, <1>3, <1>4, <1>5, <1>6, <1>7, <1>8, <1>9, RapportoRende
  DEF Next, Esecutore

\* The report is one account from the first byte to the last and records every
\* release once, for every plan and whatever the kernels return.
THEOREM RapportoSempreConcatenato == Spec => []RapportoConcatenato
<1>1. Init => Rapporto
  BY DEF Init, Rapporto, AlConfine, InCorso
<1>2. IInv /\ Rapporto => RapportoConcatenato
  <2> SUFFICES ASSUME IInv, Rapporto PROVE RapportoConcatenato
    OBVIOUS
  <2>0. /\ piano \in Piani /\ Len(piano.steps) \in Nat
        /\ report.passi \in Seq(Righe) /\ Len(report.passi) = passo - 1
        /\ passo \in Nat
    BY NumeriDelRunner DEF IInv, TypeOK
  <2>1. ASSUME NEW i \in 1 .. Len(report.passi)
        PROVE  LET r == report.passi[i]
               IN /\ r.byte_vivi_con_uscita = ByteDopo(i - 1) + r.byte_output_esclusivi
                  /\ r.margine_kernel = Budget - ByteDopo(i - 1)
                  /\ r.byte_previsti <= r.margine_kernel
                  /\ r.byte_vivi <= r.byte_vivi_con_uscita
                  /\ r.byte_vivi_con_uscita <= Budget
    <3>1. Riga(report, i)
      BY DEF Rapporto
    <3>2. ByteDopo(i - 1) = IF i = 1 THEN report.iniziali ELSE report.passi[i - 1].byte_vivi
      <4>1. i \in Int /\ (i - 1 = 0 <=> i = 1)
        BY <2>0
      <4> QED
        BY <4>1 DEF ByteDopo
    <3> QED
      BY <3>1, <3>2 DEF Riga
  <2>2. AlConfine => ByteVivi(vivi) = ByteDopo(passo - 1)
    BY DEF Rapporto
  <2>3. ASSUME esito.stato = "reso", NEW n \in Definiti(piano, Len(piano.steps) + 1)
        PROVE  LET rilasci == {i \in 1 .. Len(report.passi) : n \in report.passi[i].liberati}
                              \cup (IF n \in report.avvio THEN {0} ELSE {})
               IN Cardinality(rilasci) = IF n \in ToSet(piano.outputs) THEN 0 ELSE 1
    <3> DEFINE Q == {i \in 1 .. Len(report.passi) : n \in report.passi[i].liberati}
                    \cup (IF n \in report.avvio THEN {0} ELSE {})
               R == {i \in Indici(piano) : n \in Liberati(piano, i)}
                    \cup (IF n \in LiberatiAllAvvio(piano) THEN {0} ELSE {})
    <3>1. pc # "ingressi" /\ report.avvio = LiberatiAllAvvio(piano)
      BY <2>3 DEF Rapporto, IInv, Controllo, InCorso
    <3>2. 1 .. Len(report.passi) = Indici(piano)
      BY <2>0, <2>3 DEF Rapporto, Indici
    <3>3. Q = R
      BY <3>1, <3>2 DEF Rapporto
    <3>4. IF n \in ToSet(piano.outputs) THEN R = {} ELSE \E i : R = {i}
      BY <2>0, UnSoloRilascio
    <3>5. Cardinality(R) = IF n \in ToSet(piano.outputs) THEN 0 ELSE 1
      <4> HIDE DEF R
      <4> QED
        BY <3>4, FS_EmptySet, FS_Singleton
    <3> QED
      BY <3>3, <3>5
  <2> QED
    BY <2>1, <2>2, <2>3 DEF RapportoConcatenato
<1> QED
  BY <1>1, <1>2, Invariante, PassoRapporto, PTL DEF Spec

=============================================================================
