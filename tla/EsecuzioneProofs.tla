-------------------------- MODULE EsecuzioneProofs --------------------------
(***************************************************************************)
(* Theorems about a plan from files to files: for every call, whatever     *)
(* paths alias each other, however often the other programs step in and    *)
(* whenever the interruption comes.                                        *)
(***************************************************************************)
EXTENDS EsecuzioneFile, FiniteSetTheorems, SequenceTheorems, TLAPS

-----------------------------------------------------------------------------
(* The live bytes *)

\* The bytes reached from buffers are finitely many, so byte_vivi is a number.
LEMMA ByteFiniti ==
    ASSUME NEW S, S \subseteq Buffer
    PROVE  IsFiniteSet(ByteRaggiunti(S)) /\ byte_vivi(S) \in Nat
<1>1. IsFiniteSet(S)
  BY FS_Subset, BufferAssunti
<1>2. ASSUME NEW b \in S PROVE IsFiniteSet(ByteDelBuffer(b))
  <2>1. b.capacita \in Nat
    BY BufferAssunti
  <2>2. IsFiniteSet(1 .. b.capacita)
    BY <2>1, FS_Interval
  <2>3. IsFiniteSet({b.inizio})
    BY FS_Singleton
  <2> QED
    BY <2>2, <2>3, FS_Product DEF ByteDelBuffer
<1>3. IsFiniteSet({ByteDelBuffer(b) : b \in S})
  <2> DEFINE f == [b \in S |-> ByteDelBuffer(b)]
             T == {ByteDelBuffer(b) : b \in S}
  <2>1. f \in Surjection(S, T)
    BY DEF Surjection
  <2> QED
    BY <1>1, <2>1, FS_Surjection
<1>4. IsFiniteSet(ByteRaggiunti(S))
  BY <1>2, <1>3, FS_UNION DEF ByteRaggiunti
<1> QED
  BY <1>4, FS_CardinalityType DEF byte_vivi

\* Reaching more buffers never lowers the live bytes.
LEMMA ByteMonotoni ==
    ASSUME NEW T, T \subseteq Buffer, NEW S, S \subseteq T
    PROVE  byte_vivi(S) <= byte_vivi(T)
<1>1. ByteRaggiunti(S) \subseteq ByteRaggiunti(T)
  BY DEF ByteRaggiunti
<1>2. IsFiniteSet(ByteRaggiunti(T))
  BY ByteFiniti
<1> QED
  BY <1>1, <1>2, FS_Subset DEF byte_vivi


-----------------------------------------------------------------------------
(* The inductive invariant, part by part *)

PrimaDiCaricare == {"nomi", "percorsi_ingressi", "percorsi_uscite", "riserva"}
InLettura == {"controllo_lettura", "lettura"}
PrimaDiScrivere == PrimaDiCaricare \cup InLettura \cup {"valida", "esecuzione"}
InScrittura == {"controllo_scrittura", "scrittura", "canonico"}
Punti == PrimaDiScrivere \cup InScrittura \cup {"fine"}

Contenuti == DiAltri \cup {Uscita(nome) : nome \in ToSet(r.outputs)}

\* Every variable has its type.
TypeOK ==
    /\ r \in Richieste
    /\ pc \in Punti
    /\ i \in Nat \ {0}
    /\ caricate \in Seq(SUBSET Buffer)
    /\ residuo \in Nat
    /\ restanti \in Seq([nome : STRING, buffer : SUBSET Buffer])
    /\ scritti \subseteq Voci
    /\ pubblicati \in Seq(STRING)
    /\ esito \in [stato : {"in_corso", "reso", "errore"},
                  categoria : Categorie \cup {"nessuna"},
                  effetto : {"none", "partial", "committed", "unknown"}]
    /\ file \in [Voci -> Contenuti]
    /\ temporaneo \in BOOLEAN /\ annullato \in BOOLEAN /\ scaduto \in BOOLEAN
    /\ concesse \in Nat
    /\ toccate \subseteq Voci
    /\ altri \in Nat

\* Which loop is under way, in which mode, and how far it is.
Indici ==
    /\ pc \in {"nomi", "percorsi_ingressi", "percorsi_uscite"} \cup InScrittura => r.modo = "file"
    /\ pc = "percorsi_ingressi" => i <= Len(r.ingressi) + 1
    /\ pc = "percorsi_uscite" => i <= Len(r.uscite) + 1
    /\ pc \in InLettura => i <= Len(r.ingressi)
    /\ pc = "valida" => i >= Len(r.ingressi)
    /\ pc = "esecuzione" => r.modo # "valida"
    /\ pc # "fine" => esito.stato = "in_corso" /\ esito.effetto = "none" /\ ~ temporaneo

\* After the first check every output has exactly one path.
NomiInPari ==
    r.modo = "file" /\ pc \notin {"nomi", "fine"} =>
        LET nomi == [k \in DOMAIN r.uscite |-> r.uscite[k].nome]
        IN ToSet(nomi) = ToSet(r.outputs) /\ IsInjective(nomi)

\* The outputs written are the first ones of the plan, the others are to come.
Scritture ==
    /\ pc \in PrimaDiScrivere => pubblicati = <<>> /\ scritti = {} /\ restanti = <<>>
    /\ r.modo # "file" => pubblicati = <<>>
    /\ Len(pubblicati) <= Len(r.outputs)
    /\ \A k \in DOMAIN pubblicati : pubblicati[k] = r.outputs[k]
    /\ pc \in InScrittura =>
         /\ Len(restanti) <= Len(r.outputs)
         /\ Len(pubblicati) = Len(r.outputs) - Len(restanti)
                              + (IF pc = "canonico" THEN 1 ELSE 0)
         /\ \A k \in DOMAIN restanti :
              restanti[k].nome = r.outputs[Len(r.outputs) - Len(restanti) + k]
    /\ pc \in {"scrittura", "canonico"} => restanti # <<>>

\* An input that was looked at is there, unless another program touched it.
IngressoPresente(k) ==
    DaFile(k) /\ Voce[r.ingressi[k].percorso] \notin toccate
        => file[Voce[r.ingressi[k].percorso]] = <<"file", "altri">>
IngressiPresenti ==
    /\ pc = "percorsi_ingressi" => \A k \in 1 .. (i - 1) : IngressoPresente(k)
    /\ r.modo = "file" /\ pc \notin {"nomi", "percorsi_ingressi", "fine"}
         => \A k \in Ingressi : IngressoPresente(k)

\* An output that was looked at is not an input, unless another program had removed
\* that input.
VociIngressi == {Voce[p] : p \in PercorsiIngressi}
UscitaDistinta(k) ==
    Voce[r.uscite[k].percorso] \in VociIngressi => Voce[r.uscite[k].percorso] \in toccate
UsciteDistinte ==
    /\ pc = "percorsi_uscite" => \A k \in 1 .. (i - 1) : UscitaDistinta(k)
    /\ r.modo = "file" /\ pc \notin {"nomi", "percorsi_ingressi", "percorsi_uscite", "fine"}
         => \A k \in DOMAIN r.uscite : UscitaDistinta(k)

\* The canonical paths are those of the outputs written (the last one is missing
\* while it is resolved); the one about to be written is none of them, unless
\* another program removed that file.
Canonici ==
    /\ pc \in {"controllo_scrittura", "scrittura"} =>
         \A k \in DOMAIN r.uscite :
             r.uscite[k].nome \in ToSet(pubblicati) => Voce[r.uscite[k].percorso] \in scritti
    /\ pc = "canonico" =>
         \A k \in DOMAIN r.uscite :
             r.uscite[k].nome \in ToSet(pubblicati) /\ r.uscite[k].nome # Head(restanti).nome
                 => Voce[r.uscite[k].percorso] \in scritti
    /\ pc \in InScrittura =>
         \A v \in scritti : \E k \in DOMAIN r.uscite :
             r.uscite[k].nome \in ToSet(pubblicati) /\ Voce[r.uscite[k].percorso] = v
    /\ pc = "scrittura" /\ Voce[Destinazione] \in scritti => Voce[Destinazione] \in toccate

\* Every table checked so far left the live bytes in the budget.
NelBudget ==
    /\ pc \in PrimaDiCaricare => caricate = <<>>
    /\ pc \in InLettura => byte_vivi(Vivi(caricate)) <= Budget
    /\ SpazioInLettura

\* The interruption allows at most the output under way.
Concesse ==
    Interrotta => Len(pubblicati) + (IF pc = "scrittura" THEN 1 ELSE 0) <= concesse

IInv ==
    /\ TypeOK
    /\ Indici
    /\ NomiInPari
    /\ Scritture
    /\ IngressiPresenti
    /\ UsciteDistinte
    /\ Canonici
    /\ NelBudget
    /\ Concesse
    /\ EffettoVeritiero
    /\ IngressiIntatti
    /\ NessunaUscitaPerduta

-----------------------------------------------------------------------------
(* The call *)

\* What a call is made of, its paths resolved to entries.
LEMMA TipiDellaRichiesta ==
    ASSUME TypeOK
    PROVE  /\ r \in Richiesta
           /\ r.ingressi \in Seq(Ingresso)
           /\ r.outputs \in Seq(STRING)
           /\ r.uscite \in Seq([nome : STRING, percorso : STRING])
           /\ Len(r.ingressi) \in Nat /\ Len(r.outputs) \in Nat /\ Len(r.uscite) \in Nat
           /\ Ingressi = 1 .. Len(r.ingressi)
           /\ DOMAIN r.uscite = 1 .. Len(r.uscite)
           /\ \A k \in Ingressi : r.ingressi[k] \in Ingresso
           /\ \A k \in Ingressi : DaFile(k) => Voce[r.ingressi[k].percorso] \in Voci
           /\ \A k \in DOMAIN r.uscite : Voce[r.uscite[k].percorso] \in Voci
<1>1. /\ r \in Richiesta
      /\ \A k \in DOMAIN r.ingressi :
              r.ingressi[k].tipo = "file" => r.ingressi[k].percorso \in DOMAIN Voce
      /\ \A k \in DOMAIN r.uscite : r.uscite[k].percorso \in DOMAIN Voce
  BY RichiesteAssunte DEF TypeOK
<1>2. /\ r.ingressi \in Seq(Ingresso)
      /\ r.outputs \in Seq(STRING)
      /\ r.uscite \in Seq([nome : STRING, percorso : STRING])
  BY <1>1 DEF Richiesta
<1> QED
  BY <1>1, <1>2, FileAssunti DEF Ingressi, DaFile

\* The tables in memory, and those loaded, are made of buffers.
LEMMA ViviTipo ==
    ASSUME TypeOK, NEW c \in Seq(SUBSET Buffer)
    PROVE  Vivi(c) \subseteq Buffer /\ byte_vivi(Vivi(c)) \in Nat
<1>1. UNION ToSet(c) \subseteq Buffer
  BY DEF ToSet
<1>2. InMemoria(Len(r.ingressi)) \subseteq Buffer
  <2>1. \A k \in Ingressi : r.ingressi[k].buffer \subseteq Buffer
    BY TipiDellaRichiesta DEF Ingresso
  <2> QED
    BY <2>1, TipiDellaRichiesta DEF InMemoria
<1>3. Vivi(c) \subseteq Buffer
  BY <1>1, <1>2 DEF Vivi
<1> QED
  BY <1>3, ByteFiniti

-----------------------------------------------------------------------------
(* The kinds of step *)

\* A return: it disturbs nothing but what the effect says.
LEMMA FinisceConserva ==
    ASSUME IInv, pc # "fine",
           NEW s \in {"reso", "errore"}, NEW c \in Categorie \cup {"nessuna"},
           NEW x \in {"none", "partial", "committed", "unknown"},
           Finisce(s, c, x),
           UNCHANGED <<r, scritti, pubblicati, file, mondo>>,
           caricate' \in Seq(SUBSET Buffer),
           residuo' \in Nat,
           restanti' \in Seq([nome : STRING, buffer : SUBSET Buffer]),
           temporaneo' \in BOOLEAN,
           EffettoVeritiero'
    PROVE  IInv'
<1>1. /\ pc' = "fine" /\ i' = i
      /\ esito' = [stato |-> s, categoria |-> c, effetto |-> x]
      /\ r' = r /\ pubblicati' = pubblicati /\ scritti' = scritti /\ file' = file
      /\ concesse' = concesse /\ toccate' = toccate /\ annullato' = annullato
      /\ scaduto' = scaduto /\ altri' = altri
  BY DEF Finisce, mondo
<1>2. TypeOK'
  BY <1>1 DEF IInv, TypeOK, Contenuti, Punti
<1>3. Indici' /\ NomiInPari' /\ IngressiPresenti' /\ UsciteDistinte'
  BY <1>1 DEF Indici, NomiInPari, IngressiPresenti, UsciteDistinte, InScrittura, InLettura
<1>4. Scritture'
  BY <1>1 DEF IInv, Scritture, PrimaDiScrivere, PrimaDiCaricare, InLettura, InScrittura
<1>5. Canonici' /\ NelBudget'
  BY <1>1 DEF Canonici, NelBudget, SpazioInLettura, PrimaDiCaricare, InLettura, InScrittura
<1>6. Concesse'
  BY <1>1 DEF IInv, TypeOK, Concesse, Interrotta
<1>7. IngressiIntatti' /\ NessunaUscitaPerduta'
  BY <1>1 DEF IInv, IngressiIntatti, NessunaUscitaPerduta, PercorsiIngressi, Ingressi, DaFile
<1> QED
  BY <1>2, <1>3, <1>4, <1>5, <1>6, <1>7 DEF IInv

\* A failure before the outputs are written, with no effect.
LEMMA FallisceConserva ==
    ASSUME IInv, pc \in PrimaDiScrivere, NEW c \in Categorie, Fallisce(c),
           UNCHANGED <<r, restanti, scritti, pubblicati, disco, mondo>>,
           caricate' \in Seq(SUBSET Buffer), residuo' \in Nat
    PROVE  IInv'
<1>1. /\ Finisce("errore", c, "none") /\ pc # "fine"
      /\ r' = r /\ pubblicati' = pubblicati /\ restanti' = restanti
      /\ temporaneo' = temporaneo /\ file' = file
  BY DEF Fallisce, disco, PrimaDiScrivere, PrimaDiCaricare, InLettura
<1>2. EffettoVeritiero'
  BY <1>1 DEF Finisce, IInv, Scritture, Indici, EffettoVeritiero, TypeOK
<1> QED
  BY <1>1, <1>2, FinisceConserva DEF IInv, TypeOK

\* A step of the call before the outputs are written: nothing is on disk yet.
LEMMA AvanzaConserva ==
    ASSUME IInv, pc \in PrimaDiScrivere, pc' \in PrimaDiScrivere,
           esito' = esito, i' \in Nat \ {0},
           UNCHANGED <<r, restanti, scritti, pubblicati, disco, mondo>>,
           caricate' \in Seq(SUBSET Buffer), residuo' \in Nat,
           Indici', NomiInPari', IngressiPresenti', UsciteDistinte', NelBudget'
    PROVE  IInv'
<1>1. /\ r' = r /\ pubblicati' = pubblicati /\ scritti' = scritti /\ file' = file
      /\ concesse' = concesse /\ toccate' = toccate /\ annullato' = annullato
      /\ scaduto' = scaduto /\ altri' = altri /\ temporaneo' = temporaneo
      /\ restanti' = restanti
  BY DEF disco, mondo
<1>2. TypeOK'
  BY <1>1 DEF IInv, TypeOK, Contenuti, Punti
<1>3. Scritture' /\ Canonici'
  BY <1>1 DEF IInv, Scritture, Canonici, PrimaDiScrivere, PrimaDiCaricare, InLettura, InScrittura
<1>4. Concesse'
  BY <1>1 DEF IInv, Concesse, Interrotta, PrimaDiScrivere, PrimaDiCaricare, InLettura
<1>5. EffettoVeritiero' /\ IngressiIntatti' /\ NessunaUscitaPerduta'
  BY <1>1 DEF IInv, EffettoVeritiero, IngressiIntatti, NessunaUscitaPerduta, PercorsiIngressi,
              Ingressi, DaFile
<1> QED
  BY <1>2, <1>3, <1>4, <1>5 DEF IInv

-----------------------------------------------------------------------------
(* verifica_percorsi *)

\* What the checks on paths and names leave alone, once they are past.
LEMMA FrameDeiPercorsi ==
    ASSUME UNCHANGED <<r, file, toccate>>
    PROVE  /\ \A k : IngressoPresente(k)' <=> IngressoPresente(k)
           /\ \A k : UscitaDistinta(k)' <=> UscitaDistinta(k)
           /\ Ingressi' = Ingressi
BY DEF IngressoPresente, UscitaDistinta, VociIngressi, PercorsiIngressi, Ingressi, DaFile

LEMMA VerificaNomiConserva == IInv /\ VerificaNomi => IInv'
<1> SUFFICES ASSUME IInv, VerificaNomi PROVE IInv'
  OBVIOUS
<1> DEFINE nomi == [k \in DOMAIN r.uscite |-> r.uscite[k].nome]
           buoni == ToSet(nomi) = ToSet(r.outputs) /\ IsInjective(nomi)
<1>1. /\ pc = "nomi" /\ pc \in PrimaDiScrivere /\ pc \in PrimaDiCaricare
      /\ UNCHANGED <<r, restanti, scritti, pubblicati, disco, mondo>>
      /\ r' = r /\ caricate' = caricate /\ residuo' = residuo
      /\ caricate' \in Seq(SUBSET Buffer) /\ residuo' \in Nat
      /\ IF buoni THEN Va("percorsi_ingressi", 1) ELSE Fallisce("InvalidPlan")
  BY DEF VerificaNomi, chiamata, IInv, TypeOK, PrimaDiScrivere, PrimaDiCaricare
<1>2. CASE ~ buoni
  BY <1>1, <1>2, FallisceConserva DEF Categorie
<1>3. CASE buoni
  <2>1. pc' = "percorsi_ingressi" /\ i' = 1 /\ esito' = esito /\ temporaneo' = temporaneo
    BY <1>1, <1>3 DEF Va, disco
  <2>2. pc' \in PrimaDiScrivere /\ pc' \in PrimaDiCaricare
    BY <2>1 DEF PrimaDiScrivere, PrimaDiCaricare
  <2>3. Indici'
    BY <1>1, <2>1, TipiDellaRichiesta DEF IInv, Indici, InScrittura, InLettura
  <2>4. NomiInPari'
    BY <1>1, <1>3, <2>1 DEF NomiInPari
  <2>5. IngressiPresenti' /\ UsciteDistinte'
    BY <2>1 DEF IngressiPresenti, UsciteDistinte
  <2>6. NelBudget'
    BY <1>1, <2>1 DEF IInv, NelBudget, SpazioInLettura, InLettura
  <2> QED
    BY <1>1, <2>1, <2>2, <2>3, <2>4, <2>5, <2>6, AvanzaConserva
<1> QED
  BY <1>2, <1>3

LEMMA VerificaIngressoConserva ==
    ASSUME IInv, NEW guasto \in BOOLEAN, VerificaIngresso(guasto)
    PROVE  IInv'
<1>1. /\ pc = "percorsi_ingressi" /\ pc \in PrimaDiScrivere /\ pc \in PrimaDiCaricare
      /\ UNCHANGED <<r, restanti, scritti, pubblicati, disco, mondo>>
      /\ r' = r /\ caricate' = caricate /\ file' = file /\ toccate' = toccate
      /\ temporaneo' = temporaneo
      /\ caricate' \in Seq(SUBSET Buffer) /\ residuo' \in Nat
  BY DEF VerificaIngresso, chiamata, disco, mondo, IInv, TypeOK, PrimaDiScrivere, PrimaDiCaricare
<1>2. \/ i \notin Ingressi /\ Va("percorsi_uscite", 1)
      \/ Fallisce("Unsupported")
      \/ Fallisce("Io")
      \/ /\ i \in Ingressi /\ (DaFile(i) => Esiste(r.ingressi[i].percorso))
         /\ Va("percorsi_ingressi", i + 1)
  BY DEF VerificaIngresso
<1>3. CASE Fallisce("Unsupported") \/ Fallisce("Io")
  BY <1>1, <1>3, FallisceConserva DEF Categorie
<1>4. CASE i \notin Ingressi /\ Va("percorsi_uscite", 1)
  <2>1. pc' = "percorsi_uscite" /\ i' = 1 /\ esito' = esito
    BY <1>4 DEF Va
  <2>2. pc' \in PrimaDiScrivere /\ pc' \in PrimaDiCaricare
    BY <2>1 DEF PrimaDiScrivere, PrimaDiCaricare
  <2>3. Indici'
    BY <1>1, <2>1, TipiDellaRichiesta DEF IInv, Indici, InScrittura, InLettura
  <2>4. NomiInPari'
    BY <1>1, <2>1 DEF IInv, Indici, NomiInPari
  <2>5. i = Len(r.ingressi) + 1 /\ Ingressi = 1 .. (i - 1)
    BY <1>1, <1>4, TipiDellaRichiesta DEF IInv, TypeOK, Indici
  <2>6. \A k \in Ingressi : IngressoPresente(k)
    BY <1>1, <2>5 DEF IInv, IngressiPresenti
  <2>7. IngressiPresenti'
    BY <1>1, <2>1, <2>6, FrameDeiPercorsi DEF IngressiPresenti
  <2>8. UsciteDistinte'
    BY <2>1 DEF UsciteDistinte
  <2>9. NelBudget'
    BY <1>1, <2>1 DEF IInv, NelBudget, SpazioInLettura, InLettura
  <2> QED
    BY <1>1, <2>1, <2>2, <2>3, <2>4, <2>7, <2>8, <2>9, AvanzaConserva
<1>5. CASE /\ i \in Ingressi /\ (DaFile(i) => Esiste(r.ingressi[i].percorso))
           /\ Va("percorsi_ingressi", i + 1)
  <2>1. pc' = "percorsi_ingressi" /\ i' = i + 1 /\ esito' = esito /\ i \in Nat \ {0}
    BY <1>5 DEF Va, IInv, TypeOK
  <2>2. pc' \in PrimaDiScrivere /\ pc' \in PrimaDiCaricare
    BY <2>1 DEF PrimaDiScrivere, PrimaDiCaricare
  <2>3. Indici'
    BY <1>1, <1>5, <2>1, TipiDellaRichiesta DEF IInv, Indici, InScrittura, InLettura
  <2>4. NomiInPari'
    BY <1>1, <2>1 DEF IInv, Indici, NomiInPari
  <2>5. IngressoPresente(i)
    <3>1. SUFFICES ASSUME DaFile(i), Voce[r.ingressi[i].percorso] \notin toccate
                   PROVE  file[Voce[r.ingressi[i].percorso]] = <<"file", "altri">>
      BY DEF IngressoPresente
    <3>2. PICK p \in PercorsiIngressi : Voce[p] = Voce[r.ingressi[i].percorso]
      BY <1>5, <3>1 DEF PercorsiIngressi
    <3>3. file[Voce[p]] \in DiAltri
      BY <3>1, <3>2 DEF IInv, IngressiIntatti
    <3> QED
      BY <1>5, <3>1, <3>2, <3>3 DEF DiAltri, Esiste, Assente
  <2>6. \A k \in 1 .. i : IngressoPresente(k)
    BY <1>1, <2>1, <2>5 DEF IInv, IngressiPresenti
  <2>7. IngressiPresenti'
    BY <1>1, <2>1, <2>6, FrameDeiPercorsi DEF IngressiPresenti
  <2>8. UsciteDistinte'
    BY <2>1 DEF UsciteDistinte
  <2>9. NelBudget'
    BY <1>1, <2>1 DEF IInv, NelBudget, SpazioInLettura, InLettura
  <2> QED
    BY <1>1, <2>1, <2>2, <2>3, <2>4, <2>7, <2>8, <2>9, AvanzaConserva
<1> QED
  BY <1>2, <1>3, <1>4, <1>5

LEMMA VerificaUscitaConserva ==
    ASSUME IInv, NEW guasto \in BOOLEAN, VerificaUscita(guasto)
    PROVE  IInv'
<1>1. /\ pc = "percorsi_uscite" /\ pc \in PrimaDiScrivere /\ pc \in PrimaDiCaricare
      /\ UNCHANGED <<r, restanti, scritti, pubblicati, disco, mondo>>
      /\ r' = r /\ caricate' = caricate /\ file' = file /\ toccate' = toccate
      /\ temporaneo' = temporaneo
      /\ caricate' \in Seq(SUBSET Buffer) /\ residuo' \in Nat
  BY DEF VerificaUscita, chiamata, disco, mondo, IInv, TypeOK, PrimaDiScrivere, PrimaDiCaricare
<1>2. \/ i \notin DOMAIN r.uscite /\ Va("riserva", 1)
      \/ \E c \in {"Unsupported", "InvalidPlan", "Io", "Conflict"} : Fallisce(c)
      \/ /\ i \in DOMAIN r.uscite /\ ~ AncheIngresso(r.uscite[i].percorso)
         /\ Va("percorsi_uscite", i + 1)
  BY DEF VerificaUscita
<1>3. CASE \E c \in {"Unsupported", "InvalidPlan", "Io", "Conflict"} : Fallisce(c)
  BY <1>1, <1>3, FallisceConserva DEF Categorie
<1>4. r.modo = "file" /\ \A k \in Ingressi : IngressoPresente(k)
  BY <1>1 DEF IInv, Indici, IngressiPresenti
<1>5. CASE i \notin DOMAIN r.uscite /\ Va("riserva", 1)
  <2>1. pc' = "riserva" /\ i' = 1 /\ esito' = esito
    BY <1>5 DEF Va
  <2>2. pc' \in PrimaDiScrivere /\ pc' \in PrimaDiCaricare
    BY <2>1 DEF PrimaDiScrivere, PrimaDiCaricare
  <2>3. Indici'
    BY <1>1, <2>1, TipiDellaRichiesta DEF IInv, Indici, InScrittura, InLettura
  <2>4. NomiInPari'
    BY <1>1, <2>1 DEF IInv, Indici, NomiInPari
  <2>5. i = Len(r.uscite) + 1 /\ DOMAIN r.uscite = 1 .. (i - 1)
    BY <1>1, <1>5, TipiDellaRichiesta DEF IInv, TypeOK, Indici
  <2>6. \A k \in DOMAIN r.uscite : UscitaDistinta(k)
    BY <1>1, <2>5 DEF IInv, UsciteDistinte
  <2>7. IngressiPresenti' /\ UsciteDistinte'
    BY <1>1, <1>4, <2>1, <2>6, FrameDeiPercorsi DEF IngressiPresenti, UsciteDistinte
  <2>8. NelBudget'
    BY <1>1, <2>1 DEF IInv, NelBudget, SpazioInLettura, InLettura
  <2> QED
    BY <1>1, <2>1, <2>2, <2>3, <2>4, <2>7, <2>8, AvanzaConserva
<1>6. CASE /\ i \in DOMAIN r.uscite /\ ~ AncheIngresso(r.uscite[i].percorso)
           /\ Va("percorsi_uscite", i + 1)
  <2>1. pc' = "percorsi_uscite" /\ i' = i + 1 /\ esito' = esito /\ i \in Nat \ {0}
    BY <1>6 DEF Va, IInv, TypeOK
  <2>2. pc' \in PrimaDiScrivere /\ pc' \in PrimaDiCaricare
    BY <2>1 DEF PrimaDiScrivere, PrimaDiCaricare
  <2>3. Indici'
    BY <1>1, <1>6, <2>1, TipiDellaRichiesta DEF IInv, Indici, InScrittura, InLettura
  <2>4. NomiInPari'
    BY <1>1, <2>1 DEF IInv, Indici, NomiInPari
  <2>5. UscitaDistinta(i)
    <3> DEFINE v == Voce[r.uscite[i].percorso]
    <3>1. SUFFICES ASSUME v \in VociIngressi, v \notin toccate
                   PROVE  FALSE
      BY DEF UscitaDistinta
    <3>2. PICK k \in Ingressi : DaFile(k) /\ Voce[r.ingressi[k].percorso] = v
      BY <3>1 DEF VociIngressi, PercorsiIngressi
    <3>3. file[v] = <<"file", "altri">>
      BY <1>4, <3>1, <3>2 DEF IngressoPresente
    <3>4. Esiste(r.uscite[i].percorso)
      BY <3>3 DEF Esiste, Assente
    <3> QED
      BY <1>6, <3>1, <3>4 DEF AncheIngresso, VociIngressi
  <2>6. \A k \in 1 .. i : UscitaDistinta(k)
    BY <1>1, <2>1, <2>5 DEF IInv, UsciteDistinte
  <2>7. IngressiPresenti' /\ UsciteDistinte'
    BY <1>1, <1>4, <2>1, <2>6, FrameDeiPercorsi DEF IngressiPresenti, UsciteDistinte
  <2>8. NelBudget'
    BY <1>1, <2>1 DEF IInv, NelBudget, SpazioInLettura, InLettura
  <2> QED
    BY <1>1, <2>1, <2>2, <2>3, <2>4, <2>7, <2>8, AvanzaConserva
<1> QED
  BY <1>2, <1>3, <1>5, <1>6

-----------------------------------------------------------------------------
(* carica_ingressi, validate and the run *)

\* Past the checks on the paths, their results stay.
LEMMA PercorsiRestano ==
    ASSUME IInv, UNCHANGED <<r, file, toccate>>,
           pc \in {"riserva", "valida", "esecuzione"} \cup InLettura \cup InScrittura,
           pc' \in {"valida", "esecuzione"} \cup InLettura \cup InScrittura
    PROVE  NomiInPari' /\ IngressiPresenti' /\ UsciteDistinte'
<1>1. NomiInPari'
  BY DEF IInv, NomiInPari, InLettura, InScrittura
<1>2. IngressiPresenti' /\ UsciteDistinte'
  BY FrameDeiPercorsi DEF IInv, IngressiPresenti, UsciteDistinte, InLettura, InScrittura
<1> QED
  BY <1>1, <1>2

LEMMA RiservaConserva ==
    ASSUME IInv, NEW validi \in BOOLEAN, Riserva(validi)
    PROVE  IInv'
<1> DEFINE n == Len(r.ingressi)
<1>1. /\ pc = "riserva" /\ pc \in PrimaDiScrivere /\ pc \in PrimaDiCaricare
      /\ UNCHANGED <<r, restanti, scritti, pubblicati, disco, mondo>>
      /\ UNCHANGED <<r, file, toccate>>
      /\ r' = r /\ caricate' = caricate /\ temporaneo' = temporaneo
      /\ caricate' \in Seq(SUBSET Buffer) /\ residuo' \in Nat
  BY DEF Riserva, chiamata, disco, mondo, IInv, TypeOK, PrimaDiScrivere, PrimaDiCaricare
<1>2. \/ \E c \in {"InvalidPlan", "Internal", "ResourceLimit"} : Fallisce(c)
      \/ /\ {k \in Ingressi : byte_vivi(InMemoria(k)) > Budget} = {}
         /\ Va(DopoIngresso(0), 1)
  BY DEF Riserva
<1>3. CASE \E c \in {"InvalidPlan", "Internal", "ResourceLimit"} : Fallisce(c)
  BY <1>1, <1>3, FallisceConserva DEF Categorie
<1>4. CASE /\ {k \in Ingressi : byte_vivi(InMemoria(k)) > Budget} = {}
           /\ Va(DopoIngresso(0), 1)
  <2>1. /\ pc' = IF n = 0 THEN "valida" ELSE "controllo_lettura"
        /\ i' = 1 /\ esito' = esito
    BY <1>4, TipiDellaRichiesta DEF Va, DopoIngresso
  <2>2. pc' \in PrimaDiScrivere /\ pc' \notin PrimaDiCaricare
    BY <2>1 DEF PrimaDiScrivere, PrimaDiCaricare, InLettura
  <2>3. Indici'
    BY <1>1, <2>1, TipiDellaRichiesta DEF IInv, Indici, InScrittura, InLettura
  <2>4. NomiInPari' /\ IngressiPresenti' /\ UsciteDistinte'
    BY <1>1, <2>1, PercorsiRestano DEF InLettura
  <2>5. NelBudget'
    <3>1. CASE n = 0
      BY <2>1, <2>2, <3>1 DEF NelBudget, SpazioInLettura, InLettura
    <3>2. CASE n # 0
      <4>1. byte_vivi(InMemoria(n)) \in Nat /\ n \in Ingressi
        <5>1. caricate = <<>>
          BY <1>1 DEF IInv, NelBudget
        <5>2. Vivi(caricate) = InMemoria(n)
          BY <5>1 DEF Vivi, ToSet
        <5> QED
          BY <3>2, <5>2, ViviTipo, TipiDellaRichiesta DEF IInv, TypeOK
      <4>2. byte_vivi(InMemoria(n)) <= Budget
        BY <1>4, <4>1, FileAssunti
      <4>3. Vivi(caricate)' = InMemoria(n)
        <5>1. caricate' = <<>> /\ r' = r
          BY <1>1 DEF IInv, NelBudget
        <5> QED
          BY <5>1 DEF Vivi, ToSet, InMemoria, DaFile
      <4>4. pc' = "controllo_lettura"
        BY <2>1, <3>2
      <4> QED
        BY <2>2, <4>2, <4>3, <4>4 DEF NelBudget, SpazioInLettura
    <3> QED
      BY <3>1, <3>2
  <2> QED
    BY <1>1, <2>1, <2>2, <2>3, <2>4, <2>5, AvanzaConserva
<1> QED
  BY <1>2, <1>3, <1>4

\* A table loaded, in whichever way: either the budget holds or the call fails.
LEMMA CaricaConserva ==
    ASSUME IInv, pc \in InLettura, NEW b \in SUBSET Buffer, Carica(b),
           UNCHANGED <<r, residuo, restanti, scritti, pubblicati, disco, mondo>>
    PROVE  IInv'
<1> DEFINE c == Append(caricate, b)
<1>1. /\ UNCHANGED <<r, restanti, scritti, pubblicati, disco, mondo>>
      /\ UNCHANGED <<r, file, toccate>>
      /\ pc \in PrimaDiScrivere
      /\ r' = r /\ temporaneo' = temporaneo /\ residuo' \in Nat
      /\ caricate' = c /\ c \in Seq(SUBSET Buffer) /\ caricate' \in Seq(SUBSET Buffer)
  BY DEF Carica, disco, mondo, IInv, TypeOK, PrimaDiScrivere
<1>2. \/ Fallisce("Internal") \/ Fallisce("ResourceLimit")
      \/ ~ (byte_vivi(Vivi(c)) > Budget) /\ Va(DopoIngresso(i), i + 1)
  BY DEF Carica
<1>3. CASE Fallisce("Internal") \/ Fallisce("ResourceLimit")
  BY <1>1, <1>3, FallisceConserva DEF Categorie
<1>4. CASE ~ (byte_vivi(Vivi(c)) > Budget) /\ Va(DopoIngresso(i), i + 1)
  <2>1. /\ pc' = IF i = Len(r.ingressi) THEN "valida" ELSE "controllo_lettura"
        /\ i' = i + 1 /\ esito' = esito /\ i \in Nat \ {0}
    BY <1>4 DEF Va, DopoIngresso, IInv, TypeOK
  <2>2. pc' \in PrimaDiScrivere /\ pc' \notin PrimaDiCaricare /\ pc' # "lettura"
    BY <2>1 DEF PrimaDiScrivere, PrimaDiCaricare, InLettura
  <2>3. Indici'
    BY <1>1, <2>1, TipiDellaRichiesta DEF IInv, Indici, InScrittura, InLettura
  <2>4. NomiInPari' /\ IngressiPresenti' /\ UsciteDistinte'
    BY <1>1, <2>1, PercorsiRestano DEF InLettura
  <2>5. byte_vivi(Vivi(c)) <= Budget
    <3>1. byte_vivi(Vivi(c)) \in Nat /\ Budget \in Nat
      <4>1. c \in Seq(SUBSET Buffer) /\ TypeOK
        BY <1>1 DEF IInv
      <4> HIDE DEF c
      <4> QED
        BY <4>1, ViviTipo, FileAssunti, MaxU64Assunto
    <3> QED
      BY <1>4, <3>1
  <2>6. Vivi(caricate)' = Vivi(c)
    BY <1>1 DEF Vivi, InMemoria, DaFile
  <2>7. NelBudget'
    BY <2>2, <2>5, <2>6 DEF NelBudget, SpazioInLettura
  <2> QED
    BY <1>1, <2>1, <2>2, <2>3, <2>4, <2>7, AvanzaConserva
<1> QED
  BY <1>2, <1>3, <1>4

LEMMA ControllaLetturaConserva == IInv /\ ControllaLettura => IInv'
<1> SUFFICES ASSUME IInv, ControllaLettura PROVE IInv'
  OBVIOUS
<1>1. /\ pc = "controllo_lettura" /\ pc \in InLettura /\ pc \in PrimaDiScrivere
      /\ UNCHANGED <<r, restanti, scritti, pubblicati, disco, mondo>>
      /\ UNCHANGED <<r, file, toccate>>
      /\ r' = r /\ temporaneo' = temporaneo
      /\ caricate \in Seq(SUBSET Buffer) /\ residuo \in Nat
      /\ i \in Ingressi
  BY TipiDellaRichiesta
  DEF ControllaLettura, disco, mondo, IInv, TypeOK, Indici, PrimaDiScrivere, InLettura
<1>2. \/ /\ \E c \in {"Cancelled", "Timeout", "Internal"} : Fallisce(c)
         /\ UNCHANGED <<caricate, residuo>>
      \/ Carica(r.ingressi[i].buffer) /\ UNCHANGED residuo
      \/ /\ residuo' = Residuo(byte_vivi(Vivi(caricate)))
         /\ Va("lettura", i)
         /\ UNCHANGED caricate
  BY DEF ControllaLettura, CategoriaInterruzione
<1>3. CASE /\ \E c \in {"Cancelled", "Timeout", "Internal"} : Fallisce(c)
           /\ UNCHANGED <<caricate, residuo>>
  BY <1>1, <1>3, FallisceConserva DEF Categorie
<1>4. CASE Carica(r.ingressi[i].buffer) /\ UNCHANGED residuo
  <2>1. r.ingressi[i].buffer \in SUBSET Buffer
    BY <1>1, TipiDellaRichiesta DEF IInv, Ingresso
  <2> QED
    BY <1>1, <1>4, <2>1, CaricaConserva
<1>5. CASE /\ residuo' = Residuo(byte_vivi(Vivi(caricate)))
           /\ Va("lettura", i)
           /\ UNCHANGED caricate
  <2>1. pc' = "lettura" /\ i' = i /\ esito' = esito /\ caricate' = caricate /\ i \in Nat \ {0}
    BY <1>5 DEF Va, IInv, TypeOK
  <2>2. pc' \in PrimaDiScrivere /\ pc' \notin PrimaDiCaricare /\ pc' \in InLettura
    BY <2>1 DEF PrimaDiScrivere, PrimaDiCaricare, InLettura
  <2>3. Indici'
    BY <1>1, <2>1, TipiDellaRichiesta DEF IInv, Indici, InScrittura, InLettura
  <2>4. NomiInPari' /\ IngressiPresenti' /\ UsciteDistinte'
    BY <1>1, <2>2, PercorsiRestano
  <2>5. byte_vivi(Vivi(caricate)) \in Nat /\ byte_vivi(Vivi(caricate)) <= Budget /\ Budget \in Nat
    BY <1>1, ViviTipo, FileAssunti, MaxU64Assunto DEF IInv, NelBudget
  <2>6. residuo' \in Nat /\ byte_vivi(Vivi(caricate)) + residuo' <= Budget
    BY <1>5, <2>5 DEF Residuo
  <2>7. Vivi(caricate)' = Vivi(caricate)
    BY <1>1, <2>1 DEF Vivi, InMemoria, DaFile
  <2>8. NelBudget'
    BY <2>2, <2>5, <2>6, <2>7 DEF NelBudget, SpazioInLettura, Vivi
  <2> QED
    BY <1>1, <2>1, <2>2, <2>3, <2>4, <2>6, <2>8, AvanzaConserva
<1> QED
  BY <1>2, <1>3, <1>4, <1>5

LEMMA LeggeConserva ==
    ASSUME IInv, NEW b \in SUBSET Buffer, Legge(b)
    PROVE  IInv'
BY CaricaConserva DEF Legge, InLettura

\* The failures of the readers and of the run.
LEMMA LeggeMaleConserva ==
    ASSUME IInv, NEW c \in Categorie,
           LeggeMale(c) \/ EsegueMale(c) \/ EsegueInterrotta
    PROVE  IInv'
<1>1. /\ pc \in PrimaDiScrivere
      /\ UNCHANGED <<r, restanti, scritti, pubblicati, disco, mondo>>
      /\ \E x \in Categorie : Fallisce(x)
      /\ caricate' = caricate /\ residuo' = residuo
  BY DEF LeggeMale, EsegueMale, EsegueInterrotta, chiamata, PrimaDiScrivere, InLettura,
         CategoriaInterruzione, Categorie
<1> QED
  BY <1>1, FallisceConserva DEF IInv, TypeOK

LEMMA ValidaConserva ==
    ASSUME IInv, NEW e \in {"ok", "InvalidPlan"}, Valida(e)
    PROVE  IInv'
<1>1. /\ pc = "valida" /\ pc \in PrimaDiScrivere /\ pc # "fine"
      /\ UNCHANGED <<r, restanti, scritti, pubblicati, disco, mondo>>
      /\ UNCHANGED <<r, scritti, pubblicati, file, mondo>>
      /\ UNCHANGED <<r, file, toccate>>
      /\ r' = r /\ temporaneo' = temporaneo /\ pubblicati' = pubblicati
      /\ restanti' \in Seq([nome : STRING, buffer : SUBSET Buffer])
      /\ caricate' \in Seq(SUBSET Buffer) /\ residuo' \in Nat
      /\ temporaneo' \in BOOLEAN /\ temporaneo = FALSE
  BY DEF Valida, chiamata, disco, mondo, IInv, TypeOK, Indici, PrimaDiScrivere
<1>2. CASE e # "ok"
  BY <1>1, <1>2, FallisceConserva DEF Valida, Categorie
<1>3. CASE e = "ok" /\ r.modo = "valida"
  <2>1. Finisce("reso", "nessuna", "none")
    BY <1>3 DEF Valida, Rende
  <2>2. EffettoVeritiero'
    BY <1>1, <1>3, <2>1 DEF Finisce, IInv, EffettoVeritiero, Scritture
  <2> QED
    BY <1>1, <2>1, <2>2, FinisceConserva
<1>4. CASE e = "ok" /\ r.modo # "valida"
  <2>1. pc' = "esecuzione" /\ i' = 1 /\ esito' = esito
    BY <1>4 DEF Valida, Va
  <2>2. pc' \in PrimaDiScrivere /\ pc' \notin PrimaDiCaricare /\ pc' \notin InLettura
    BY <2>1 DEF PrimaDiScrivere, PrimaDiCaricare, InLettura
  <2>3. Indici'
    BY <1>1, <1>4, <2>1 DEF IInv, Indici, InScrittura, InLettura
  <2>4. NomiInPari' /\ IngressiPresenti' /\ UsciteDistinte'
    BY <1>1, <2>1, PercorsiRestano
  <2>5. NelBudget'
    BY <2>2 DEF NelBudget, SpazioInLettura, InLettura
  <2> QED
    BY <1>1, <2>1, <2>2, <2>3, <2>4, <2>5, AvanzaConserva
<1> QED
  BY <1>2, <1>3, <1>4

LEMMA EsegueConserva ==
    ASSUME IInv, NEW t \in [DOMAIN r.outputs -> SUBSET Buffer], Esegue(t)
    PROVE  IInv'
<1> DEFINE n == Len(r.outputs)
<1>1. /\ pc = "esecuzione" /\ pc \in PrimaDiScrivere /\ pc # "fine"
      /\ r' = r /\ scritti' = scritti /\ pubblicati' = pubblicati /\ file' = file
      /\ caricate' = caricate /\ residuo' = residuo
      /\ temporaneo' = temporaneo /\ toccate' = toccate /\ concesse' = concesse
      /\ annullato' = annullato /\ scaduto' = scaduto /\ altri' = altri
      /\ temporaneo = FALSE
      /\ UNCHANGED <<r, scritti, pubblicati, file, mondo>>
      /\ UNCHANGED <<r, file, toccate>>
      /\ ~ Interrotta
  BY DEF Esegue, disco, mondo, IInv, TypeOK, Indici, PrimaDiScrivere
<1>2. /\ restanti' = [k \in 1 .. n |-> [nome |-> r.outputs[k], buffer |-> t[k]]]
      /\ n \in Nat
  BY TipiDellaRichiesta DEF Esegue, IInv
<1>3. /\ restanti' \in Seq([nome : STRING, buffer : SUBSET Buffer])
      /\ Len(restanti') = n /\ DOMAIN restanti' = 1 .. n
      /\ \A k \in 1 .. n : restanti'[k].nome = r.outputs[k]
  <2>1. \A k \in 1 .. n : r.outputs[k] \in STRING /\ t[k] \in SUBSET Buffer
    BY TipiDellaRichiesta DEF IInv
  <2>2. \A k \in 1 .. n : [nome |-> r.outputs[k], buffer |-> t[k]]
                            \in [nome : STRING, buffer : SUBSET Buffer]
    BY <2>1
  <2> QED
    BY <1>2, <2>2
<1>4. pubblicati = <<>> /\ scritti = {}
  BY <1>1 DEF IInv, Scritture
<1>5. CASE r.modo = "memoria"
  <2>1. Finisce("reso", "nessuna", "none")
    BY <1>5 DEF Esegue, Rende
  <2>2. EffettoVeritiero'
    BY <1>1, <1>4, <1>5, <2>1 DEF Finisce, EffettoVeritiero
  <2> QED
    BY <1>1, <1>3, <2>1, <2>2, FinisceConserva DEF IInv, TypeOK
<1>6. CASE r.modo # "memoria"
  <2>1. pc' = "controllo_scrittura" /\ i' = 1 /\ esito' = esito
    BY <1>6 DEF Esegue, Va
  <2>2. r.modo = "file"
    BY <1>1, <1>6, TipiDellaRichiesta DEF IInv, Indici, Richiesta
  <2>3. TypeOK'
    BY <1>1, <1>3, <2>1 DEF IInv, TypeOK, Contenuti, Punti, InScrittura
  <2>4. Indici'
    BY <1>1, <2>1, <2>2 DEF IInv, Indici, InScrittura, InLettura
  <2>5. NomiInPari' /\ IngressiPresenti' /\ UsciteDistinte'
    BY <1>1, <2>1, PercorsiRestano DEF InScrittura
  <2>6. Scritture'
    BY <1>1, <1>2, <1>3, <1>4, <2>1, <2>2
    DEF Scritture, PrimaDiScrivere, PrimaDiCaricare, InLettura, InScrittura
  <2>7. Canonici'
    BY <1>1, <1>4, <2>1 DEF Canonici, ToSet
  <2>8. NelBudget' /\ Concesse'
    BY <1>1, <2>1 DEF NelBudget, SpazioInLettura, PrimaDiCaricare, InLettura, Concesse, Interrotta
  <2>9. EffettoVeritiero' /\ IngressiIntatti' /\ NessunaUscitaPerduta'
    BY <1>1, <2>1 DEF IInv, EffettoVeritiero, IngressiIntatti, NessunaUscitaPerduta,
                      PercorsiIngressi, Ingressi, DaFile
  <2> QED
    BY <2>3, <2>4, <2>5, <2>6, <2>7, <2>8, <2>9 DEF IInv
<1> QED
  BY <1>5, <1>6

-----------------------------------------------------------------------------
(* scrivi_uscite and verifica_finale *)

\* The output at the head of the list has one path, and comes after those written.
LEMMA ProssimaUscita ==
    ASSUME IInv, pc \in InScrittura, restanti # <<>>
    PROVE  /\ Head(restanti).nome = r.outputs[Len(r.outputs) - Len(restanti) + 1]
           /\ Len(r.outputs) - Len(restanti) + 1 \in 1 .. Len(r.outputs)
           /\ Head(restanti).nome \in ToSet(r.outputs)
           /\ Head(restanti).nome \in STRING
           /\ Voce[Destinazione] \in Voci
           /\ \E k \in DOMAIN r.uscite :
                /\ r.uscite[k].nome = Head(restanti).nome
                /\ Destinazione = r.uscite[k].percorso
                /\ \A h \in DOMAIN r.uscite : r.uscite[h].nome = Head(restanti).nome => h = k
<1> DEFINE n == Head(restanti).nome
           nomi == [k \in DOMAIN r.uscite |-> r.uscite[k].nome]
<1>1. /\ r.outputs \in Seq(STRING) /\ Len(r.outputs) \in Nat
      /\ restanti \in Seq([nome : STRING, buffer : SUBSET Buffer])
      /\ Len(restanti) <= Len(r.outputs) /\ Len(restanti) \in Nat \ {0}
      /\ \A k \in DOMAIN restanti :
              restanti[k].nome = r.outputs[Len(r.outputs) - Len(restanti) + k]
  BY TipiDellaRichiesta DEF IInv, TypeOK, Scritture
<1>2. n = r.outputs[Len(r.outputs) - Len(restanti) + 1]
  BY <1>1
<1>3. Len(r.outputs) - Len(restanti) + 1 \in 1 .. Len(r.outputs)
  BY <1>1
<1>4. n \in ToSet(r.outputs) /\ n \in STRING
  BY <1>1, <1>2, <1>3 DEF ToSet
<1>5. ToSet(nomi) = ToSet(r.outputs) /\ IsInjective(nomi)
  BY DEF IInv, Indici, NomiInPari, InScrittura
<1>6. \E k \in DOMAIN r.uscite : r.uscite[k].nome = n
  BY <1>4, <1>5 DEF ToSet
<1>7. PICK k \in DOMAIN r.uscite : r.uscite[k].nome = n /\ Destinazione = r.uscite[k].percorso
  BY <1>6 DEF Destinazione
<1>8. \A h \in DOMAIN r.uscite : r.uscite[h].nome = n => h = k
  BY <1>5, <1>7 DEF IsInjective
<1>9. Voce[Destinazione] \in Voci
  BY <1>7, TipiDellaRichiesta DEF IInv
<1> QED
  BY <1>2, <1>3, <1>4, <1>7, <1>8, <1>9

\* A failure while the outputs are written.
LEMMA FallisceScritturaConserva ==
    ASSUME IInv, pc \in InScrittura, NEW c \in Categorie, NEW x \in {"none", "unknown"},
           FallisceScrittura(c, x),
           UNCHANGED <<chiamata, file, mondo>>,
           temporaneo' \in BOOLEAN, x = "none" => temporaneo' = temporaneo
    PROVE  IInv'
<1>1. /\ Finisce("errore", c, EffettoDi(x)) /\ pc # "fine"
      /\ EffettoDi(x) \in {"none", "partial", "unknown"}
      /\ r' = r /\ pubblicati' = pubblicati /\ ~ temporaneo
      /\ UNCHANGED <<r, scritti, pubblicati, file, mondo>>
      /\ caricate' = caricate /\ residuo' = residuo /\ restanti' = restanti
  BY DEF FallisceScrittura, EffettoDi, chiamata, InScrittura, IInv, Indici
<1>2. EffettoVeritiero'
  BY <1>1 DEF Finisce, EffettoDi, EffettoVeritiero, IInv, TypeOK
<1> QED
  BY <1>1, <1>2, FinisceConserva DEF IInv, TypeOK

LEMMA ControllaScritturaConserva ==
    ASSUME IInv, NEW x \in Transitori, NEW guasto \in BOOLEAN, ControllaScrittura(x, guasto)
    PROVE  IInv'
<1>1. /\ pc = "controllo_scrittura" /\ pc \in InScrittura /\ restanti # <<>>
      /\ r' = r /\ scritti' = scritti /\ pubblicati' = pubblicati /\ file' = file
      /\ caricate' = caricate /\ residuo' = residuo /\ restanti' = restanti
      /\ temporaneo' = temporaneo /\ toccate' = toccate /\ concesse' = concesse
      /\ annullato' = annullato /\ scaduto' = scaduto /\ altri' = altri
      /\ UNCHANGED <<chiamata, file, mondo>>
      /\ UNCHANGED <<r, file, toccate>>
  BY DEF ControllaScrittura, chiamata, disco, mondo, InScrittura
<1>2. \/ \E c \in Categorie : FallisceScrittura(c, "none")
      \/ ~ Interrotta /\ ~ GiaScritto /\ Va("scrittura", i)
  BY DEF ControllaScrittura, InterrottaPrimaDiScrivere, CategoriaInterruzione, Categorie
<1>3. CASE \E c \in Categorie : FallisceScrittura(c, "none")
  BY <1>1, <1>3, FallisceScritturaConserva DEF IInv, TypeOK
<1>4. CASE ~ Interrotta /\ ~ GiaScritto /\ Va("scrittura", i)
  <2>1. pc' = "scrittura" /\ i' = i /\ esito' = esito
    BY <1>4 DEF Va
  <2>2. TypeOK'
    BY <1>1, <2>1 DEF IInv, TypeOK, Contenuti, Punti, InScrittura
  <2>3. Indici'
    BY <1>1, <2>1 DEF IInv, Indici, InScrittura, InLettura
  <2>4. NomiInPari' /\ IngressiPresenti' /\ UsciteDistinte'
    BY <1>1, <2>1, PercorsiRestano DEF InScrittura
  <2>5. Scritture'
    BY <1>1, <2>1 DEF IInv, Scritture, PrimaDiScrivere, PrimaDiCaricare, InLettura, InScrittura
  <2>6. Canonici'
    <3>1. Voce[Destinazione] \in scritti => Voce[Destinazione] \in toccate
      <4>1. SUFFICES ASSUME Voce[Destinazione] \in scritti, Voce[Destinazione] \notin toccate
                     PROVE  FALSE
        OBVIOUS
      <4>2. PICK k \in DOMAIN r.uscite : /\ r.uscite[k].nome \in ToSet(pubblicati)
                                         /\ Voce[r.uscite[k].percorso] = Voce[Destinazione]
        BY <1>1, <4>1 DEF IInv, Canonici
      <4>3. file[Voce[Destinazione]] = Uscita(r.uscite[k].nome)
        BY <4>1, <4>2 DEF IInv, NessunaUscitaPerduta
      <4>4. Esiste(Destinazione)
        BY <4>3 DEF Esiste, Uscita, Assente
      <4> QED
        BY <1>4, <4>1, <4>4 DEF GiaScritto
    <3>2. Destinazione' = Destinazione
      BY <1>1 DEF Destinazione
    <3> QED
      BY <1>1, <2>1, <3>1, <3>2 DEF IInv, Canonici, InScrittura
  <2>7. NelBudget' /\ Concesse'
    BY <1>1, <1>4, <2>1
    DEF NelBudget, SpazioInLettura, PrimaDiCaricare, InLettura, Concesse, Interrotta
  <2>8. EffettoVeritiero' /\ IngressiIntatti' /\ NessunaUscitaPerduta'
    BY <1>1, <2>1 DEF IInv, EffettoVeritiero, IngressiIntatti, NessunaUscitaPerduta,
                      PercorsiIngressi, Ingressi, DaFile
  <2> QED
    BY <2>2, <2>3, <2>4, <2>5, <2>6, <2>7, <2>8 DEF IInv
<1> QED
  BY <1>2, <1>3, <1>4

LEMMA ScriveMaleConserva ==
    ASSUME IInv, NEW c \in {"Io", "Conflict"}, NEW rimasto \in BOOLEAN, ScriveMale(c, rimasto)
    PROVE  IInv'
<1>1. /\ pc \in InScrittura /\ c \in Categorie
      /\ \E x \in {"none", "unknown"} :
            FallisceScrittura(c, x) /\ (x = "none" => temporaneo' = temporaneo)
      /\ UNCHANGED <<chiamata, file, mondo>>
      /\ temporaneo' \in BOOLEAN
  BY DEF ScriveMale, InScrittura, Categorie, IInv, TypeOK
<1> QED
  BY <1>1, FallisceScritturaConserva

LEMMA ScriveConserva == IInv /\ Scrive => IInv'
<1> SUFFICES ASSUME IInv, Scrive PROVE IInv'
  OBVIOUS
<1> DEFINE n == Head(restanti).nome
           v == Voce[Destinazione]
<1>1. /\ pc = "scrittura" /\ pc \in InScrittura /\ restanti # <<>> /\ r.modo = "file"
      /\ pc' = "canonico" /\ i' = i /\ esito' = esito
      /\ r' = r /\ scritti' = scritti
      /\ caricate' = caricate /\ residuo' = residuo /\ restanti' = restanti
      /\ temporaneo' = temporaneo /\ toccate' = toccate /\ concesse' = concesse
      /\ annullato' = annullato /\ scaduto' = scaduto /\ altri' = altri
      /\ file' = [file EXCEPT ![v] = Uscita(n)]
      /\ pubblicati' = Append(pubblicati, n)
  BY DEF Scrive, Va, mondo, InScrittura, IInv, Scritture, Indici
<1>2. PICK d \in DOMAIN r.uscite :
        /\ r.uscite[d].nome = n
        /\ Destinazione = r.uscite[d].percorso
        /\ \A h \in DOMAIN r.uscite : r.uscite[h].nome = n => h = d
  BY <1>1, ProssimaUscita
<1>3. /\ v \in Voci /\ n \in ToSet(r.outputs) /\ n \in STRING
      /\ n = r.outputs[Len(r.outputs) - Len(restanti) + 1]
      /\ Len(r.outputs) - Len(restanti) + 1 \in 1 .. Len(r.outputs)
  BY <1>1, ProssimaUscita
<1>4. /\ file'[v] = Uscita(n)
      /\ \A w \in Voci : w # v => file'[w] = file[w]
      /\ file' \in [Voci -> Contenuti]
  BY <1>1, <1>3 DEF IInv, TypeOK, Contenuti
<1>5. /\ pubblicati \in Seq(STRING) /\ pubblicati' \in Seq(STRING)
      /\ Len(pubblicati') = Len(pubblicati) + 1 /\ Len(pubblicati) \in Nat
      /\ DOMAIN pubblicati' = 1 .. (Len(pubblicati) + 1)
      /\ \A k \in 1 .. Len(pubblicati) : pubblicati'[k] = pubblicati[k]
      /\ pubblicati'[Len(pubblicati) + 1] = n
  BY <1>1, <1>3 DEF IInv, TypeOK
<1>6. ToSet(pubblicati') = ToSet(pubblicati) \cup {n}
  BY <1>5 DEF ToSet
\* The file is not that of an input, or another program had removed the input.
<1>7. v \in VociIngressi => v \in toccate
  BY <1>1, <1>2 DEF IInv, UsciteDistinte, UscitaDistinta
<1>8. TypeOK'
  BY <1>1, <1>4, <1>5 DEF IInv, TypeOK, Contenuti, Punti, InScrittura
<1>9. Indici'
  BY <1>1 DEF IInv, Indici, InScrittura, InLettura
<1>10. NomiInPari'
  BY <1>1 DEF IInv, NomiInPari
<1>11. IngressiPresenti'
  <2>1. \A k \in Ingressi : IngressoPresente(k)
    BY <1>1 DEF IInv, IngressiPresenti
  <2>2. \A k \in Ingressi : DaFile(k) =>
           /\ Voce[r.ingressi[k].percorso] \in VociIngressi
           /\ Voce[r.ingressi[k].percorso] \in Voci
    BY TipiDellaRichiesta DEF IInv, VociIngressi, PercorsiIngressi
  <2>3. \A k \in Ingressi : IngressoPresente(k)'
    BY <1>1, <1>4, <1>7, <2>1, <2>2 DEF IngressoPresente, DaFile, Ingressi
  <2> QED
    BY <1>1, <2>3 DEF IngressiPresenti, Ingressi
<1>12. UsciteDistinte'
  BY <1>1 DEF IInv, UsciteDistinte, UscitaDistinta, VociIngressi, PercorsiIngressi, Ingressi, DaFile
<1>13. Scritture'
  <2>1. /\ Len(r.outputs) \in Nat /\ Len(restanti) \in Nat
        /\ Len(pubblicati) = Len(r.outputs) - Len(restanti)
        /\ Len(restanti) <= Len(r.outputs)
    BY <1>1, TipiDellaRichiesta DEF IInv, TypeOK, Scritture
  <2>2. \A k \in DOMAIN pubblicati' : pubblicati'[k] = r.outputs[k]
    BY <1>3, <1>5, <2>1 DEF IInv, Scritture
  <2>3. Len(pubblicati') <= Len(r.outputs)
    BY <1>3, <1>5, <2>1
  <2> QED
    BY <1>1, <1>5, <2>1, <2>2, <2>3
    DEF IInv, Scritture, PrimaDiScrivere, PrimaDiCaricare, InLettura, InScrittura
<1>14. Canonici'
  BY <1>1, <1>6 DEF IInv, Canonici, InScrittura
<1>15. NelBudget' /\ Concesse'
  BY <1>1, <1>5
  DEF IInv, TypeOK, NelBudget, SpazioInLettura, PrimaDiCaricare, InLettura, Concesse, Interrotta
<1>16. EffettoVeritiero'
  BY <1>1 DEF IInv, Indici, EffettoVeritiero
<1>17. IngressiIntatti'
  <2>1. \A p \in PercorsiIngressi : Voce[p] \in VociIngressi /\ Voce[p] \in Voci
    BY TipiDellaRichiesta DEF IInv, VociIngressi, PercorsiIngressi
  <2>2. PercorsiIngressi' = PercorsiIngressi
    BY <1>1 DEF PercorsiIngressi, Ingressi, DaFile
  <2> QED
    BY <1>1, <1>4, <1>7, <2>1, <2>2 DEF IInv, IngressiIntatti
<1>18. NessunaUscitaPerduta'
  <2> SUFFICES ASSUME NEW k \in DOMAIN r.uscite, r.uscite[k].nome \in ToSet(pubblicati'),
                      Voce[r.uscite[k].percorso] \notin toccate
               PROVE  file'[Voce[r.uscite[k].percorso]] = Uscita(r.uscite[k].nome)
    BY <1>1 DEF NessunaUscitaPerduta
  <2>1. CASE r.uscite[k].nome = n
    BY <1>2, <1>4, <2>1
  <2>2. CASE r.uscite[k].nome # n
    <3>1. r.uscite[k].nome \in ToSet(pubblicati)
      BY <1>6, <2>2
    <3>2. Voce[r.uscite[k].percorso] # v
      BY <1>1, <3>1 DEF IInv, Canonici
    <3>3. file[Voce[r.uscite[k].percorso]] = Uscita(r.uscite[k].nome)
      BY <3>1 DEF IInv, NessunaUscitaPerduta
    <3> QED
      BY <1>4, <3>2, <3>3, TipiDellaRichiesta DEF IInv
  <2> QED
    BY <2>1, <2>2
<1> QED
  BY <1>8, <1>9, <1>10, <1>11, <1>12, <1>13, <1>14, <1>15, <1>16, <1>17, <1>18 DEF IInv

LEMMA CanonicoConserva ==
    ASSUME IInv, NEW guasto \in BOOLEAN, Canonico(guasto)
    PROVE  IInv'
<1> DEFINE n == Head(restanti).nome
           v == Voce[Destinazione]
<1>1. /\ pc = "canonico" /\ pc \in InScrittura /\ restanti # <<>>
      /\ r' = r /\ pubblicati' = pubblicati /\ file' = file
      /\ caricate' = caricate /\ residuo' = residuo
      /\ temporaneo' = temporaneo /\ toccate' = toccate /\ concesse' = concesse
      /\ annullato' = annullato /\ scaduto' = scaduto /\ altri' = altri
      /\ UNCHANGED <<r, caricate, residuo, pubblicati, file, mondo>>
      /\ UNCHANGED <<r, file, toccate>>
  BY DEF Canonico, disco, mondo, InScrittura, IInv, Scritture
<1>2. \/ FallisceScrittura("Io", "none") /\ UNCHANGED <<scritti, restanti>>
      \/ /\ scritti' = scritti \cup {v} /\ restanti' = Tail(restanti)
         /\ Va("controllo_scrittura", i + 1)
  BY DEF Canonico
<1>3. CASE FallisceScrittura("Io", "none") /\ UNCHANGED <<scritti, restanti>>
  <2>1. UNCHANGED <<chiamata, file, mondo>> /\ temporaneo' \in BOOLEAN
    BY <1>1, <1>3 DEF chiamata, IInv, TypeOK
  <2> QED
    BY <1>1, <1>3, <2>1, FallisceScritturaConserva DEF Categorie
<1>4. CASE /\ scritti' = scritti \cup {v} /\ restanti' = Tail(restanti)
           /\ Va("controllo_scrittura", i + 1)
  <2>1. pc' = "controllo_scrittura" /\ i' = i + 1 /\ esito' = esito
    BY <1>4 DEF Va
  <2>2. PICK d \in DOMAIN r.uscite :
          /\ r.uscite[d].nome = n
          /\ Destinazione = r.uscite[d].percorso
          /\ \A h \in DOMAIN r.uscite : r.uscite[h].nome = n => h = d
    BY <1>1, ProssimaUscita
  <2>3. /\ v \in Voci
        /\ n = r.outputs[Len(r.outputs) - Len(restanti) + 1]
        /\ Len(r.outputs) - Len(restanti) + 1 \in 1 .. Len(r.outputs)
    BY <1>1, ProssimaUscita
  <2>4. /\ Len(r.outputs) \in Nat /\ Len(restanti) \in Nat \ {0}
        /\ Len(pubblicati) = Len(r.outputs) - Len(restanti) + 1
        /\ Len(restanti) <= Len(r.outputs)
        /\ \A k \in 1 .. Len(restanti) :
              restanti[k].nome = r.outputs[Len(r.outputs) - Len(restanti) + k]
    BY <1>1, TipiDellaRichiesta DEF IInv, TypeOK, Scritture
  <2>5. /\ restanti' \in Seq([nome : STRING, buffer : SUBSET Buffer])
        /\ Len(restanti') = Len(restanti) - 1
        /\ DOMAIN restanti' = 1 .. (Len(restanti) - 1)
        /\ \A k \in 1 .. (Len(restanti) - 1) : restanti'[k] = restanti[k + 1]
    BY <1>1, <1>4, <2>4 DEF IInv, TypeOK
  <2>6. n \in ToSet(pubblicati)
    <3>1. pubblicati[Len(pubblicati)] = n /\ Len(pubblicati) \in DOMAIN pubblicati
      BY <2>3, <2>4 DEF IInv, TypeOK, Scritture
    <3> QED
      BY <3>1 DEF ToSet
  <2>7. TypeOK'
    BY <1>1, <1>4, <2>1, <2>3, <2>5 DEF IInv, TypeOK, Contenuti, Punti, InScrittura
  <2>8. Indici'
    BY <1>1, <2>1 DEF IInv, Indici, InScrittura, InLettura
  <2>9. NomiInPari' /\ IngressiPresenti' /\ UsciteDistinte'
    BY <1>1, <2>1, PercorsiRestano DEF InScrittura
  <2>10. Scritture'
    <3>1. \A k \in DOMAIN restanti' :
             restanti'[k].nome = r.outputs[Len(r.outputs) - Len(restanti') + k]
      <4> TAKE k \in DOMAIN restanti'
      <4>1. k \in Nat /\ k + 1 \in 1 .. Len(restanti) /\ restanti'[k] = restanti[k + 1]
        BY <2>4, <2>5
      <4>2. Len(r.outputs) - Len(restanti') + k = Len(r.outputs) - Len(restanti) + (k + 1)
        <5>1. /\ Len(r.outputs) \in Int /\ Len(restanti) \in Int
              /\ Len(restanti') = Len(restanti) - 1
          BY <2>4, <2>5
        <5> QED
          BY <4>1, <5>1
      <4> QED
        BY <2>4, <4>1, <4>2
    <3> QED
      BY <1>1, <2>1, <2>4, <2>5, <3>1
      DEF IInv, Scritture, PrimaDiScrivere, PrimaDiCaricare, InLettura, InScrittura
  <2>11. Canonici'
    <3>1. \A k \in DOMAIN r.uscite :
             r.uscite[k].nome \in ToSet(pubblicati) => Voce[r.uscite[k].percorso] \in scritti'
      BY <1>1, <1>4, <2>2 DEF IInv, Canonici
    <3>2. \A w \in scritti' : \E k \in DOMAIN r.uscite :
             r.uscite[k].nome \in ToSet(pubblicati) /\ Voce[r.uscite[k].percorso] = w
      BY <1>1, <1>4, <2>2, <2>6 DEF IInv, Canonici
    <3> QED
      BY <1>1, <2>1, <3>1, <3>2 DEF Canonici
  <2>12. NelBudget' /\ Concesse'
    BY <1>1, <2>1
    DEF IInv, NelBudget, SpazioInLettura, PrimaDiCaricare, InLettura, Concesse, Interrotta
  <2>13. EffettoVeritiero' /\ IngressiIntatti' /\ NessunaUscitaPerduta'
    BY <1>1, <2>1 DEF IInv, EffettoVeritiero, IngressiIntatti, NessunaUscitaPerduta,
                      PercorsiIngressi, Ingressi, DaFile
  <2> QED
    BY <2>7, <2>8, <2>9, <2>10, <2>11, <2>12, <2>13 DEF IInv
<1> QED
  BY <1>2, <1>3, <1>4

LEMMA VerificaFinaleConserva == IInv /\ VerificaFinale => IInv'
<1> SUFFICES ASSUME IInv, VerificaFinale PROVE IInv'
  OBVIOUS
<1>1. /\ pc = "controllo_scrittura" /\ pc # "fine" /\ restanti = <<>>
      /\ r' = r /\ pubblicati' = pubblicati /\ ~ temporaneo' /\ temporaneo' = temporaneo
      /\ UNCHANGED <<r, scritti, pubblicati, file, mondo>>
      /\ caricate' = caricate /\ residuo' = residuo /\ restanti' = restanti
  BY DEF VerificaFinale, chiamata, disco, IInv, Indici
\* Nothing is left to write: everything is published.
<1>2. pubblicati = r.outputs
  <2>1. /\ pubblicati \in Seq(STRING) /\ r.outputs \in Seq(STRING)
        /\ Len(pubblicati) = Len(r.outputs)
        /\ \A k \in 1 .. Len(pubblicati) : pubblicati[k] = r.outputs[k]
    BY <1>1, TipiDellaRichiesta DEF IInv, TypeOK, Scritture, InScrittura
  <2> QED
    BY <2>1, SeqEqual
<1>3. CASE Interrotta
  <2>1. PICK x \in {"none", "committed"} :
          /\ Finisce("errore", CategoriaInterruzione, x)
          /\ x = "none" => pubblicati = <<>>
    BY <1>3 DEF VerificaFinale
  <2>2. EffettoVeritiero'
    BY <1>1, <1>2, <2>1 DEF Finisce, EffettoVeritiero, IInv
  <2> QED
    BY <1>1, <2>1, <2>2, FinisceConserva DEF IInv, TypeOK, CategoriaInterruzione, Categorie
<1>4. CASE ~ Interrotta
  <2>1. Finisce("reso", "nessuna", "none")
    BY <1>4 DEF VerificaFinale, Rende
  <2>2. EffettoVeritiero'
    BY <1>1, <1>2, <2>1 DEF Finisce, EffettoVeritiero, IInv
  <2> QED
    BY <1>1, <2>1, <2>2, FinisceConserva DEF IInv, TypeOK
<1> QED
  BY <1>3, <1>4

-----------------------------------------------------------------------------
(* The rest of the world *)

\* The interruption touches only its own state.
LEMMA InterruzioneConserva == IInv /\ (Annulla \/ Scade) => IInv'
<1> SUFFICES ASSUME IInv, Annulla \/ Scade PROVE IInv'
  OBVIOUS
<1>1. /\ pc' = pc /\ i' = i /\ esito' = esito
      /\ r' = r /\ scritti' = scritti /\ pubblicati' = pubblicati /\ file' = file
      /\ caricate' = caricate /\ residuo' = residuo /\ restanti' = restanti
      /\ temporaneo' = temporaneo /\ toccate' = toccate /\ altri' = altri
      /\ annullato' \in BOOLEAN /\ scaduto' \in BOOLEAN
      /\ Alza
  BY DEF Annulla, Scade, chiamata, disco, IInv, TypeOK
<1>2. concesse' \in Nat
  BY <1>1 DEF IInv, TypeOK, Alza
<1>3. TypeOK'
  BY <1>1, <1>2 DEF IInv, TypeOK, Contenuti
<1>4. Indici' /\ NomiInPari'
  BY <1>1 DEF IInv, Indici, NomiInPari
<1>5. Scritture'
  BY <1>1 DEF IInv, Scritture
<1>6. IngressiPresenti' /\ UsciteDistinte'
  BY <1>1, FrameDeiPercorsi DEF IInv, IngressiPresenti, UsciteDistinte
<1>7. Canonici'
  BY <1>1 DEF IInv, Canonici, Destinazione
<1>8. NelBudget'
  BY <1>1 DEF IInv, NelBudget, SpazioInLettura, Vivi, InMemoria, DaFile
<1>9. Concesse'
  <2>1. Len(pubblicati) \in Nat
    BY DEF IInv, TypeOK
  <2> QED
    BY <1>1, <2>1 DEF IInv, TypeOK, Concesse, Alza, Interrotta
<1>10. EffettoVeritiero' /\ IngressiIntatti' /\ NessunaUscitaPerduta'
  BY <1>1 DEF IInv, EffettoVeritiero, IngressiIntatti, NessunaUscitaPerduta, PercorsiIngressi,
              Ingressi, DaFile
<1> QED
  BY <1>3, <1>4, <1>5, <1>6, <1>7, <1>8, <1>9, <1>10 DEF IInv

\* Another program touches one entry, which is excused from then on.
LEMMA AltriMettonoConserva ==
    ASSUME IInv, NEW v \in Voci, NEW c \in DiAltri, AltriMettono(v, c)
    PROVE  IInv'
<1>1. /\ pc' = pc /\ i' = i /\ esito' = esito
      /\ r' = r /\ scritti' = scritti /\ pubblicati' = pubblicati
      /\ caricate' = caricate /\ residuo' = residuo /\ restanti' = restanti
      /\ temporaneo' = temporaneo /\ concesse' = concesse
      /\ annullato' = annullato /\ scaduto' = scaduto
      /\ toccate' = toccate \cup {v} /\ altri' = altri + 1
      /\ file' = [file EXCEPT ![v] = c]
  BY DEF AltriMettono, chiamata
<1>2. \A w \in Voci : w \notin toccate' => w \notin toccate /\ file'[w] = file[w]
  BY <1>1 DEF IInv, TypeOK
<1>3. TypeOK'
  BY <1>1 DEF IInv, TypeOK, Contenuti
<1>4. Indici' /\ NomiInPari'
  BY <1>1 DEF IInv, Indici, NomiInPari
<1>5. Scritture'
  BY <1>1 DEF IInv, Scritture
<1>6. IngressiPresenti'
  <2>1. \A k \in Ingressi : IngressoPresente(k) => IngressoPresente(k)'
    BY <1>1, <1>2, TipiDellaRichiesta DEF IInv, IngressoPresente, DaFile
  <2>2. pc = "percorsi_ingressi" => \A k \in 1 .. (i - 1) : k \in Ingressi
    BY TipiDellaRichiesta DEF IInv, TypeOK, Indici
  <2> QED
    BY <1>1, <2>1, <2>2 DEF IInv, IngressiPresenti, Ingressi
<1>7. UsciteDistinte'
  BY <1>1 DEF IInv, UsciteDistinte, UscitaDistinta, VociIngressi, PercorsiIngressi, Ingressi, DaFile
<1>8. Canonici'
  BY <1>1 DEF IInv, Canonici, Destinazione
<1>9. NelBudget'
  BY <1>1 DEF IInv, NelBudget, SpazioInLettura, Vivi, InMemoria, DaFile
<1>10. Concesse' /\ EffettoVeritiero'
  BY <1>1 DEF IInv, Concesse, Interrotta, EffettoVeritiero
<1>11. IngressiIntatti'
  <2>1. \A p \in PercorsiIngressi : Voce[p] \in Voci
    BY TipiDellaRichiesta DEF IInv, PercorsiIngressi
  <2>2. PercorsiIngressi' = PercorsiIngressi
    BY <1>1 DEF PercorsiIngressi, Ingressi, DaFile
  <2> QED
    BY <1>2, <2>1, <2>2 DEF IInv, IngressiIntatti
<1>12. NessunaUscitaPerduta'
  BY <1>1, <1>2, TipiDellaRichiesta DEF IInv, NessunaUscitaPerduta
<1> QED
  BY <1>3, <1>4, <1>5, <1>6, <1>7, <1>8, <1>9, <1>10, <1>11, <1>12 DEF IInv

-----------------------------------------------------------------------------
(* The theorems *)

LEMMA InizioInv == Init => IInv
<1> SUFFICES ASSUME Init PROVE IInv
  OBVIOUS
<1>1. /\ pc \in {"nomi", "riserva"} /\ (pc = "nomi" => r.modo = "file")
      /\ pc = (IF r.modo = "file" THEN "nomi" ELSE "riserva")
  BY DEF Init
<1>2. TypeOK
  <2>1. file \in [Voci -> Contenuti]
    BY DEF Init, Contenuti
  <2>2. pc \in Punti
    BY <1>1 DEF Punti, PrimaDiScrivere, PrimaDiCaricare
  <2>3. /\ caricate \in Seq(SUBSET Buffer)
        /\ restanti \in Seq([nome : STRING, buffer : SUBSET Buffer])
        /\ pubblicati \in Seq(STRING)
    BY DEF Init
  <2>4. esito \in [stato : {"in_corso", "reso", "errore"},
                  categoria : Categorie \cup {"nessuna"},
                  effetto : {"none", "partial", "committed", "unknown"}]
    BY DEF Init
  <2>5. temporaneo \in BOOLEAN /\ annullato \in BOOLEAN /\ scaduto \in BOOLEAN
    BY DEF Init
  <2>6. /\ r \in Richieste /\ i \in Nat \ {0} /\ residuo \in Nat /\ concesse \in Nat
        /\ altri \in Nat /\ scritti \subseteq Voci /\ toccate \subseteq Voci
    BY DEF Init
  <2> QED
    BY <2>1, <2>2, <2>3, <2>4, <2>5, <2>6 DEF TypeOK
<1>3. Indici /\ NomiInPari /\ IngressiPresenti /\ UsciteDistinte
  BY <1>1
  DEF Init, Indici, NomiInPari, IngressiPresenti, UsciteDistinte, InScrittura, InLettura
<1>4. Scritture
  BY <1>1, <1>2, TipiDellaRichiesta DEF Init, Scritture, InScrittura
<1>5. Canonici /\ NelBudget /\ Concesse
  BY <1>1 DEF Init, Canonici, NelBudget, SpazioInLettura, Concesse, Interrotta, InScrittura,
              InLettura
<1>6. EffettoVeritiero /\ NessunaUscitaPerduta
  BY DEF Init, EffettoVeritiero, NessunaUscitaPerduta, ToSet
<1>7. IngressiIntatti
  BY <1>2, TipiDellaRichiesta DEF Init, IngressiIntatti, PercorsiIngressi
<1> QED
  BY <1>2, <1>3, <1>4, <1>5, <1>6, <1>7 DEF IInv

LEMMA PassoInv == IInv /\ [Next]_vars => IInv'
<1> SUFFICES ASSUME IInv, [Next]_vars PROVE IInv'
  OBVIOUS
<1>1. CASE Esecutore
  <2>1. \A c \in {"Io", "DataMapping", "ResourceLimit"} : c \in Categorie
    BY DEF Categorie
  <2> QED
    BY <1>1, <2>1, VerificaNomiConserva, VerificaIngressoConserva, VerificaUscitaConserva,
       RiservaConserva, ControllaLetturaConserva, LeggeMaleConserva, LeggeConserva,
       ValidaConserva, EsegueConserva, ControllaScritturaConserva, ScriveMaleConserva,
       ScriveConserva, CanonicoConserva, VerificaFinaleConserva
    DEF Esecutore
<1>2. CASE Annulla \/ Scade
  BY <1>2, InterruzioneConserva
<1>3. CASE \E v \in Voci, c \in DiAltri : AltriMettono(v, c)
  BY <1>3, AltriMettonoConserva
<1>4. CASE UNCHANGED vars
  <2>1. /\ r' = r /\ pc' = pc /\ i' = i /\ caricate' = caricate /\ residuo' = residuo
        /\ restanti' = restanti /\ scritti' = scritti /\ pubblicati' = pubblicati
        /\ esito' = esito /\ file' = file /\ temporaneo' = temporaneo
        /\ annullato' = annullato /\ scaduto' = scaduto /\ concesse' = concesse
        /\ toccate' = toccate /\ altri' = altri
    BY <1>4 DEF vars
  <2>2. TypeOK' /\ Indici'
    BY <2>1 DEF IInv, TypeOK, Contenuti, Indici
  <2>3. NomiInPari' /\ Scritture'
    BY <2>1 DEF IInv, NomiInPari, Scritture
  <2>4. IngressiPresenti' /\ UsciteDistinte'
    BY <2>1, FrameDeiPercorsi DEF IInv, IngressiPresenti, UsciteDistinte
  <2>5. Canonici' /\ NelBudget' /\ Concesse'
    BY <2>1 DEF IInv, Canonici, Destinazione, NelBudget, SpazioInLettura, Vivi, InMemoria, DaFile,
                Concesse, Interrotta
  <2>6. EffettoVeritiero' /\ IngressiIntatti' /\ NessunaUscitaPerduta'
    BY <2>1 DEF IInv, EffettoVeritiero, IngressiIntatti, NessunaUscitaPerduta, PercorsiIngressi,
                Ingressi, DaFile
  <2> QED
    BY <2>2, <2>3, <2>4, <2>5, <2>6 DEF IInv
<1> QED
  BY <1>1, <1>2, <1>3, <1>4 DEF Next, Finito

\* The invariant holds of every call: the outputs written are the first ones of the
\* plan, every path that was checked stays what the check saw unless another program
\* interferes, and what is loaded fits in the budget.
THEOREM InvarianteDellEsecuzione == Spec => []IInv
BY InizioInv, PassoInv, PTL DEF Spec

\* The effect of an error of esegui_ingressi, esegui_in_memoria and valida_ingressi
\* tells what is on disk, and a success published everything, in the order of the plan.
THEOREM EffettoSempreVeritiero == Spec => []EffettoVeritiero
<1>1. IInv => EffettoVeritiero
  BY DEF IInv
<1> QED
  BY <1>1, InvarianteDellEsecuzione, PTL

\* No output ever replaces the file of an input, whatever names the paths give it.
THEOREM IngressiSempreIntatti == Spec => []IngressiIntatti
<1>1. IInv => IngressiIntatti
  BY DEF IInv
<1> QED
  BY <1>1, InvarianteDellEsecuzione, PTL

\* No output of the call ever replaces another one.
THEOREM UsciteMaiPerdute == Spec => []NessunaUscitaPerduta
<1>1. IInv => NessunaUscitaPerduta
  BY DEF IInv
<1> QED
  BY <1>1, InvarianteDellEsecuzione, PTL

\* The room given to a reader fits in the budget with all that is already resident.
THEOREM SpazioSempreNelBudget == Spec => []SpazioInLettura
<1>1. IInv => SpazioInLettura
  BY DEF IInv, NelBudget
<1> QED
  BY <1>1, InvarianteDellEsecuzione, PTL

\* Once interrupted before the last check, a call stays before it or has failed.
Condannata == Interrotta /\ esito.stato # "reso" /\ (pc = "fine" \/ ~ OltreUltimoControllo)

LEMMA CondannataResta == IInv /\ Condannata /\ [Next]_vars => Condannata'
<1> SUFFICES ASSUME IInv, Condannata, [Next]_vars PROVE Condannata'
  OBVIOUS
<1>1. Interrotta'
  BY DEF Condannata, Interrotta, Next, Esecutore, Finito, vars, mondo, VerificaNomi,
         VerificaIngresso, VerificaUscita, Riserva, ControllaLettura, LeggeMale, Legge, Valida,
         EsegueMale, EsegueInterrotta, Esegue, ControllaScrittura, ScriveMale, Scrive, Canonico,
         VerificaFinale, Annulla, Scade, AltriMettono
<1>2. CASE pc = "fine"
  <2>1. pc' = pc /\ esito' = esito
    BY <1>2 DEF Next, Esecutore, Finito, vars, VerificaNomi, VerificaIngresso, VerificaUscita,
         Riserva, ControllaLettura, LeggeMale, Legge, Valida, EsegueMale, EsegueInterrotta,
         Esegue, ControllaScrittura, ScriveMale, Scrive, Canonico, VerificaFinale, Annulla,
         Scade, AltriMettono
  <2> QED
    BY <1>1, <1>2, <2>1 DEF Condannata
<1>3. CASE pc # "fine"
  <2>1. /\ esito.stato = "in_corso"
        /\ r.modo = "valida" => r.ingressi # <<>> /\ ~ (pc \in {"lettura", "valida"} /\ i >= Len(r.ingressi))
    BY <1>3 DEF Condannata, OltreUltimoControllo, IInv, Indici
  \* A check of the interruption fails the call.
  <2>2. CASE ControllaLettura
    BY <1>1, <1>3, <2>2 DEF ControllaLettura, Condannata, Fallisce, Finisce
  <2>3. CASE VerificaFinale
    BY <1>1, <1>3, <2>3 DEF VerificaFinale, Condannata, Finisce
  <2>4. CASE \E t \in [DOMAIN r.outputs -> SUBSET Buffer] : Esegue(t)
    BY <2>4 DEF Esegue, Condannata
  \* The other steps do not succeed, and do not pass the last check.
  <2>5. CASE \E e \in {"ok", "InvalidPlan"} : Valida(e)
    <3>1. pc = "valida" /\ r' = r /\ r.modo # "valida"
      BY <2>1, <2>5 DEF Valida, chiamata, IInv, Indici
    <3>2. esito'.stato # "reso"
      BY <2>1, <2>5, <3>1 DEF Valida, Fallisce, Finisce, Va
    <3> QED
      BY <1>1, <3>1, <3>2 DEF Condannata, OltreUltimoControllo
  <2>6. CASE \E b \in SUBSET Buffer : Legge(b)
    <3>1. pc = "lettura" /\ r' = r /\ pc' \in {"valida", "controllo_lettura", "fine"}
      BY <2>6 DEF Legge, Carica, Fallisce, Finisce, Va, DopoIngresso
    <3>2. esito'.stato # "reso"
      BY <2>1, <2>6 DEF Legge, Carica, Fallisce, Finisce, Va
    <3>3. pc' = "valida" => i = Len(r.ingressi)
      BY <2>6 DEF Legge, Carica, Fallisce, Finisce, Va, DopoIngresso
    <3>4. i \in Nat
      BY DEF IInv, TypeOK
    <3> QED
      BY <1>1, <2>1, <3>1, <3>2, <3>3, <3>4 DEF Condannata, OltreUltimoControllo
  <2>7. CASE \E validi \in BOOLEAN : Riserva(validi)
    <3>1. /\ r' = r /\ esito'.stato # "reso"
          /\ pc' \in {"valida", "controllo_lettura", "fine"}
          /\ pc' = "valida" => Len(r.ingressi) = 0
      BY <2>1, <2>7, TipiDellaRichiesta
      DEF Riserva, Fallisce, Finisce, Va, DopoIngresso, chiamata, IInv
    <3>2. r.modo = "valida" => Len(r.ingressi) # 0
      BY <2>1, TipiDellaRichiesta DEF IInv
    <3> QED
      BY <1>1, <2>1, <3>1, <3>2 DEF Condannata, OltreUltimoControllo
  <2>8. CASE \/ VerificaNomi
             \/ \E guasto \in BOOLEAN : VerificaIngresso(guasto) \/ VerificaUscita(guasto)
    <3>1. r' = r /\ esito'.stato # "reso" /\ pc' \notin {"lettura", "valida"}
      BY <2>1, <2>8
      DEF VerificaNomi, VerificaIngresso, VerificaUscita, Fallisce, Finisce, Va, chiamata
    <3> QED
      BY <1>1, <2>1, <3>1 DEF Condannata, OltreUltimoControllo
  <2>9. CASE \/ \E c \in {"Io", "DataMapping", "ResourceLimit"} : LeggeMale(c) \/ EsegueMale(c)
             \/ EsegueInterrotta
             \/ \E c \in {"Io", "Conflict"}, rimasto \in BOOLEAN : ScriveMale(c, rimasto)
    BY <1>1, <2>9
    DEF LeggeMale, EsegueMale, EsegueInterrotta, ScriveMale, FallisceScrittura, Fallisce, Finisce,
        Condannata
  <2>10. CASE \/ \E x \in Transitori, guasto \in BOOLEAN : ControllaScrittura(x, guasto)
              \/ Scrive
              \/ \E guasto \in BOOLEAN : Canonico(guasto)
    <3>1. r' = r /\ esito'.stato # "reso" /\ pc' \notin {"lettura", "valida"}
      BY <2>1, <2>10
      DEF ControllaScrittura, Scrive, Canonico, FallisceScrittura, Finisce, Va, chiamata
    <3> QED
      BY <1>1, <2>1, <3>1 DEF Condannata, OltreUltimoControllo
  <2>11. CASE \/ Annulla \/ Scade \/ UNCHANGED vars
              \/ \E v \in Voci, c \in DiAltri : AltriMettono(v, c)
    BY <1>1, <1>3, <2>11
    DEF Annulla, Scade, AltriMettono, vars, chiamata, Condannata, OltreUltimoControllo
  <2> QED
    BY <2>2, <2>3, <2>4, <2>5, <2>6, <2>7, <2>8, <2>9, <2>10, <2>11 DEF Next, Esecutore, Finito
<1> QED
  BY <1>2, <1>3

\* An interruption before the last check is never a success, and at most the output
\* under way is still written after it.
THEOREM InterrottoMaiRiesce == Spec => InterrottoNonRiesce
<1>1. IInv => (Interrotta => Len(pubblicati) <= concesse)
  BY DEF IInv, TypeOK, Concesse
<1>2. IInv /\ Interrotta /\ ~ OltreUltimoControllo => Condannata
  BY DEF IInv, Indici, Condannata, OltreUltimoControllo
<1>3. Condannata => esito.stato # "reso"
  BY DEF Condannata
<1> QED
  BY <1>1, <1>2, <1>3, InvarianteDellEsecuzione, CondannataResta, PTL
  DEF InterrottoNonRiesce, Spec

=============================================================================
