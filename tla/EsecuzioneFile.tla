--------------------------- MODULE EsecuzioneFile ---------------------------
(***************************************************************************)
(* A plan from files to files (plenora-io/src/esecuzione.rs): the checks   *)
(* on the paths, the inputs loaded within the budget, the plan run, the    *)
(* outputs written one by one; and the two calls that share its loading,   *)
(* esegui_in_memoria and valida_ingressi.                                  *)
(*                                                                         *)
(* Every file is written atomically (ScritturaAtomica), the set of the     *)
(* outputs is not: an error says by its effect what is on disk.  Several   *)
(* paths may name the same directory entry (Voce).  Other programs create  *)
(* and remove entries, another thread raises the cancellation signal and   *)
(* the clock passes the deadline between any two steps.                    *)
(*                                                                         *)
(* The runner is one step here: Runner shows that it returns outputs       *)
(* within the budget, and none once an interruption is up before it.       *)
(***************************************************************************)
EXTENDS Memoria, Sequences, SequencesExt

CONSTANTS
    Richieste,      \* bound: the calls
    Voci,           \* directory entries
    Voce,           \* the entry of every path
    Riconosciuti,   \* the paths whose format is given or known by extension
    Budget,         \* budget_del_piano
    Transitori,     \* bound: the predicted transients of a write
    MaxAltri        \* bound: steps of the other programs

ASSUME FileAssunti ==
    /\ Budget \in 1 .. MaxU64
    /\ Transitori \subseteq 0 .. MaxU64
    /\ MaxAltri \in Nat
    /\ \A p \in DOMAIN Voce : Voce[p] \in Voci

\* What a caller passes: the inputs, files or tables in memory; the outputs of the
\* plan; the path of every output.
Ingresso == [tipo : {"file", "tabella"}, percorso : STRING, buffer : SUBSET Buffer]
Richiesta ==
    [modo : {"file", "memoria", "valida"}, ingressi : Seq(Ingresso), outputs : Seq(STRING),
     uscite : Seq([nome : STRING, percorso : STRING]), sovrascrivi : BOOLEAN]

\* Every path a call names has its directory entry.
ASSUME RichiesteAssunte ==
    \A q \in Richieste :
        /\ q \in Richiesta
        /\ \A k \in DOMAIN q.ingressi :
              q.ingressi[k].tipo = "file" => q.ingressi[k].percorso \in DOMAIN Voce
        /\ \A k \in DOMAIN q.uscite : q.uscite[k].percorso \in DOMAIN Voce

VARIABLES
    r,              \* the call: mode, inputs, outputs of the plan, paths, overwrite
    pc,             \* where the call is
    i,              \* index in the loop under way
    caricate,       \* the tables loaded so far, in order
    residuo,        \* the room given to the file being read
    restanti,       \* outputs not yet written: name and buffers, in plan order
    scritti,        \* canonical paths of the outputs written
    pubblicati,     \* names of the outputs written
    esito,          \* what the call returned
    file,           \* content of every entry
    temporaneo,     \* a temporary file stayed behind
    annullato, scaduto,     \* the interruption
    concesse,       \* observation: outputs that may be on disk after the interruption
    toccate,        \* observation: entries touched by the other programs
    altri           \* steps of the other programs

chiamata == <<r, caricate, residuo, restanti, scritti, pubblicati>>
disco == <<file, temporaneo>>
mondo == <<annullato, scaduto, concesse, toccate, altri>>
vars == <<r, pc, i, caricate, residuo, restanti, scritti, pubblicati, esito, file,
          temporaneo, annullato, scaduto, concesse, toccate, altri>>

\* An entry shows nothing, a file of somebody else or an output of this call.
Uscita(nome) == <<"uscita", nome>>
DiAltri == {<<"assente", "altri">>, <<"file", "altri">>}
Assente == <<"assente", "altri">>
Esiste(p) == file[Voce[p]] # Assente

Ingressi == DOMAIN r.ingressi
DaFile(k) == r.ingressi[k].tipo = "file"

\* The tables given in memory among the first k inputs.
InMemoria(k) == UNION {r.ingressi[j].buffer : j \in {h \in 1 .. k : ~ DaFile(h)}}

\* vivi_con_residenti: the tables loaded and, from the start, all those in memory.
Vivi_soloCaricate(c) == UNION ToSet(c)
Vivi(c) == (UNION ToSet(c)) \cup InMemoria(Len(r.ingressi))

Init ==
    /\ r \in Richieste
    /\ pc = IF r.modo = "file" THEN "nomi" ELSE "riserva"
    /\ i = 1
    /\ caricate = <<>>
    /\ residuo = 0
    /\ restanti = <<>>
    /\ scritti = {}
    /\ pubblicati = <<>>
    /\ esito = [stato |-> "in_corso", categoria |-> "nessuna", effetto |-> "none"]
    /\ file \in [Voci -> DiAltri]
    /\ temporaneo = FALSE
    /\ annullato = FALSE
    /\ scaduto = FALSE
    /\ concesse = 0
    /\ toccate = {}
    /\ altri = 0

Va(punto, k) == pc' = punto /\ i' = k /\ UNCHANGED esito

Finisce(stato, categoria, effetto) ==
    /\ pc' = "fine"
    /\ esito' = [stato |-> stato, categoria |-> categoria, effetto |-> effetto]
    /\ UNCHANGED i

Rende == Finisce("reso", "nessuna", "none")
Fallisce(categoria) == Finisce("errore", categoria, "none")

\* Interruzione::verifica: the signal before the deadline.
Interrotta == annullato \/ scaduto
CategoriaInterruzione == IF annullato THEN "Cancelled" ELSE "Timeout"

-----------------------------------------------------------------------------
(* verifica_percorsi *)

VerificaNomi ==
    /\ pc = "nomi"
    /\ LET nomi == [k \in DOMAIN r.uscite |-> r.uscite[k].nome]
       IN IF ToSet(nomi) = ToSet(r.outputs) /\ IsInjective(nomi)
            THEN Va("percorsi_ingressi", 1)
            ELSE Fallisce("InvalidPlan")
    /\ UNCHANGED <<chiamata, disco, mondo>>

\* A file must have a format and exist; a table in memory has no path.
VerificaIngresso(guasto) ==
    /\ pc = "percorsi_ingressi"
    /\ IF i \notin Ingressi
         THEN Va("percorsi_uscite", 1)
       ELSE IF DaFile(i) /\ r.ingressi[i].percorso \notin Riconosciuti
         THEN Fallisce("Unsupported")
       ELSE IF DaFile(i) /\ (guasto \/ ~ Esiste(r.ingressi[i].percorso))
         THEN Fallisce("Io")
       ELSE Va("percorsi_ingressi", i + 1)
    /\ UNCHANGED <<chiamata, disco, mondo>>

PercorsiIngressi == {r.ingressi[k].percorso : k \in {h \in Ingressi : DaFile(h)}}

\* The path of an output exists and is, under some name, an input.
AncheIngresso_perTesto(p) == p \in PercorsiIngressi
AncheIngresso(p) == Esiste(p) /\ Voce[p] \in {Voce[q] : q \in PercorsiIngressi}

\* `guasto`: the file system refuses, the destination is a directory or it has no
\* parent directory.
VerificaUscita(guasto) ==
    /\ pc = "percorsi_uscite"
    /\ IF i \notin DOMAIN r.uscite
         THEN Va("riserva", 1)
         ELSE LET p == r.uscite[i].percorso
              IN IF p \notin Riconosciuti
                   THEN Fallisce("Unsupported")
                 ELSE IF \/ p \in PercorsiIngressi
                         \/ \E k \in 1 .. (i - 1) : r.uscite[k].percorso = p
                   THEN Fallisce("InvalidPlan")
                 ELSE IF guasto THEN Fallisce("Io")
                 ELSE IF Esiste(p) /\ ~ r.sovrascrivi THEN Fallisce("Conflict")
                 ELSE IF AncheIngresso(p) THEN Fallisce("InvalidPlan")
                 ELSE Va("percorsi_uscite", i + 1)
    /\ UNCHANGED <<chiamata, disco, mondo>>

-----------------------------------------------------------------------------
(* budget_del_piano and carica_ingressi *)

\* Where the loading goes after the first k inputs.
DopoIngresso(k) == IF k = Len(r.ingressi) THEN "valida" ELSE "controllo_lettura"

\* The limits of the plan (`validi`), and the tables in memory reserved in order.
Riserva(validi) ==
    /\ pc = "riserva"
    /\ LET oltre == {k \in Ingressi : byte_vivi(InMemoria(k)) > Budget}
       IN IF ~ validi
            THEN Fallisce("InvalidPlan")
          ELSE IF oltre # {}
            THEN Fallisce(IF NonRappresentabile(InMemoria(Min(oltre)))
                            THEN "Internal" ELSE "ResourceLimit")
          ELSE Va(DopoIngresso(0), 1)
    /\ UNCHANGED <<chiamata, disco, mondo>>

\* A table enters `caricate`; the exact live bytes must stay in the budget.
Carica(buffer) ==
    LET c == Append(caricate, buffer)
    IN /\ caricate' = c
       /\ IF NonRappresentabile(Vivi(c))    THEN Fallisce("Internal")
          ELSE IF byte_vivi(Vivi(c)) > Budget THEN Fallisce("ResourceLimit")
          ELSE Va(DopoIngresso(i), i + 1)

\* budget.saturating_sub(vivi)
Residuo(vivi) == IF vivi > Budget THEN 0 ELSE Budget - vivi

ControllaLettura ==
    /\ pc = "controllo_lettura"
    /\ IF Interrotta
         THEN Fallisce(CategoriaInterruzione) /\ UNCHANGED <<caricate, residuo>>
       ELSE IF ~ DaFile(i)
         THEN Carica(r.ingressi[i].buffer) /\ UNCHANGED residuo
       ELSE IF NonRappresentabile(Vivi(caricate))
         THEN Fallisce("Internal") /\ UNCHANGED <<caricate, residuo>>
       ELSE /\ residuo' = Residuo(byte_vivi(Vivi(caricate)))
            /\ Va("lettura", i)
            /\ UNCHANGED caricate
    /\ UNCHANGED <<r, restanti, scritti, pubblicati, disco, mondo>>

\* leggi_tabella fails, or gives a table.
LeggeMale(categoria) ==
    /\ pc = "lettura"
    /\ Fallisce(categoria)
    /\ UNCHANGED <<chiamata, disco, mondo>>

Legge(buffer) ==
    /\ pc = "lettura"
    /\ Esiste(r.ingressi[i].percorso)
    /\ Carica(buffer)
    /\ UNCHANGED <<r, residuo, restanti, scritti, pubblicati, disco, mondo>>

-----------------------------------------------------------------------------
(* validate and run_interrompibile *)

Valida(esitoPiano) ==
    /\ pc = "valida"
    /\ IF esitoPiano # "ok"         THEN Fallisce(esitoPiano)
       ELSE IF r.modo = "valida"    THEN Rende
       ELSE Va("esecuzione", 1)
    /\ UNCHANGED <<chiamata, disco, mondo>>

\* The run fails by itself, or at one of its checks of the interruption.
EsegueMale(categoria) ==
    /\ pc = "esecuzione"
    /\ Fallisce(categoria)
    /\ UNCHANGED <<chiamata, disco, mondo>>

EsegueInterrotta ==
    /\ pc = "esecuzione"
    /\ Interrotta
    /\ Fallisce(CategoriaInterruzione)
    /\ UNCHANGED <<chiamata, disco, mondo>>

\* The outputs in plan order, the k-th with the buffers t[k].
Esegue(t) ==
    /\ pc = "esecuzione"
    /\ ~ Interrotta
    /\ byte_vivi(UNION ToSet(t)) <= Budget
    /\ restanti' = [k \in DOMAIN r.outputs |-> [nome |-> r.outputs[k], buffer |-> t[k]]]
    /\ IF r.modo = "memoria" THEN Rende ELSE Va("controllo_scrittura", 1)
    /\ UNCHANGED <<r, caricate, residuo, scritti, pubblicati, disco, mondo>>

-----------------------------------------------------------------------------
(* scrivi_uscite and verifica_finale *)

\* The effect of an error of scrivi_uscite, which may declare its own.
EffettoDi_soloUltimo(proprio) ==
    IF proprio # "none" THEN proprio
    ELSE IF Len(pubblicati) < Len(r.outputs) THEN "none" ELSE "partial"
EffettoDi(proprio) ==
    IF proprio # "none" THEN proprio
    ELSE IF pubblicati = <<>> THEN "none" ELSE "partial"

FallisceScrittura(categoria, proprio) ==
    Finisce("errore", categoria, EffettoDi(proprio))

Destinazione == LET k == CHOOSE k \in DOMAIN r.uscite : r.uscite[k].nome = Head(restanti).nome
                IN r.uscite[k].percorso

\* vivi.saturating_add(transitorio)
BufferRestanti == UNION {restanti[k].buffer : k \in DOMAIN restanti}
Servono(transitorio) ==
    LET somma == byte_vivi(BufferRestanti) + transitorio
    IN IF somma > MaxU64 THEN MaxU64 ELSE somma

\* The interruption as seen before an output.
InterrottaPrimaDiScrivere == Interrotta

\* The destination is the file of an output just written.
GiaScritto_maiControllato == FALSE
GiaScritto == Esiste(Destinazione) /\ Voce[Destinazione] \in scritti

ControllaScrittura(transitorio, guasto) ==
    /\ pc = "controllo_scrittura"
    /\ restanti # <<>>
    /\ IF InterrottaPrimaDiScrivere
         THEN FallisceScrittura(CategoriaInterruzione, "none")
       ELSE IF NonRappresentabile(BufferRestanti)
         THEN FallisceScrittura("Internal", "none")
       ELSE IF Servono(transitorio) > Budget
         THEN FallisceScrittura("ResourceLimit", "none")
       ELSE IF guasto
         THEN FallisceScrittura("Io", "none")
       ELSE IF GiaScritto
         THEN FallisceScrittura("Conflict", "none")
       ELSE Va("scrittura", i)
    /\ UNCHANGED <<chiamata, disco, mondo>>

\* scrivi_tabella fails; `rimasto`: its temporary could not be removed, and the
\* error declares it.
ScriveMale(categoria, rimasto) ==
    /\ pc = "scrittura"
    /\ FallisceScrittura(categoria, IF rimasto THEN "unknown" ELSE "none")
    /\ temporaneo' = (temporaneo \/ rimasto)
    /\ UNCHANGED <<chiamata, file, mondo>>

\* scrivi_tabella writes the file; the output counts as published.
Scrive ==
    /\ pc = "scrittura"
    /\ r.sovrascrivi \/ ~ Esiste(Destinazione)
    /\ file' = [file EXCEPT ![Voce[Destinazione]] = Uscita(Head(restanti).nome)]
    /\ pubblicati' = Append(pubblicati, Head(restanti).nome)
    /\ Va("canonico", i)
    /\ UNCHANGED <<r, caricate, residuo, restanti, scritti, temporaneo, mondo>>

\* The path just written is resolved again: another program may have removed it.
Canonico(guasto) ==
    /\ pc = "canonico"
    /\ IF guasto \/ ~ Esiste(Destinazione)
         THEN FallisceScrittura("Io", "none") /\ UNCHANGED <<scritti, restanti>>
         ELSE /\ scritti' = scritti \cup {Voce[Destinazione]}
              /\ restanti' = Tail(restanti)
              /\ Va("controllo_scrittura", i + 1)
    /\ UNCHANGED <<r, caricate, residuo, pubblicati, disco, mondo>>

VerificaFinale_taciuta ==
    /\ pc = "controllo_scrittura"
    /\ restanti = <<>>
    /\ Rende
    /\ UNCHANGED <<chiamata, disco, mondo>>
VerificaFinale ==
    /\ pc = "controllo_scrittura"
    /\ restanti = <<>>
    /\ IF Interrotta
         THEN Finisce("errore", CategoriaInterruzione,
                      IF pubblicati = <<>> THEN "none" ELSE "committed")
         ELSE Rende
    /\ UNCHANGED <<chiamata, disco, mondo>>

-----------------------------------------------------------------------------
(* The rest of the world *)

\* The outputs that may be on disk once the interruption is up: those written, and
\* the one being written.
Alza ==
    concesse' = IF Interrotta THEN concesse
                ELSE Len(pubblicati) + (IF pc = "scrittura" THEN 1 ELSE 0)

Annulla ==
    /\ pc # "fine" /\ ~ annullato
    /\ annullato' = TRUE
    /\ Alza
    /\ UNCHANGED <<pc, i, esito, chiamata, disco, scaduto, toccate, altri>>

Scade ==
    /\ pc # "fine" /\ ~ scaduto
    /\ scaduto' = TRUE
    /\ Alza
    /\ UNCHANGED <<pc, i, esito, chiamata, disco, annullato, toccate, altri>>

AltriMettono(v, c) ==
    /\ pc # "fine" /\ altri < MaxAltri
    /\ c # file[v]
    /\ altri' = altri + 1
    /\ file' = [file EXCEPT ![v] = c]
    /\ toccate' = toccate \cup {v}
    /\ UNCHANGED <<pc, i, esito, chiamata, temporaneo, annullato, scaduto, concesse>>

Categorie == {"InvalidPlan", "Unsupported", "ResourceLimit", "Internal", "Io",
              "Conflict", "DataMapping", "Cancelled", "Timeout"}

Esecutore ==
    \/ VerificaNomi
    \/ \E guasto \in BOOLEAN : VerificaIngresso(guasto)
    \/ \E guasto \in BOOLEAN : VerificaUscita(guasto)
    \/ \E validi \in BOOLEAN : Riserva(validi)
    \/ ControllaLettura
    \/ \E c \in {"Io", "DataMapping", "ResourceLimit"} : LeggeMale(c)
    \/ \E b \in SUBSET Buffer : Legge(b)
    \/ \E e \in {"ok", "InvalidPlan"} : Valida(e)
    \/ \E c \in {"DataMapping", "ResourceLimit"} : EsegueMale(c)
    \/ EsegueInterrotta
    \/ \E t \in [DOMAIN r.outputs -> SUBSET Buffer] : Esegue(t)
    \/ \E x \in Transitori, guasto \in BOOLEAN : ControllaScrittura(x, guasto)
    \/ \E c \in {"Io", "Conflict"}, rimasto \in BOOLEAN : ScriveMale(c, rimasto)
    \/ Scrive
    \/ \E guasto \in BOOLEAN : Canonico(guasto)
    \/ VerificaFinale

Finito == pc = "fine" /\ UNCHANGED vars

Next ==
    \/ Esecutore
    \/ Annulla
    \/ Scade
    \/ \E v \in Voci, c \in DiAltri : AltriMettono(v, c)
    \/ Finito

Spec == Init /\ [][Next]_vars

-----------------------------------------------------------------------------
(* Properties *)

\* The effect of an error tells what is on disk, whatever failed and when: with
\* `none` no output was published and no temporary stayed, `partial` comes after
\* at least one output, `committed` after all of them; a success published all the
\* outputs of the plan, in its order.
EffettoVeritiero ==
    /\ esito.effetto = "none" /\ esito.stato = "errore" => pubblicati = <<>> /\ ~ temporaneo
    /\ esito.effetto = "partial" => pubblicati # <<>> /\ ~ temporaneo
    /\ esito.effetto = "committed" => pubblicati = r.outputs
    /\ esito.stato = "reso" /\ r.modo = "file" => pubblicati = r.outputs /\ ~ temporaneo
    /\ r.modo # "file" => pubblicati = <<>>

\* No output replaces the file of an input, under whatever name the paths give it
\* and also with overwrite, unless another program removed or made that file
\* during the call.
IngressiIntatti ==
    \A p \in PercorsiIngressi :
        Voce[p] \notin toccate => file[Voce[p]] \in DiAltri

\* No output of the call replaces another one: what was published is still there
\* at the end, unless another program touched it.
NessunaUscitaPerduta ==
    \A k \in DOMAIN r.uscite :
        LET u == r.uscite[k]
        IN u.nome \in ToSet(pubblicati) /\ Voce[u.percorso] \notin toccate
             => file[Voce[u.percorso]] = Uscita(u.nome)

\* While a file is read, the tables loaded, those the caller gave in memory
\* (wherever they are in the list) and the room given to the reader fit together
\* in the budget.
SpazioInLettura ==
    pc = "lettura" => byte_vivi((UNION ToSet(caricate)) \cup InMemoria(Len(r.ingressi)))
                        + residuo <= Budget

\* After the last check of the interruption: in valida_ingressi it is the one before
\* the last input is read.
OltreUltimoControllo ==
    \/ pc = "fine"
    \/ r.modo = "valida" /\ r.ingressi = <<>>
    \/ r.modo = "valida" /\ pc \in {"lettura", "valida"} /\ i >= Len(r.ingressi)

\* An interruption that comes before the last check is never a success, not even
\* when it comes while the last output is being written; and no further output is
\* written after it, at most the one under way.
InterrottoNonRiesce ==
    /\ [](Interrotta => Len(pubblicati) <= concesse)
    /\ [](Interrotta /\ ~ OltreUltimoControllo => [](esito.stato # "reso"))

=============================================================================
