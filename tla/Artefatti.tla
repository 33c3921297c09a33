------------------------------ MODULE Artefatti ------------------------------
(***************************************************************************)
(* data.run 3: a plan from source artefacts to destination artefacts       *)
(* (plenora-cli/src/artefatti.rs).                                         *)
(*                                                                         *)
(* Sources are copied into a private directory and verified, the plan runs *)
(* there from files to files (EsecuzioneFile, one step here), the outputs  *)
(* are published one at a time, in the order of the plan, and the          *)
(* directory is removed.  The application resolves the references: it is   *)
(* external, and says of a failed publication what it can prove.           *)
(*                                                                         *)
(* The errors are built with the calls of the code, from Errori.           *)
(***************************************************************************)
EXTENDS Errori, FiniteSets

CONSTANTS
    Richieste,      \* bound: the requests
    CauseDelRisolutore  \* bound: the I/O causes the resolver reports

ASSUME CauseAssunte == CauseDelRisolutore \subseteq CauseIo

\* What is looked at in a source.
Controlli == {"size", "sha256", "firma"}

\* What is wrong with a request: it is not the contract, or another cause.
Difetti == Cause \cup {"nessuno", "contratto"}
\* A request: what is wrong with it, what its sources must match, its destinations.
ASSUME RichiesteAssunte ==
    Richieste \subseteq [difetto : Difetti,
                         sorgenti : Seq(SUBSET Controlli),
                         outputs : Seq(STRING)]

VARIABLES
    r,              \* the request: validity, expectations on the sources, outputs
    pc,
    i,              \* index in the loop under way
    cartella,       \* the private directory: "assente", "presente" or "rimasta"
    artefatti,      \* the artefact of every destination
    esito,          \* what the call returned
    annullato, scaduto,
    concesse        \* observation: publications allowed after the interruption

mondo == <<annullato, scaduto, concesse>>
vars == <<r, pc, i, cartella, artefatti, esito, annullato, scaduto, concesse>>

InCorso == [stato |-> "in_corso"]
Reso(manifesto) == [stato |-> "reso", manifesto |-> manifesto]

\* What a destination holds: what it held before, a part of the output, the output.
Contenuti == {"prima", "parte", "intero"}
Uscite == DOMAIN r.outputs
Toccate == {k \in Uscite : artefatti[k] # "prima"}

Init ==
    /\ r \in Richieste
    /\ pc = "richiesta"
    /\ i = 1
    /\ cartella = "assente"
    /\ artefatti = [k \in DOMAIN r.outputs |-> "prima"]
    /\ esito = InCorso
    /\ annullato = FALSE
    /\ scaduto = FALSE
    /\ concesse = 0

Va(punto, k) == pc' = punto /\ i' = k /\ UNCHANGED <<r, esito>>

\* Early return: the directory, if it is there, is dropped; a removal that fails is
\* not seen.
Fallisce(e) ==
    /\ pc' = "fine"
    /\ esito' = [stato |-> "errore", errore |-> e]
    /\ cartella' \in IF cartella = "presente" THEN {"assente", "rimasta"} ELSE {cartella}
    /\ UNCHANGED <<r, i>>

\* Interruzione::verifica
Interrotta == annullato \/ scaduto
CausaInterruzione == IF annullato THEN "Cancelled" ELSE "Timeout"

-----------------------------------------------------------------------------
(* Before the publication *)

\* configurazione marks its phase; the plan and the names it gives do not.
ErroreDellaRichiesta ==
    IF r.difetto = "contratto" THEN with_phase(Nudo("InvalidConfiguration"), "validate")
    ELSE Nudo(r.difetto)

\* leggi_richiesta, then the resolver's prepara.
LeggeRichiesta ==
    /\ pc = "richiesta"
    /\ IF r.difetto # "nessuno"
         THEN Fallisce(ErroreDellaRichiesta)
         ELSE Va("prepara", 1) /\ UNCHANGED cartella
    /\ UNCHANGED <<artefatti, mondo>>

\* The categories of RifiutoDestinazioni::errore.
Rifiuti == {"nessuno", "InvalidConfiguration", "io_not_found", "io_permission",
            "Unsupported", "io_other"}

Prepara(rifiuto) ==
    /\ pc = "prepara"
    /\ IF rifiuto # "nessuno"
         THEN Fallisce(with_phase(Nudo(rifiuto), "validate"))
         ELSE Va("cartella", 1) /\ UNCHANGED cartella
    /\ UNCHANGED <<artefatti, mondo>>

CreaCartella(guasto) ==
    /\ pc = "cartella"
    /\ IF guasto
         THEN Fallisce(Nudo("io_other"))
         ELSE Va("sorgenti", 1) /\ cartella' = "presente"
    /\ UNCHANGED <<artefatti, mondo>>

\* One source copied: what went wrong, if anything.  `c` is what is right with the
\* copy; size and digest are looked at only when expected, the signature always.
leggi_sorgente(attesi, causa, c) ==
    IF causa # "nessuna"   THEN causa
    ELSE IF attesi \ c # {} THEN "DataMapping"
    ELSE "nessuna"

\* leggi_sorgenti: the interruption before every source.
LeggeSorgente(causa, c) ==
    /\ pc = "sorgenti"
    /\ IF i > Len(r.sorgenti)
         THEN Va("esecuzione", 1) /\ UNCHANGED cartella
       ELSE IF Interrotta
         THEN Fallisce(with_phase(Nudo(CausaInterruzione), "read"))
       ELSE LET male == leggi_sorgente(r.sorgenti[i], causa, c)
            IN IF male # "nessuna"
                 THEN Fallisce(with_phase(Nudo(male), "read"))
                 ELSE Va("sorgenti", i + 1) /\ UNCHANGED cartella
    /\ UNCHANGED <<artefatti, mondo>>

\* plenora_io::esegui_ingressi on the private files: whatever effect its error
\* declares is about files nobody sees.  A plan without outputs is not valid.
Esegue(causa, fase, effetto) ==
    /\ pc = "esecuzione"
    /\ IF causa # "nessuna"
         THEN /\ causa \in Interruzioni => Interrotta
              /\ Fallisce(override_remote_effect(
                     with_remote_effect(with_phase(Nudo(causa), fase), effetto), "none"))
         ELSE /\ ~ Interrotta
              /\ r.outputs # <<>>
              /\ Va("impronte", 1)
              /\ UNCHANGED cartella
    /\ UNCHANGED <<artefatti, mondo>>

\* Size and digest of every output, for the manifest, before any publication.
Impronta(guasto) ==
    /\ pc = "impronte"
    /\ IF guasto
         THEN Fallisce(Nudo("io_other"))
         ELSE Va(IF i = Len(r.outputs) THEN "pubblica" ELSE "impronte",
                 IF i = Len(r.outputs) THEN 1 ELSE i + 1)
              /\ UNCHANGED cartella
    /\ UNCHANGED <<artefatti, mondo>>

-----------------------------------------------------------------------------
(* The publication *)

\* The effect of what was published before the i-th output.
EffettoFinora_mai == "none"
EffettoFinora == IF i = 1 THEN "none" ELSE "partial"

\* The interruption before an output.
InterrottaPrima == Interrotta

Apre(guasto) ==
    /\ pc = "pubblica" /\ i <= Len(r.outputs)
    /\ IF InterrottaPrima
         THEN Fallisce(with_remote_effect(with_phase(Nudo(CausaInterruzione), "write"),
                                          EffettoFinora))
       ELSE IF guasto
         THEN Fallisce(with_remote_effect(with_phase(Nudo("io_other"), "write"), EffettoFinora))
       ELSE Va("risolutore", i) /\ UNCHANGED cartella
    /\ UNCHANGED <<artefatti, mondo>>

\* RisolutoreArtefatti::pubblica, external: it publishes, or fails and says what it
\* can prove of the destination.
RisolutorePubblica(fallimento, dopo) ==
    /\ dopo \in CASE fallimento = "nessuno"       -> {"intero"}
                  [] fallimento = "NienteScritto" -> {"prima"}
                  [] fallimento = "Parziale"      -> {"parte"}
                  [] fallimento = "Ignoto"        -> Contenuti
    /\ artefatti' = [artefatti EXCEPT ![i] = dopo]

\* The effect of a failed publication.
EffettoDelFallimento_finora(fallimento) ==
    IF fallimento = "Ignoto" THEN "unknown" ELSE EffettoFinora
EffettoDelFallimento(fallimento) ==
    CASE fallimento = "NienteScritto" -> EffettoFinora
      [] fallimento = "Parziale"      -> "partial"
      [] fallimento = "Ignoto"        -> "unknown"

Pubblica(fallimento, dopo, causa) ==
    /\ pc = "risolutore"
    /\ RisolutorePubblica(fallimento, dopo)
    /\ IF fallimento # "nessuno"
         THEN Fallisce(with_remote_effect(with_phase(Nudo(causa), "write"),
                                          EffettoDelFallimento(fallimento)))
         ELSE Va("pubblica", i + 1) /\ UNCHANGED cartella
    /\ UNCHANGED mondo

\* After the last one, an interruption is not a success.
UltimaVerifica_taciuta ==
    /\ pc = "pubblica" /\ i > Len(r.outputs)
    /\ Va("pulizia", 1) /\ UNCHANGED cartella
    /\ UNCHANGED <<artefatti, mondo>>
UltimaVerifica ==
    /\ pc = "pubblica" /\ i > Len(r.outputs)
    /\ IF Interrotta
         THEN Fallisce(with_remote_effect(with_phase(Nudo(CausaInterruzione), "finalize"),
                                          "committed"))
         ELSE Va("pulizia", 1) /\ UNCHANGED cartella
    /\ UNCHANGED <<artefatti, mondo>>

\* pulizia_fallita, with the order of its calls.
PuliziaFallita(causa) == with_remote_effect(with_phase(Nudo(causa), "cleanup"), "committed")

\* The directory is closed, and only then the manifest returned.
Pulisce(causa) ==
    /\ pc = "pulizia"
    /\ pc' = "fine"
    /\ IF causa # "nessuna"
         THEN cartella' = "rimasta"
              /\ esito' = [stato |-> "errore", errore |-> PuliziaFallita(causa)]
         ELSE cartella' = "assente" /\ esito' = Reso(r.outputs)
    /\ UNCHANGED <<r, i, artefatti, mondo>>

-----------------------------------------------------------------------------
(* The rest of the world *)

Alza ==
    concesse' = IF Interrotta THEN concesse
                ELSE Cardinality(Toccate) + (IF pc = "risolutore" THEN 1 ELSE 0)

Annulla ==
    /\ pc # "fine" /\ ~ annullato
    /\ annullato' = TRUE
    /\ Alza
    /\ UNCHANGED <<r, pc, i, cartella, artefatti, esito, scaduto>>

Scade ==
    /\ pc # "fine" /\ ~ scaduto
    /\ scaduto' = TRUE
    /\ Alza
    /\ UNCHANGED <<r, pc, i, cartella, artefatti, esito, annullato>>

CauseONessuna == CauseDelRisolutore \cup {"nessuna"}

\* The errors of EsecuzioneFile that matter here: an interruption or a cause of
\* each retry class, with any effect.
Esecutore ==
    \/ LeggeRichiesta
    \/ \E rifiuto \in Rifiuti : Prepara(rifiuto)
    \/ \E guasto \in BOOLEAN : CreaCartella(guasto) \/ Impronta(guasto) \/ Apre(guasto)
    \/ \E causa \in CauseONessuna, c \in SUBSET Controlli :
         LeggeSorgente(causa, c)
    \/ \E causa \in {"nessuna", "ResourceLimit", "io_transient"} \cup Interruzioni,
          fase \in {"read", "write", "finalize"}, effetto \in Effetti :
         Esegue(causa, fase, effetto)
    \/ \E f \in {"nessuno", "NienteScritto", "Parziale", "Ignoto"},
          dopo \in Contenuti, causa \in CauseDelRisolutore : Pubblica(f, dopo, causa)
    \/ UltimaVerifica
    \/ \E causa \in CauseONessuna : Pulisce(causa)

Finito == pc = "fine" /\ UNCHANGED vars

Next == Esecutore \/ Annulla \/ Scade \/ Finito

Spec == Init /\ [][Next]_vars

-----------------------------------------------------------------------------
(* Properties *)

Errato == esito.stato = "errore"
Effetto == remote_effect(esito.errore)

\* The effect of the answer is true of the destinations, whatever fails and when:
\* none touched, some but not all, all; `unknown` only for the one the resolver
\* could not tell about, and a success with every output published and no private
\* file left.
EffettoDegliArtefatti ==
    /\ Errato /\ Effetto = "none" => Toccate = {}
    /\ Errato /\ Effetto = "partial" =>
         Toccate # {} /\ \E k \in Uscite : artefatti[k] # "intero"
    /\ Errato /\ Effetto = "committed" => \A k \in Uscite : artefatti[k] = "intero"
    /\ Errato /\ Effetto = "unknown" => \A k \in 1 .. (i - 1) : artefatti[k] = "intero"
    /\ esito.stato = "reso" =>
         cartella = "assente" /\ \A k \in Uscite : artefatti[k] = "intero"

\* A caller that follows the retry class never publishes twice: a class that allows
\* an automatic retry comes only with destinations nobody touched.  After everything
\* was published a failed cleanup is told by its phase, with the true effect, and is
\* nothing to recover from.
MaiRipubblica ==
    Errato =>
        /\ retry_disposition(esito.errore) \notin {"never", "requires_recovery"} =>
             Toccate = {}
        /\ phase(esito.errore) = "cleanup" =>
             Effetto = "committed" /\ retry_disposition(esito.errore) = "never"

\* An interruption that comes before the last publication ends is not a success, and
\* at most the publication under way is completed after it.
InterruzioneMaiTaciuta ==
    /\ [](Interrotta => Cardinality(Toccate) <= concesse)
    /\ [](Interrotta /\ pc \notin {"pulizia", "fine"} => [](esito.stato # "reso"))

=============================================================================
