----------------------------- MODULE ControlliPy -----------------------------
(***************************************************************************)
(* A call of the Python SDK (plenora-data-py: controlli.rs, lib.rs and     *)
(* _api.py): the caller's thread, the worker it starts, the tokens, the    *)
(* signals of the interpreter, and for an asynchronous call the task that  *)
(* waits for it.                                                           *)
(*                                                                         *)
(* The worker runs an operation of plenora-io (EsecuzioneFile): here it    *)
(* checks the interruption, computes for as long as it likes, writes its   *)
(* outputs one at a time, each of them resolved again once written, and    *)
(* answers with the effect it had.                                         *)
(***************************************************************************)
EXTENDS Errori

CONSTANT
    Chiamate    \* bound: the calls

ASSUME ChiamateAssunte ==
    Chiamate \subseteq [asincrona : BOOLEAN, blocchi : Nat, uscite : Nat]

VARIABLES
    ch,         \* the call: asynchronous or not, checks of the import, outputs to write
    pc,         \* the caller's thread
    k,          \* checks of the import so far
    gettone,    \* a token of the caller's is up
    interno,    \* the token of _in_thread is up
    ctrlC,      \* a Python signal is pending (main thread only)
    scaduto,    \* the deadline has passed
    segnale,    \* the flag the worker looks at
    lavoro,     \* the worker's thread
    scritti,    \* outputs on disk
    canale,     \* the result of the worker, empty, or closed without one
    risposta,   \* what the native function raises or returns
    task,       \* the asyncio task
    reso        \* what the task raises or returns

segnali == <<gettone, interno, ctrlC, scaduto>>
compito == <<task, reso>>
vars == <<ch, pc, k, gettone, interno, ctrlC, scaduto, segnale, lavoro, scritti,
          canale, risposta, task, reso>>

Nessuna == [tipo |-> "nessuna"]
Vuoto == [tipo |-> "vuoto"]
Chiuso == [tipo |-> "chiuso"]
Riuscita == [tipo |-> "ok"]
Plenora(e) == [tipo |-> "errore", errore |-> e]
\* An exception of the interpreter, with a PlenoraError as its cause or none.
Eccezione(c) == [tipo |-> "eccezione", causa |-> c]

con_effetti == ch.uscite > 0

Init ==
    /\ ch \in Chiamate
    /\ pc = IF ch.asincrona THEN "coda" ELSE "verifica"
    /\ task = IF ch.asincrona THEN "attende" ELSE "assente"
    /\ gettone \in BOOLEAN
    /\ k = 0 /\ scritti = 0
    /\ interno = FALSE /\ ctrlC = FALSE /\ scaduto = FALSE /\ segnale = FALSE
    /\ lavoro = "assente"
    /\ canale = Vuoto
    /\ risposta = Nessuna /\ reso = Nessuna

-----------------------------------------------------------------------------
(* The caller's thread *)

Va(punto) == pc' = punto /\ UNCHANGED risposta
Risponde(x) == pc' = "fine" /\ risposta' = x
\* The exits of the loop of `esegui`: the worker is joined, then the answer.
Esce(x) == pc' = "riunisce" /\ risposta' = x

\* trasferisci: a token that is up raises the flag.
trasferisci_soloGettone == segnale' = (segnale \/ gettone)
trasferisci == segnale' = (segnale \/ gettone \/ interno)

\* check_signals: a pending signal is consumed and raises; the flag goes up.
SegnalePython == ctrlC' = FALSE /\ segnale' = TRUE

\* The error of a cancellation seen after the work has succeeded; the Python side
\* gives the same axes.
annullato_alla_consegna_senzaEffetto ==
    with_phase(Nudo("Cancelled"), "finalize")
annullato_alla_consegna ==
    LET e == with_phase(Nudo("Cancelled"), "finalize")
    IN IF con_effetti THEN with_remote_effect(e, "committed") ELSE e

\* A panic, on either thread.
panico ==
    IF con_effetti THEN with_remote_effect(Nudo("Internal"), "unknown") ELSE Nudo("Internal")

\* Controlli::verifica, before anything and around the imported blocks: tokens,
\* signals, then flag and deadline.
Verifica ==
    /\ pc = "verifica"
    /\ trasferisci
    /\ Va("verifica_segnali")
    /\ UNCHANGED <<ch, k, segnali, lavoro, scritti, canale, compito>>

VerificaSegnali ==
    /\ pc = "verifica_segnali"
    /\ IF ctrlC
         THEN SegnalePython /\ Risponde(Eccezione(Nessuna))
         ELSE Va("verifica_interruzione") /\ UNCHANGED <<ctrlC, segnale>>
    /\ UNCHANGED <<ch, k, gettone, interno, scaduto, lavoro, scritti, canale, compito>>

VerificaInterruzione ==
    /\ pc = "verifica_interruzione"
    /\ IF segnale \/ scaduto
         THEN Risponde(Plenora(with_phase(Nudo(IF segnale THEN "Cancelled" ELSE "Timeout"),
                                          IF k = 0 THEN "prepare" ELSE "read")))
         ELSE Va("prepara")
    /\ UNCHANGED <<ch, k, segnali, segnale, lavoro, scritti, canale, compito>>

\* The plan, the names, the import up to the next check: nothing is written yet.
Prepara(guasto) ==
    /\ pc = "prepara"
    /\ IF guasto # "nessuno"
         THEN Risponde(Plenora(Nudo(guasto))) /\ UNCHANGED k
         ELSE /\ k' = IF k < ch.blocchi THEN k + 1 ELSE k
              /\ Va(IF k < ch.blocchi THEN "verifica" ELSE "avvia")
    /\ UNCHANGED <<ch, segnali, segnale, lavoro, scritti, canale, compito>>

\* esegui: the tokens once more, then the worker.
Avvia(parte) ==
    /\ pc = "avvia"
    /\ trasferisci
    /\ IF parte
         THEN Va("aspetta") /\ lavoro' = "verifica"
         ELSE Risponde(Plenora(with_phase(Nudo("Internal"), "validate"))) /\ UNCHANGED lavoro
    /\ UNCHANGED <<ch, k, segnali, scritti, canale, compito>>

\* recv_timeout with nothing received: tokens and signals, and again.
Intervallo ==
    /\ pc = "aspetta" /\ canale = Vuoto
    /\ trasferisci
    /\ Va("intervallo_segnali")
    /\ UNCHANGED <<ch, k, segnali, lavoro, scritti, canale, compito>>

IntervalloSegnali ==
    /\ pc = "intervallo_segnali"
    /\ IF ctrlC
         THEN SegnalePython /\ Va("ferma")
         ELSE Va("aspetta") /\ UNCHANGED <<ctrlC, segnale>>
    /\ UNCHANGED <<ch, k, gettone, interno, scaduto, lavoro, scritti, canale, compito>>

\* After an exception the result of the work is waited for: it is the cause.
Ferma ==
    /\ pc = "ferma" /\ canale # Vuoto
    /\ Esce(Eccezione(CASE canale = Chiuso -> Nessuna
                        [] canale = Riuscita -> annullato_alla_consegna
                        [] OTHER             -> canale.errore))
    /\ UNCHANGED <<ch, k, segnali, segnale, lavoro, scritti, canale, compito>>

\* recv_timeout with a result that is not a success, or a worker that is gone.
RiceveErrore ==
    /\ pc = "aspetta" /\ canale \notin {Vuoto, Riuscita}
    /\ Esce(IF canale = Chiuso THEN Plenora(panico) ELSE canale)
    /\ UNCHANGED <<ch, k, segnali, segnale, lavoro, scritti, canale, compito>>

\* recv_timeout with a success: the delivery looks at tokens, signals and flag.
RiceveSuccesso_consegna ==
    /\ pc = "aspetta" /\ canale = Riuscita
    /\ Esce(Riuscita)
    /\ UNCHANGED <<ch, k, segnali, segnale, lavoro, scritti, canale, compito>>
RiceveSuccesso ==
    /\ pc = "aspetta" /\ canale = Riuscita
    /\ trasferisci
    /\ Va("consegna_segnali")
    /\ UNCHANGED <<ch, k, segnali, lavoro, scritti, canale, compito>>

ConsegnaSegnali ==
    /\ pc = "consegna_segnali"
    /\ IF ctrlC
         THEN SegnalePython /\ Esce(Eccezione(annullato_alla_consegna))
         ELSE Va("consegna") /\ UNCHANGED <<ctrlC, segnale>>
    /\ UNCHANGED <<ch, k, gettone, interno, scaduto, lavoro, scritti, canale, compito>>

Consegna ==
    /\ pc = "consegna"
    /\ Esce(IF segnale THEN Plenora(annullato_alla_consegna) ELSE Riuscita)
    /\ UNCHANGED <<ch, k, segnali, segnale, lavoro, scritti, canale, compito>>

\* join; then a success without outputs on disk exports its tables, which may fail.
Riunisce(guasto) ==
    /\ pc = "riunisce" /\ lavoro = "finito"
    /\ guasto => risposta = Riuscita /\ ~ con_effetti
    /\ pc' = "fine"
    /\ risposta' = IF guasto THEN Plenora(Nudo("Internal")) ELSE risposta
    /\ UNCHANGED <<ch, k, segnali, segnale, lavoro, scritti, canale, compito>>

\* What goes wrong in Prepara.
Guasti == {"nessuno", "InvalidConfiguration", "DataMapping", "ResourceLimit"}

Chiamante ==
    \/ Verifica \/ VerificaSegnali \/ VerificaInterruzione
    \/ \E guasto \in Guasti : Prepara(guasto)
    \/ \E parte \in BOOLEAN : Avvia(parte)
    \/ Intervallo \/ IntervalloSegnali \/ Ferma
    \/ RiceveErrore \/ RiceveSuccesso \/ ConsegnaSegnali \/ Consegna
    \/ \E guasto \in BOOLEAN : Riunisce(guasto)

-----------------------------------------------------------------------------
(* The worker: external as far as what it does between two checks *)

resto == <<ch, pc, k, gettone, interno, ctrlC, scaduto, segnale, risposta, task, reso>>

\* Every output is on disk.
TuttoScritto == 0 < scritti /\ scritti = ch.uscite

\* The result is sent and the thread ends in a later step.
Invia(x) == canale' = x /\ lavoro' = "uscita"

\* An error on its way out of scrivi_uscite, also one of the last output: some output
\* is published, unless the error declares an effect of its own.
FallisceScrittura(e) ==
    Invia(Plenora(IF scritti = 0 THEN e ELSE with_remote_effect(e, "partial")))

\* verifica_finale: an interruption seen after the last output.
FallisceFinale(e) ==
    Invia(Plenora(IF scritti = 0 THEN e ELSE with_remote_effect(e, "committed")))

\* A check of the interruption: before an output, or after the last one.
LavoroVerifica ==
    /\ lavoro = "verifica"
    /\ LET e == Nudo(IF segnale THEN "Cancelled" ELSE "Timeout")
       IN IF ~ (segnale \/ scaduto)
            THEN lavoro' = "procede" /\ UNCHANGED canale
          ELSE IF scritti < ch.uscite
            THEN FallisceScrittura(with_phase(e, "write"))
          ELSE FallisceFinale(with_phase(e, "finalize"))
    /\ UNCHANGED <<resto, scritti>>

LavoroCalcola ==
    /\ lavoro = "procede" /\ scritti = 0
    /\ lavoro' = "verifica"
    /\ UNCHANGED <<resto, scritti, canale>>

LavoroScrive ==
    /\ lavoro = "procede" /\ scritti < ch.uscite
    /\ scritti' = scritti + 1
    /\ lavoro' = "canonico"
    /\ UNCHANGED <<resto, canale>>

\* The path just written is resolved again, which may fail with every output on disk.
LavoroCanonico(guasto) ==
    /\ lavoro = "canonico"
    /\ IF guasto THEN FallisceScrittura(Nudo("io_not_found"))
                 ELSE lavoro' = "verifica" /\ UNCHANGED canale
    /\ UNCHANGED <<resto, scritti>>

LavoroFinisce ==
    /\ lavoro = "procede" /\ scritti = ch.uscite
    /\ Invia(Riuscita)
    /\ UNCHANGED <<resto, scritti>>

\* A failure of the work, of the next output when there is one; `rimasto`: of the
\* temporary of the output, which could not be removed (`scarta`).  Nothing fails
\* after verifica_finale.
LavoroFallisce(rimasto) ==
    /\ lavoro = "procede" /\ ~ TuttoScritto
    /\ rimasto => scritti < ch.uscite
    /\ LET e == Nudo("io_transient")
       IN FallisceScrittura(IF rimasto THEN override_remote_effect(e, "unknown") ELSE e)
    /\ UNCHANGED <<resto, scritti>>

\* A panic of the work is caught; `muto`: one while the result is built is not, and
\* the thread ends without a result.
LavoroPanico(muto) ==
    /\ lavoro \in {"procede", "canonico"}
    /\ IF muto THEN canale' = Chiuso /\ lavoro' = "uscita"
               ELSE Invia(Plenora(panico))
    /\ UNCHANGED <<resto, scritti>>

LavoroTermina ==
    /\ lavoro = "uscita"
    /\ lavoro' = "finito"
    /\ UNCHANGED <<resto, scritti, canale>>

Lavoratore ==
    \/ LavoroVerifica \/ LavoroCalcola \/ LavoroScrive \/ LavoroFinisce
    \/ \E b \in BOOLEAN : LavoroCanonico(b) \/ LavoroFallisce(b) \/ LavoroPanico(b)
    \/ LavoroTermina

-----------------------------------------------------------------------------
(* The asyncio task and its executor *)

nativo == <<ch, k, gettone, ctrlC, scaduto, segnale, lavoro, scritti, canale, risposta>>

\* A thread of the executor takes the call.
PrendeInCarico ==
    /\ pc = "coda"
    /\ pc' = "verifica"
    /\ UNCHANGED <<nativo, interno, compito>>

\* The executor gives up a call it has not started: the future is cancelled.
FuturoAnnullato ==
    /\ pc = "coda"
    /\ pc' = "scartata"
    /\ UNCHANGED <<nativo, interno, compito>>

\* The task is cancelled, or its future was: the inner token goes up and the task
\* goes on waiting.  A further cancellation while it waits changes nothing.
AnnullaTask ==
    /\ task = "attende"
    /\ task' = "annullato"
    /\ interno' = TRUE
    /\ UNCHANGED <<nativo, pc, reso>>

TaskRiceve ==
    /\ task = "attende" /\ pc = "fine"
    /\ task' = "reso"
    /\ reso' = risposta
    /\ UNCHANGED <<nativo, pc, interno>>

\* The cancellation is raised from the result of the work.
TaskSiFerma ==
    /\ task = "annullato" /\ pc \in {"fine", "scartata"}
    /\ task' = "reso"
    /\ reso' = Eccezione(CASE pc = "scartata"      -> Nessuna
                           [] risposta = Riuscita  -> annullato_alla_consegna
                           [] OTHER                -> risposta.errore)
    /\ UNCHANGED <<nativo, pc, interno>>

Ciclo ==
    \/ PrendeInCarico \/ TaskRiceve \/ TaskSiFerma
    \/ pc = "scartata" /\ AnnullaTask

-----------------------------------------------------------------------------
(* The rest of the world *)

attori == <<ch, pc, k, interno, segnale, lavoro, scritti, canale, risposta, task, reso>>

Concluso == IF ch.asincrona THEN task = "reso" ELSE pc = "fine"

AlzaGettone ==
    /\ ~ Concluso /\ ~ gettone
    /\ gettone' = TRUE
    /\ UNCHANGED <<attori, ctrlC, scaduto>>

\* Signals reach the main thread, which is not one of the executor's.
PremeCtrlC ==
    /\ ~ Concluso /\ ~ ch.asincrona /\ ~ ctrlC
    /\ ctrlC' = TRUE
    /\ UNCHANGED <<attori, gettone, scaduto>>

Scade ==
    /\ ~ Concluso /\ ~ scaduto
    /\ scaduto' = TRUE
    /\ UNCHANGED <<attori, gettone, ctrlC>>

Mondo == AlzaGettone \/ PremeCtrlC \/ Scade \/ FuturoAnnullato \/ AnnullaTask

Finito == Concluso /\ UNCHANGED vars

Next == Chiamante \/ Lavoratore \/ Ciclo \/ Mondo \/ Finito

Spec == Init /\ [][Next]_vars

\* The threads and the event loop keep being scheduled; nothing is assumed of the
\* world, and the worker may compute for ever.
SpecEqua == Spec /\ WF_vars(Chiamante) /\ WF_vars(Lavoratore) /\ WF_vars(Ciclo)

-----------------------------------------------------------------------------
(* Properties *)

\* What the caller gets in the end.
Finale == IF ch.asincrona THEN reso ELSE risposta
ErroreReso ==
    IF Finale.tipo = "errore" THEN Finale.errore
    ELSE IF Finale.tipo = "eccezione" THEN Finale.causa ELSE Nessuna

\* Whatever races, the caller learns the true effect: from the error, from the cause
\* of the exception, or from the success.  `none` wrote nothing; `partial` published
\* something, perhaps everything; `committed` is said of everything, and a cancellation
\* or a deadline says it exactly when every output is on disk, whichever thread saw it.
\* No cause means nothing was written, or a worker that died without a result.  A call
\* that has answered leaves no thread, also when it was cancelled: nothing is written
\* behind the caller's back.
EffettoAlChiamante ==
    Concluso =>
        /\ lavoro \in {"assente", "finito"}
        /\ Finale = Riuscita => scritti = ch.uscite
        /\ ErroreReso = Nessuna /\ Finale # Riuscita => scritti = 0 \/ canale = Chiuso
        /\ ErroreReso # Nessuna =>
             LET x == remote_effect(ErroreReso)
             IN /\ x = "none" => scritti = 0
                /\ x = "partial" => 0 < scritti
                /\ x = "committed" => TuttoScritto
                /\ ErroreReso.causa \in Interruzioni => (x = "committed" <=> TuttoScritto)

\* A cancellation that is up before the delivery begins is never answered with a
\* success: tokens of the caller's, the task's own, the interpreter's signal.  A token
\* that is up before the call starts does not let it write anything.
AnnullamentoMaiTaciuto ==
    /\ [](\/ interno
          \/ ctrlC /\ pc \notin {"consegna", "riunisce", "fine"}
          \/ gettone /\ pc \notin {"consegna_segnali", "consegna", "riunisce", "fine"}
            => [](Finale # Riuscita))
    /\ [](gettone /\ pc \in {"coda", "verifica"} => [](scritti = 0))

\* However long the work, a cancellation ends the call: token, task or signal.
AnnullamentoFerma == (gettone \/ interno \/ ctrlC) ~> Concluso

=============================================================================
