--------------------------- MODULE ControlliProofs ---------------------------
(***************************************************************************)
(* The effect and the cancellation of a call of the Python SDK, for every  *)
(* call: any number of imported blocks and of outputs.                     *)
(***************************************************************************)
EXTENDS ControlliPy, ErroriProofs

\* Before the worker; while the call waits for it; after its answer.
PrimaDelLavoro == {"coda", "scartata", "verifica", "verifica_segnali",
                   "verifica_interruzione", "prepara", "avvia"}
InAttesa == {"aspetta", "intervallo_segnali", "ferma"}
InConsegna == {"consegna_segnali", "consegna"}
\* The worker, before its answer.
InLavoro == {"verifica", "procede", "canonico"}
Punti == PrimaDelLavoro \cup InAttesa \cup InConsegna \cup {"riunisce", "fine"}

TipiPy ==
    /\ ch \in Chiamate
    /\ pc \in Punti
    /\ gettone \in BOOLEAN /\ interno \in BOOLEAN /\ ctrlC \in BOOLEAN
    /\ scaduto \in BOOLEAN /\ segnale \in BOOLEAN
    /\ lavoro \in {"assente", "verifica", "procede", "canonico", "uscita", "finito"}
    /\ scritti \in 0 .. ch.uscite
    /\ task \in IF ch.asincrona THEN {"attende", "annullato", "reso"} ELSE {"assente"}

\* Where the two threads can be together, and what only one kind of call does.
Insieme ==
    /\ lavoro = "assente" => scritti = 0
    /\ canale = Vuoto <=> lavoro \in {"assente", "verifica", "procede", "canonico"}
    /\ pc \in PrimaDelLavoro => lavoro = "assente"
    /\ pc \in InAttesa \cup InConsegna \cup {"riunisce"} => lavoro # "assente"
    /\ pc \in InConsegna => canale = Riuscita
    /\ pc = "riunisce" => canale # Vuoto
    /\ pc = "fine" => lavoro \in {"assente", "finito"}
    /\ pc \in {"coda", "scartata"} => ch.asincrona
    /\ ctrlC \/ pc = "ferma" => ~ ch.asincrona
    /\ task = "reso" => pc \in {"fine", "scartata"}

\* What an error says of the outputs is true.
ErroreVero(e) ==
    LET x == remote_effect(e)
    IN /\ Forma(e)
       /\ x = "none" => scritti = 0
       /\ x = "partial" => 0 < scritti
       /\ x = "committed" => TuttoScritto
       /\ e.causa \in Interruzioni => (x = "committed" <=> TuttoScritto)

\* The forms of a result and of an answer.
EsitoVero(x) ==
    \/ x = Riuscita /\ scritti = ch.uscite
    \/ x.tipo = "errore" /\ x = Plenora(x.errore) /\ ErroreVero(x.errore)
EccezioneVera(x) ==
    \/ x = Eccezione(Nessuna) /\ (scritti = 0 \/ canale = Chiuso)
    \/ x.tipo = "eccezione" /\ x = Eccezione(x.causa) /\ ErroreVero(x.causa)

Risultati ==
    /\ canale \in {Vuoto, Chiuso} \/ EsitoVero(canale)
    /\ pc \notin {"riunisce", "fine"} => risposta = Nessuna
    /\ pc \in {"riunisce", "fine"} =>
         EsitoVero(risposta) \/ (~ ch.asincrona /\ EccezioneVera(risposta))
    /\ task # "reso" => reso = Nessuna
    /\ task = "reso" => EsitoVero(reso) \/ EccezioneVera(reso)
    /\ interno => task \in {"annullato", "reso"} /\ reso # Riuscita

InvPy == TipiPy /\ Insieme /\ Risultati

\* States from which no success is answered, once they are met: an interpreter's
\* signal, a token of the caller's; and from which nothing is written.
SegnaleInVista ==
    /\ ~ ch.asincrona
    /\ \/ ctrlC /\ pc \notin {"consegna", "riunisce", "fine"}
       \/ pc = "ferma"
       \/ pc \in {"riunisce", "fine"} /\ risposta # Riuscita
GettoneInVista ==
    /\ gettone
    /\ reso # Riuscita
    /\ \/ pc \notin InConsegna \cup {"riunisce", "fine"}
       \/ pc \in InConsegna /\ segnale
       \/ pc \in {"riunisce", "fine"} /\ risposta # Riuscita
GettoneDAvvio ==
    /\ gettone /\ lavoro = "assente" /\ scritti = 0
    /\ \/ pc \in {"coda", "scartata", "verifica", "fine"}
       \/ pc \in {"verifica_segnali", "verifica_interruzione"} /\ segnale


-----------------------------------------------------------------------------
(* The errors of the call *)

LEMMA Chiamata ==
    ASSUME InvPy
    PROVE  /\ ch.asincrona \in BOOLEAN /\ ch.blocchi \in Nat /\ ch.uscite \in Nat
           /\ scritti \in Nat /\ scritti <= ch.uscite /\ ch \in Chiamate
  BY ChiamateAssunte DEF InvPy, TipiPy

LEMMA ErroreSenzaEffetto ==
    ASSUME NEW e, Forma(e), remote_effect(e) = "none", scritti = 0
    PROVE  ErroreVero(e)
  BY DEF ErroreVero, TuttoScritto

LEMMA PanicoVero ==
    ASSUME InvPy
    PROVE  ErroreVero(panico)
<1>1. "Internal" \in Cause /\ "unknown" \in Effetti
  BY DEF Cause, Effetti
<1>2. Forma(Nudo("Internal")) /\ remote_effect(Nudo("Internal")) = "none"
  BY <1>1, AssiDelNudo
<1>3. CASE con_effetti
  <2> DEFINE e == with_remote_effect(Nudo("Internal"), "unknown")
  <2>1. Forma(e) /\ remote_effect(e) = "unknown" /\ e.causa = "Internal"
    BY <1>1, <1>2, AssiDelNudo, AssiConEffetto
  <2>2. panico = e
    BY <1>3 DEF panico
  <2> HIDE DEF e
  <2> QED
    BY <2>1, <2>2 DEF ErroreVero, Interruzioni
<1>4. CASE ~ con_effetti
  <2>1. panico = Nudo("Internal")
    BY <1>4 DEF panico
  <2>2. scritti = 0
    BY <1>4, Chiamata DEF con_effetti
  <2> QED
    BY <1>2, <2>1, <2>2, ErroreSenzaEffetto
<1> QED
  BY <1>3, <1>4

LEMMA AnnullatoVero ==
    ASSUME InvPy, scritti = ch.uscite
    PROVE  ErroreVero(annullato_alla_consegna)
<1>1. "Cancelled" \in Cause /\ "finalize" \in Fasi /\ "committed" \in Effetti
  BY DEF Cause, Interruzioni, Fasi, Effetti
<1>2. CASE con_effetti
  <2> DEFINE e == with_remote_effect(with_phase(Nudo("Cancelled"), "finalize"), "committed")
  <2>1. Forma(e) /\ remote_effect(e) = "committed"
    BY <1>1, ErroreDelConfine
  <2>2. annullato_alla_consegna = e
    BY <1>2 DEF annullato_alla_consegna
  <2> HIDE DEF e
  <2>3. TuttoScritto
    BY <1>2, Chiamata DEF con_effetti, TuttoScritto
  <2> QED
    BY <2>1, <2>2, <2>3 DEF ErroreVero
<1>3. CASE ~ con_effetti
  <2> DEFINE e == with_phase(Nudo("Cancelled"), "finalize")
  <2>1. Forma(e) /\ remote_effect(e) = "none"
    BY <1>1, ErroreConFase
  <2>2. annullato_alla_consegna = e
    BY <1>3 DEF annullato_alla_consegna
  <2> HIDE DEF e
  <2>3. scritti = 0
    BY <1>3, Chiamata DEF con_effetti
  <2> QED
    BY <2>1, <2>2, <2>3, ErroreSenzaEffetto
<1> QED
  BY <1>2, <1>3

\* What is true of the outputs stays true while nothing is written.
LEMMA VeroResta ==
    ASSUME NEW x, UNCHANGED <<ch, scritti>>
    PROVE  /\ ErroreVero(x) => ErroreVero(x)'
           /\ EsitoVero(x) => EsitoVero(x)'
<1>1. ASSUME NEW e, ErroreVero(e) PROVE ErroreVero(e)'
  BY <1>1 DEF ErroreVero, TuttoScritto
<1> QED
  BY <1>1 DEF EsitoVero, Riuscita

LEMMA FormeDellaRisposta ==
    ASSUME NEW e
    PROVE  /\ Plenora(e).tipo = "errore" /\ Plenora(e).errore = e
           /\ Eccezione(e).tipo = "eccezione" /\ Eccezione(e).causa = e
           /\ Plenora(e) \notin {Riuscita, Vuoto, Chiuso, Nessuna}
           /\ Eccezione(e) \notin {Riuscita, Vuoto, Chiuso, Nessuna}
           /\ ErroreVero(e) => EsitoVero(Plenora(e)) /\ EccezioneVera(Eccezione(e))
           /\ Riuscita # Vuoto /\ Riuscita # Chiuso /\ Chiuso # Vuoto /\ Riuscita # Nessuna
<1>1. /\ Plenora(e).tipo = "errore" /\ Plenora(e).errore = e
      /\ Eccezione(e).tipo = "eccezione" /\ Eccezione(e).causa = e
      /\ Riuscita.tipo = "ok" /\ Vuoto.tipo = "vuoto" /\ Chiuso.tipo = "chiuso"
      /\ Nessuna.tipo = "nessuna"
  BY DEF Plenora, Eccezione, Riuscita, Vuoto, Chiuso, Nessuna
<1>2. /\ Plenora(e) \notin {Riuscita, Vuoto, Chiuso, Nessuna}
      /\ Eccezione(e) \notin {Riuscita, Vuoto, Chiuso, Nessuna}
      /\ Riuscita # Vuoto /\ Riuscita # Chiuso /\ Chiuso # Vuoto /\ Riuscita # Nessuna
  BY <1>1
<1>3. ErroreVero(e) => EsitoVero(Plenora(e)) /\ EccezioneVera(Eccezione(e))
  BY <1>1 DEF EsitoVero, EccezioneVera
<1> QED
  BY <1>1, <1>2, <1>3

-----------------------------------------------------------------------------
(* The caller's thread *)

\* A step on the way, without an answer.
LEMMA PassoInCammino ==
    ASSUME InvPy,
           UNCHANGED <<ch, gettone, interno, scaduto, lavoro, scritti, canale, risposta,
                       compito>>,
           ctrlC' \in BOOLEAN, segnale' \in BOOLEAN, ctrlC' => ctrlC,
           \/ /\ pc \in PrimaDelLavoro \ {"coda", "scartata"}
              /\ pc' \in PrimaDelLavoro \ {"coda", "scartata"}
           \/ pc \in InAttesa /\ pc' \in InAttesa /\ (pc' = "ferma" => ~ ch.asincrona)
           \/ pc \in InAttesa \cup InConsegna /\ pc' \in InConsegna /\ canale = Riuscita
    PROVE  InvPy'
<1>1. UNCHANGED <<task, reso>>
  BY DEF compito
<1>2. /\ pc \notin {"riunisce", "fine", "coda", "scartata"}
      /\ pc' \notin {"riunisce", "fine", "coda", "scartata"} /\ pc' \in Punti
  BY DEF PrimaDelLavoro, InAttesa, InConsegna, Punti
<1>3. TipiPy'
  BY <1>1, <1>2 DEF InvPy, TipiPy
<1>4. Insieme'
  <2>1. task # "reso"
    BY <1>2 DEF InvPy, Insieme
  <2>2. lavoro # "assente" <=> pc \in InAttesa \cup InConsegna
    BY <1>2 DEF InvPy, TipiPy, Insieme, Punti
  <2>3. /\ pc' \in PrimaDelLavoro => lavoro = "assente"
        /\ pc' \in InAttesa \cup InConsegna => lavoro # "assente"
        /\ pc' \in InConsegna => canale = Riuscita
        /\ pc' = "ferma" => ~ ch.asincrona
    BY <2>2 DEF PrimaDelLavoro, InAttesa, InConsegna
  <2> QED
    BY <1>1, <1>2, <2>1, <2>3 DEF InvPy, Insieme, Riuscita, Vuoto
<1>5. Risultati'
  BY <1>1, <1>2 DEF InvPy, Risultati, EsitoVero, ErroreVero, EccezioneVera, TuttoScritto
<1> QED
  BY <1>3, <1>4, <1>5 DEF InvPy

\* An answer before the worker has started.
LEMMA PassoConRisposta ==
    ASSUME InvPy, pc \in PrimaDelLavoro \ {"coda", "scartata"},
           NEW x, Risponde(x),
           EsitoVero(x) \/ (~ ch.asincrona /\ EccezioneVera(x)),
           UNCHANGED <<ch, gettone, interno, scaduto, lavoro, scritti, canale, compito>>,
           ctrlC' \in BOOLEAN, segnale' \in BOOLEAN, ctrlC' => ctrlC
    PROVE  InvPy'
<1>1. UNCHANGED <<task, reso>> /\ pc' = "fine" /\ risposta' = x
  BY DEF compito, Risponde
<1>2. TipiPy'
  BY <1>1 DEF InvPy, TipiPy, Punti
<1>3. Insieme'
  <2>1. pc \notin {"riunisce", "fine", "coda", "scartata"}
    BY DEF PrimaDelLavoro
  <2>2. task # "reso" /\ lavoro = "assente"
    BY <2>1 DEF InvPy, Insieme
  <2> QED
    BY <1>1, <2>2 DEF InvPy, Insieme, PrimaDelLavoro, InAttesa, InConsegna
<1>4. Risultati'
  <2>1. EsitoVero(x)' \/ (~ ch.asincrona /\ EccezioneVera(x))'
    BY DEF EsitoVero, EccezioneVera, ErroreVero, TuttoScritto
  <2> QED
    BY <1>1, <2>1 DEF InvPy, Risultati, EsitoVero, ErroreVero, EccezioneVera, TuttoScritto
<1> QED
  BY <1>2, <1>3, <1>4 DEF InvPy

\* The exits of the loop.
LEMMA PassoDiUscita ==
    ASSUME InvPy, pc \in InAttesa \cup InConsegna, canale # Vuoto,
           NEW x, Esce(x),
           EsitoVero(x) \/ (~ ch.asincrona /\ EccezioneVera(x)),
           UNCHANGED <<ch, gettone, interno, scaduto, lavoro, scritti, canale, compito>>,
           ctrlC' \in BOOLEAN, segnale' \in BOOLEAN, ctrlC' => ctrlC
    PROVE  InvPy'
<1>1. UNCHANGED <<task, reso>> /\ pc' = "riunisce" /\ risposta' = x
  BY DEF compito, Esce
<1>2. TipiPy'
  BY <1>1 DEF InvPy, TipiPy, Punti
<1>3. Insieme'
  <2>1. pc \notin {"riunisce", "fine", "coda", "scartata"}
    BY DEF InAttesa, InConsegna
  <2>2. task # "reso" /\ lavoro # "assente"
    BY <2>1 DEF InvPy, Insieme
  <2> QED
    BY <1>1, <2>2 DEF InvPy, Insieme, PrimaDelLavoro, InAttesa, InConsegna
<1>4. Risultati'
  <2>1. EsitoVero(x)' \/ (~ ch.asincrona /\ EccezioneVera(x))'
    BY DEF EsitoVero, EccezioneVera, ErroreVero, TuttoScritto
  <2> QED
    BY <1>1, <2>1 DEF InvPy, Risultati, EsitoVero, ErroreVero, EccezioneVera, TuttoScritto
<1> QED
  BY <1>2, <1>3, <1>4 DEF InvPy


LEMMA ChiamanteConserva ==
    ASSUME InvPy, Chiamante
    PROVE  InvPy'
<1> USE DEF segnali
<1>0. /\ gettone \in BOOLEAN /\ interno \in BOOLEAN /\ ctrlC \in BOOLEAN
      /\ segnale \in BOOLEAN /\ scaduto \in BOOLEAN /\ ch.asincrona \in BOOLEAN
  BY Chiamata DEF InvPy, TipiPy
<1>1. trasferisci => segnale' \in BOOLEAN
  BY <1>0 DEF trasferisci
<1>2. pc \in PrimaDelLavoro => scritti = 0
  BY DEF InvPy, Insieme
<1>3. ASSUME pc \in PrimaDelLavoro \ {"coda", "scartata"}, NEW e, Forma(e),
             remote_effect(e) = "none", Risponde(Plenora(e)),
             UNCHANGED <<ch, gettone, interno, scaduto, ctrlC, lavoro, scritti, canale,
                         compito>>,
             segnale' \in BOOLEAN
      PROVE  InvPy'
  <2>1. ErroreVero(e)
    BY <1>2, <1>3, ErroreSenzaEffetto
  <2>2. EsitoVero(Plenora(e))
    BY <2>1, FormeDellaRisposta
  <2>3. PICK x : x = Plenora(e)
    OBVIOUS
  <2> QED
    BY <1>0, <1>3, <2>2, <2>3, PassoConRisposta
<1>4. CASE Verifica
  <2>1. /\ pc = "verifica" /\ pc' = "verifica_segnali" /\ trasferisci
        /\ UNCHANGED <<ch, gettone, interno, ctrlC, scaduto, lavoro, scritti, canale, risposta,
                       compito>>
    BY <1>4 DEF Verifica, Va
  <2>2. /\ pc \in PrimaDelLavoro \ {"coda", "scartata"}
        /\ pc' \in PrimaDelLavoro \ {"coda", "scartata"}
    BY <2>1 DEF PrimaDelLavoro
  <2> QED
    BY <1>0, <1>1, <2>1, <2>2, PassoInCammino
<1>5. CASE VerificaSegnali
  <2>1. /\ pc = "verifica_segnali"
        /\ UNCHANGED <<ch, gettone, interno, scaduto, lavoro, scritti, canale, compito>>
    BY <1>5 DEF VerificaSegnali
  <2>2. pc \in PrimaDelLavoro \ {"coda", "scartata"}
    BY <2>1 DEF PrimaDelLavoro
  <2>3. CASE ctrlC
    <3>1. ctrlC' = FALSE /\ segnale' = TRUE /\ Risponde(Eccezione(Nessuna))
      BY <1>5, <2>3 DEF VerificaSegnali, SegnalePython
    <3>2. EccezioneVera(Eccezione(Nessuna)) /\ ~ ch.asincrona
      BY <1>2, <2>2, <2>3 DEF EccezioneVera, InvPy, Insieme
    <3>3. ctrlC' \in BOOLEAN /\ segnale' \in BOOLEAN /\ (ctrlC' => ctrlC)
      BY <3>1
    <3>4. PICK x : x = Eccezione(Nessuna)
      OBVIOUS
    <3> QED
      BY <2>1, <2>2, <3>1, <3>2, <3>3, <3>4, PassoConRisposta
  <2>4. CASE ~ ctrlC
    <3>1. pc' = "verifica_interruzione" /\ UNCHANGED <<ctrlC, segnale, risposta>>
      BY <1>5, <2>4 DEF VerificaSegnali, Va
    <3>2. pc' \in PrimaDelLavoro \ {"coda", "scartata"}
      BY <3>1 DEF PrimaDelLavoro
    <3> QED
      BY <1>0, <2>1, <2>2, <3>1, <3>2, PassoInCammino
  <2> QED
    BY <2>3, <2>4
<1>6. CASE VerificaInterruzione
  <2>1. /\ pc = "verifica_interruzione"
        /\ UNCHANGED <<ch, gettone, interno, ctrlC, scaduto, segnale, lavoro, scritti, canale,
                       compito>>
    BY <1>6 DEF VerificaInterruzione
  <2>2. pc \in PrimaDelLavoro \ {"coda", "scartata"}
    BY <2>1 DEF PrimaDelLavoro
  <2>3. CASE segnale \/ scaduto
    <3>1. PICK c, f : /\ c = IF segnale THEN "Cancelled" ELSE "Timeout"
                      /\ f = IF k = 0 THEN "prepare" ELSE "read"
      OBVIOUS
    <3>2. c \in Cause /\ f \in Fasi
      BY <3>1 DEF Cause, Interruzioni, Fasi
    <3> DEFINE e == with_phase(Nudo(c), f)
    <3>3. Risponde(Plenora(e))
      BY <1>6, <2>3, <3>1 DEF VerificaInterruzione
    <3>4. Forma(e) /\ remote_effect(e) = "none"
      BY <3>2, ErroreConFase
    <3> HIDE DEF e
    <3> QED
      BY <1>0, <1>3, <2>1, <2>2, <3>3, <3>4
  <2>4. CASE ~ (segnale \/ scaduto)
    <3>1. pc' = "prepara" /\ UNCHANGED risposta
      BY <1>6, <2>4 DEF VerificaInterruzione, Va
    <3>2. pc' \in PrimaDelLavoro \ {"coda", "scartata"}
      BY <3>1 DEF PrimaDelLavoro
    <3> QED
      BY <1>0, <2>1, <2>2, <3>1, <3>2, PassoInCammino
  <2> QED
    BY <2>3, <2>4
<1>7. ASSUME NEW guasto \in Guasti, Prepara(guasto) PROVE InvPy'
  <2>1. /\ pc = "prepara"
        /\ UNCHANGED <<ch, gettone, interno, ctrlC, scaduto, segnale, lavoro, scritti, canale,
                       compito>>
    BY <1>7 DEF Prepara
  <2>2. pc \in PrimaDelLavoro \ {"coda", "scartata"}
    BY <2>1 DEF PrimaDelLavoro
  <2>3. CASE guasto # "nessuno"
    <3>1. Risponde(Plenora(Nudo(guasto)))
      BY <1>7, <2>3 DEF Prepara
    <3>2. guasto \in Cause
      BY <2>3 DEF Guasti, Cause
    <3>3. Forma(Nudo(guasto)) /\ remote_effect(Nudo(guasto)) = "none"
      BY <3>2, AssiDelNudo
    <3> QED
      BY <1>0, <1>3, <2>1, <2>2, <3>1, <3>3
  <2>4. CASE guasto = "nessuno"
    <3>1. pc' \in {"verifica", "avvia"} /\ UNCHANGED risposta
      BY <1>7, <2>4 DEF Prepara, Va
    <3>2. pc' \in PrimaDelLavoro \ {"coda", "scartata"}
      BY <3>1 DEF PrimaDelLavoro
    <3> QED
      BY <1>0, <2>1, <2>2, <3>1, <3>2, PassoInCammino
  <2> QED
    BY <2>3, <2>4
<1>8. ASSUME NEW parte \in BOOLEAN, Avvia(parte) PROVE InvPy'
  <2>1. /\ pc = "avvia" /\ trasferisci
        /\ UNCHANGED <<ch, gettone, interno, ctrlC, scaduto, scritti, canale, compito>>
    BY <1>8 DEF Avvia
  <2>2. pc \in PrimaDelLavoro \ {"coda", "scartata"}
    BY <2>1 DEF PrimaDelLavoro
  <2>3. CASE ~ parte
    <3>1. UNCHANGED lavoro /\ Risponde(Plenora(with_phase(Nudo("Internal"), "validate")))
      BY <1>8, <2>3 DEF Avvia
    <3>2. "Internal" \in Cause /\ "validate" \in Fasi
      BY DEF Cause, Fasi
    <3> DEFINE e == with_phase(Nudo("Internal"), "validate")
    <3>3. Forma(e) /\ remote_effect(e) = "none" /\ Risponde(Plenora(e))
      BY <3>1, <3>2, ErroreConFase
    <3> HIDE DEF e
    <3> QED
      BY <1>0, <1>1, <1>3, <2>1, <2>2, <3>1, <3>3
  <2>4. CASE parte
    <3>1. pc' = "aspetta" /\ lavoro' = "verifica" /\ UNCHANGED risposta
      BY <1>8, <2>4 DEF Avvia, Va
    <3>2. UNCHANGED <<task, reso>>
      BY <2>1 DEF compito
    <3>3. lavoro = "assente" /\ canale = Vuoto /\ task # "reso" /\ risposta = Nessuna
      BY <2>1, <2>2 DEF InvPy, Insieme, Risultati
    <3>4. TipiPy'
      BY <1>0, <1>1, <2>1, <3>1, <3>2 DEF InvPy, TipiPy, Punti, InAttesa
    <3>5. Insieme'
      BY <2>1, <3>1, <3>2, <3>3 DEF InvPy, Insieme, PrimaDelLavoro, InAttesa, InConsegna
    <3>6. Risultati'
      BY <2>1, <3>1, <3>2, <3>3 DEF InvPy, Risultati
    <3> QED
      BY <3>4, <3>5, <3>6 DEF InvPy
  <2> QED
    BY <2>3, <2>4
<1>9. CASE Intervallo
  <2>1. /\ pc = "aspetta" /\ pc' = "intervallo_segnali" /\ trasferisci
        /\ UNCHANGED <<ch, gettone, interno, ctrlC, scaduto, lavoro, scritti, canale, risposta,
                       compito>>
    BY <1>9 DEF Intervallo, Va
  <2>2. pc \in InAttesa /\ pc' \in InAttesa /\ pc' # "ferma"
    BY <2>1 DEF InAttesa
  <2> QED
    BY <1>0, <1>1, <2>1, <2>2, PassoInCammino
<1>10. CASE IntervalloSegnali
  <2>1. /\ pc = "intervallo_segnali"
        /\ UNCHANGED <<ch, gettone, interno, scaduto, lavoro, scritti, canale, risposta,
                       compito>>
    BY <1>10 DEF IntervalloSegnali, Va
  <2>2. CASE ctrlC
    <3>1. pc' = "ferma" /\ ctrlC' = FALSE /\ segnale' = TRUE /\ ~ ch.asincrona
      BY <1>10, <2>2 DEF IntervalloSegnali, Va, SegnalePython, InvPy, Insieme
    <3>2. /\ ctrlC' \in BOOLEAN /\ segnale' \in BOOLEAN /\ (ctrlC' => ctrlC)
          /\ pc \in InAttesa /\ pc' \in InAttesa
      BY <2>1, <3>1 DEF InAttesa
    <3> QED
      BY <2>1, <3>1, <3>2, PassoInCammino
  <2>3. CASE ~ ctrlC
    <3>1. pc' = "aspetta" /\ UNCHANGED <<ctrlC, segnale>>
      BY <1>10, <2>3 DEF IntervalloSegnali, Va
    <3>2. pc \in InAttesa /\ pc' \in InAttesa /\ pc' # "ferma"
      BY <2>1, <3>1 DEF InAttesa
    <3> QED
      BY <1>0, <2>1, <3>1, <3>2, PassoInCammino
  <2> QED
    BY <2>2, <2>3
<1>11. CASE Ferma
  <2>1. /\ pc = "ferma" /\ canale # Vuoto /\ ~ ch.asincrona /\ pc \in InAttesa
        /\ UNCHANGED <<ch, gettone, interno, ctrlC, scaduto, segnale, lavoro, scritti, canale,
                       compito>>
    BY <1>11 DEF Ferma, InvPy, Insieme, InAttesa
  <2>2. PICK c : c = CASE canale = Chiuso   -> Nessuna
                       [] canale = Riuscita -> annullato_alla_consegna
                       [] OTHER             -> canale.errore
    OBVIOUS
  <2>3. PICK x : x = Eccezione(c)
    OBVIOUS
  <2>4. Esce(x)
    BY <1>11, <2>2, <2>3 DEF Ferma
  <2>5. EccezioneVera(x)
    <3>1. CASE canale = Chiuso
      <4>1. c = Nessuna
        BY <2>2, <3>1, FormeDellaRisposta
      <4> QED
        BY <2>3, <3>1, <4>1 DEF EccezioneVera
    <3>2. CASE canale = Riuscita
      <4>1. c = annullato_alla_consegna
        BY <2>2, <3>2, FormeDellaRisposta
      <4>2. scritti = ch.uscite
        BY <3>2, FormeDellaRisposta DEF InvPy, Risultati, EsitoVero, Riuscita
      <4> QED
        BY <2>3, <4>1, <4>2, AnnullatoVero, FormeDellaRisposta
    <3>3. CASE canale \notin {Chiuso, Riuscita}
      <4>1. c = canale.errore
        BY <2>2, <3>3
      <4>2. ErroreVero(canale.errore)
        BY <2>1, <3>3 DEF InvPy, Risultati, EsitoVero
      <4> QED
        BY <2>3, <4>1, <4>2, FormeDellaRisposta
    <3> QED
      BY <3>1, <3>2, <3>3
  <2> QED
    BY <1>0, <2>1, <2>4, <2>5, PassoDiUscita
<1>12. CASE RiceveErrore
  <2>1. /\ pc = "aspetta" /\ canale \notin {Vuoto, Riuscita} /\ pc \in InAttesa
        /\ UNCHANGED <<ch, gettone, interno, ctrlC, scaduto, segnale, lavoro, scritti, canale,
                       compito>>
    BY <1>12 DEF RiceveErrore, InAttesa
  <2>2. PICK x : x = IF canale = Chiuso THEN Plenora(panico) ELSE canale
    OBVIOUS
  <2>3. Esce(x)
    BY <1>12, <2>2 DEF RiceveErrore
  <2>4. EsitoVero(x)
    <3>1. CASE canale = Chiuso
      BY <2>2, <3>1, PanicoVero, FormeDellaRisposta
    <3>2. CASE canale # Chiuso
      BY <2>1, <2>2, <3>2 DEF InvPy, Risultati
    <3> QED
      BY <3>1, <3>2
  <2> QED
    BY <1>0, <2>1, <2>3, <2>4, PassoDiUscita
<1>13. CASE RiceveSuccesso
  <2>1. /\ pc = "aspetta" /\ pc' = "consegna_segnali" /\ trasferisci /\ canale = Riuscita
        /\ UNCHANGED <<ch, gettone, interno, ctrlC, scaduto, lavoro, scritti, canale, risposta,
                       compito>>
    BY <1>13 DEF RiceveSuccesso, Va
  <2>2. pc \in InAttesa /\ pc' \in InConsegna
    BY <2>1 DEF InAttesa, InConsegna
  <2> QED
    BY <1>0, <1>1, <2>1, <2>2, PassoInCammino
<1>14. ASSUME pc \in InConsegna
       PROVE  canale = Riuscita /\ scritti = ch.uscite /\ canale # Vuoto
  BY <1>14, FormeDellaRisposta DEF InvPy, Insieme, Risultati, EsitoVero, Riuscita
<1>15. CASE ConsegnaSegnali
  <2>1. /\ pc = "consegna_segnali" /\ pc \in InConsegna
        /\ UNCHANGED <<ch, gettone, interno, scaduto, lavoro, scritti, canale, compito>>
    BY <1>15 DEF ConsegnaSegnali, InConsegna
  <2>2. CASE ctrlC
    <3>1. PICK x : x = Eccezione(annullato_alla_consegna)
      OBVIOUS
    <3>2. ctrlC' = FALSE /\ segnale' = TRUE /\ Esce(x) /\ ~ ch.asincrona
      BY <1>15, <2>2, <3>1 DEF ConsegnaSegnali, SegnalePython, InvPy, Insieme
    <3>3. EccezioneVera(x)
      BY <1>14, <2>1, <3>1, AnnullatoVero, FormeDellaRisposta
    <3>4. ctrlC' \in BOOLEAN /\ segnale' \in BOOLEAN /\ (ctrlC' => ctrlC)
      BY <3>2
    <3> QED
      BY <1>14, <2>1, <3>2, <3>3, <3>4, PassoDiUscita
  <2>3. CASE ~ ctrlC
    <3>1. pc' = "consegna" /\ UNCHANGED <<ctrlC, segnale, risposta>> /\ pc' \in InConsegna
      BY <1>15, <2>3 DEF ConsegnaSegnali, Va, InConsegna
    <3> QED
      BY <1>0, <1>14, <2>1, <3>1, PassoInCammino
  <2> QED
    BY <2>2, <2>3
<1>16. CASE Consegna
  <2>1. /\ pc = "consegna" /\ pc \in InConsegna
        /\ UNCHANGED <<ch, gettone, interno, ctrlC, scaduto, segnale, lavoro, scritti, canale,
                       compito>>
    BY <1>16 DEF Consegna, InConsegna
  <2>2. PICK x : x = IF segnale THEN Plenora(annullato_alla_consegna) ELSE Riuscita
    OBVIOUS
  <2>3. Esce(x)
    BY <1>16, <2>2 DEF Consegna
  <2>4. EsitoVero(x)
    <3>1. CASE segnale
      BY <1>14, <2>1, <2>2, <3>1, AnnullatoVero, FormeDellaRisposta
    <3>2. CASE ~ segnale
      BY <1>14, <2>1, <2>2, <3>2 DEF EsitoVero
    <3> QED
      BY <3>1, <3>2
  <2> QED
    BY <1>0, <1>14, <2>1, <2>3, <2>4, PassoDiUscita
<1>17. ASSUME NEW guasto \in BOOLEAN, Riunisce(guasto) PROVE InvPy'
  <2>1. /\ pc = "riunisce" /\ lavoro = "finito" /\ pc' = "fine"
        /\ UNCHANGED <<ch, gettone, interno, ctrlC, scaduto, segnale, lavoro, scritti, canale,
                       task, reso>>
    BY <1>17 DEF Riunisce, compito
  <2>2. TipiPy'
    BY <1>0, <2>1 DEF InvPy, TipiPy, Punti
  <2>3. Insieme'
    BY <2>1 DEF InvPy, Insieme, PrimaDelLavoro, InAttesa, InConsegna
  <2>4. EsitoVero(risposta)' \/ (~ ch.asincrona /\ EccezioneVera(risposta))'
    <3>1. CASE guasto
      <4>1. risposta' = Plenora(Nudo("Internal")) /\ ~ con_effetti
        BY <1>17, <3>1 DEF Riunisce
      <4>2. scritti = 0
        BY <4>1, Chiamata DEF con_effetti
      <4>3. "Internal" \in Cause
        BY DEF Cause
      <4>4. ErroreVero(Nudo("Internal"))
        BY <4>2, <4>3, AssiDelNudo, ErroreSenzaEffetto
      <4>5. EsitoVero(Plenora(Nudo("Internal")))
        BY <4>4, FormeDellaRisposta
      <4>6. PICK x : x = Plenora(Nudo("Internal"))
        OBVIOUS
      <4>7. EsitoVero(x)'
        BY <2>1, <4>5, <4>6, VeroResta
      <4> QED
        BY <4>1, <4>6, <4>7 DEF EsitoVero
    <3>2. CASE ~ guasto
      <4>1. risposta' = risposta
        BY <1>17, <3>2 DEF Riunisce
      <4> QED
        BY <2>1, <4>1 DEF InvPy, Risultati, EsitoVero, ErroreVero, EccezioneVera, TuttoScritto
    <3> QED
      BY <3>1, <3>2
  <2>5. Risultati'
    <3>1. canale' \in {Vuoto, Chiuso} \/ EsitoVero(canale)'
      BY <2>1 DEF InvPy, Risultati, EsitoVero, ErroreVero, TuttoScritto
    <3>2. /\ (task # "reso" => reso = Nessuna)'
          /\ (interno => task \in {"annullato", "reso"} /\ reso # Riuscita)'
      BY <2>1 DEF InvPy, Risultati
    <3>3. task' # "reso"
      BY <2>1 DEF InvPy, Insieme
    <3> QED
      BY <2>1, <2>4, <3>1, <3>2, <3>3 DEF Risultati
  <2> QED
    BY <2>2, <2>3, <2>5 DEF InvPy
<1> QED
  BY <1>4, <1>5, <1>6, <1>7, <1>8, <1>9, <1>10, <1>11, <1>12, <1>13, <1>15, <1>16, <1>17
     DEF Chiamante


-----------------------------------------------------------------------------
(* The worker *)

\* While the worker works the call waits.
LEMMA LavoroInCorso ==
    ASSUME InvPy, lavoro \in InLavoro
    PROVE  /\ pc \in InAttesa /\ canale = Vuoto
           /\ pc \notin PrimaDelLavoro \cup InConsegna \cup {"riunisce", "fine"}
           /\ task # "reso"
<1>1. canale = Vuoto
  BY DEF InvPy, Insieme, InLavoro
<1>2. pc \notin PrimaDelLavoro \cup {"riunisce", "fine"}
  BY <1>1 DEF InvPy, Insieme, InLavoro
<1>3. pc \notin InConsegna
  BY <1>1, FormeDellaRisposta DEF InvPy, Insieme
<1>4. pc \in InAttesa
  BY <1>2, <1>3 DEF InvPy, TipiPy, Punti
<1>5. task # "reso"
  BY <1>2 DEF InvPy, Insieme, PrimaDelLavoro
<1> QED
  BY <1>1, <1>2, <1>3, <1>4, <1>5

LEMMA PassoDelLavoro ==
    ASSUME InvPy, lavoro \in InLavoro, UNCHANGED resto,
           scritti' \in 0 .. ch.uscite,
           \/ lavoro' \in InLavoro /\ canale' = Vuoto
           \/ lavoro' = "uscita" /\ canale' # Vuoto
              /\ (canale' = Chiuso \/ EsitoVero(canale)')
    PROVE  InvPy'
<1>1. UNCHANGED <<ch, pc, gettone, interno, ctrlC, scaduto, segnale, risposta, task, reso>>
  BY DEF resto
<1>2. /\ pc \in InAttesa /\ task # "reso"
      /\ pc \notin PrimaDelLavoro \cup InConsegna \cup {"riunisce", "fine"}
  BY LavoroInCorso
<1>3. TipiPy'
  BY <1>1 DEF InvPy, TipiPy, InLavoro
<1>4. Insieme'
  BY <1>1, <1>2 DEF InvPy, Insieme, InLavoro
<1>5. Risultati'
  BY <1>1, <1>2 DEF InvPy, Risultati
<1> QED
  BY <1>3, <1>4, <1>5 DEF InvPy

\* What `esegui_ingressi` adds to the errors of the writing makes them true: `partial`
\* to any error but an interruption, and to an interruption before the last output.
LEMMA ErroreDellaScrittura ==
    ASSUME InvPy, NEW e, Forma(e), remote_effect(e) \in {"none", "unknown"},
           e.causa \in Interruzioni => ~ TuttoScritto /\ remote_effect(e) = "none"
    PROVE  ErroreVero(IF scritti = 0 THEN e ELSE with_remote_effect(e, "partial"))
<1>0. scritti \in Nat /\ "partial" \in Effetti
  BY Chiamata DEF Effetti
<1>1. CASE scritti = 0
  BY <1>1 DEF ErroreVero, TuttoScritto
<1>2. CASE scritti # 0
  <2> DEFINE g == with_remote_effect(e, "partial")
  <2>1. /\ Forma(g) /\ g.causa = e.causa
        /\ remote_effect(g) = IF remote_effect(e) = "none" THEN "partial"
                              ELSE remote_effect(e)
    BY <1>0, AssiConEffetto
  <2> HIDE DEF g
  <2>2. 0 < scritti
    BY <1>0, <1>2
  <2>3. remote_effect(g) \in {"partial", "unknown"}
    BY <2>1
  <2>4. ErroreVero(g)
    BY <2>1, <2>2, <2>3 DEF ErroreVero
  <2> QED
    BY <1>2, <2>4 DEF g
<1> QED
  BY <1>1, <1>2

\* And so does what verifica_finale adds to an interruption.
LEMMA ErroreFinale ==
    ASSUME InvPy, NEW e, Forma(e), remote_effect(e) = "none", scritti = ch.uscite
    PROVE  ErroreVero(IF scritti = 0 THEN e ELSE with_remote_effect(e, "committed"))
<1>0. scritti \in Nat /\ "committed" \in Effetti
  BY Chiamata DEF Effetti
<1>1. CASE scritti = 0
  BY <1>1, ErroreSenzaEffetto
<1>2. CASE scritti # 0
  <2> DEFINE g == with_remote_effect(e, "committed")
  <2>1. Forma(g) /\ remote_effect(g) = "committed"
    BY <1>0, AssiConEffetto
  <2> HIDE DEF g
  <2>2. TuttoScritto
    BY <1>0, <1>2 DEF TuttoScritto
  <2>3. ErroreVero(g)
    BY <2>1, <2>2 DEF ErroreVero
  <2> QED
    BY <1>2, <2>3 DEF g
<1> QED
  BY <1>1, <1>2

LEMMA LavoratoreConserva ==
    ASSUME InvPy, Lavoratore
    PROVE  InvPy'
<1>0. ch.uscite \in Nat /\ scritti \in Nat /\ scritti <= ch.uscite
      /\ scritti \in 0 .. ch.uscite
  BY Chiamata DEF InvPy, TipiPy
<1>1. ASSUME lavoro \in InLavoro, UNCHANGED resto, UNCHANGED scritti,
             NEW e, ErroreVero(e), Invia(Plenora(e))
      PROVE  InvPy'
  <2>1. UNCHANGED <<ch, scritti>>
    BY <1>1 DEF resto
  <2>2. PICK x : x = Plenora(e)
    OBVIOUS
  <2>3. EsitoVero(x)' /\ x # Vuoto
    BY <1>1, <2>1, <2>2, FormeDellaRisposta, VeroResta
  <2>4. canale' = x /\ lavoro' = "uscita"
    BY <1>1, <2>2 DEF Invia
  <2>5. EsitoVero(canale)'
    BY <2>3, <2>4 DEF EsitoVero
  <2> QED
    BY <1>0, <1>1, <2>3, <2>4, <2>5, PassoDelLavoro
<1>2. CASE LavoroVerifica
  <2>1. lavoro \in InLavoro /\ UNCHANGED resto /\ UNCHANGED scritti
    BY <1>2 DEF LavoroVerifica, InLavoro
  <2>2. CASE (segnale \/ scaduto) /\ scritti < ch.uscite
    <3> DEFINE d == with_phase(Nudo(IF segnale THEN "Cancelled" ELSE "Timeout"), "write")
    <3>1. FallisceScrittura(d)
      BY <1>2, <2>2 DEF LavoroVerifica
    <3>2. Forma(d) /\ remote_effect(d) = "none"
      <4>1. (IF segnale THEN "Cancelled" ELSE "Timeout") \in Cause /\ "write" \in Fasi
        BY DEF Cause, Interruzioni, Fasi
      <4> QED
        BY <4>1, ErroreConFase
    <3> HIDE DEF d
    <3>3. ~ TuttoScritto
      BY <1>0, <2>2 DEF TuttoScritto
    <3>4. PICK e : e = IF scritti = 0 THEN d ELSE with_remote_effect(d, "partial")
      OBVIOUS
    <3>5. Invia(Plenora(e)) /\ ErroreVero(e)
      BY <3>1, <3>2, <3>3, <3>4, ErroreDellaScrittura DEF FallisceScrittura
    <3> QED
      BY <1>1, <2>1, <3>5
  <2>3. CASE (segnale \/ scaduto) /\ ~ (scritti < ch.uscite)
    <3> DEFINE d == with_phase(Nudo(IF segnale THEN "Cancelled" ELSE "Timeout"), "finalize")
    <3>1. FallisceFinale(d)
      BY <1>2, <2>3 DEF LavoroVerifica
    <3>2. Forma(d) /\ remote_effect(d) = "none"
      <4>1. (IF segnale THEN "Cancelled" ELSE "Timeout") \in Cause /\ "finalize" \in Fasi
        BY DEF Cause, Interruzioni, Fasi
      <4> QED
        BY <4>1, ErroreConFase
    <3> HIDE DEF d
    <3>3. scritti = ch.uscite
      BY <1>0, <2>3
    <3>4. PICK e : e = IF scritti = 0 THEN d ELSE with_remote_effect(d, "committed")
      OBVIOUS
    <3>5. Invia(Plenora(e)) /\ ErroreVero(e)
      BY <3>1, <3>2, <3>3, <3>4, ErroreFinale DEF FallisceFinale
    <3> QED
      BY <1>1, <2>1, <3>5
  <2>4. CASE ~ (segnale \/ scaduto)
    <3>1. lavoro' = "procede" /\ canale' = canale /\ canale = Vuoto
      BY <1>2, <2>1, <2>4, LavoroInCorso DEF LavoroVerifica
    <3> QED
      BY <1>0, <2>1, <3>1, PassoDelLavoro DEF InLavoro
  <2> QED
    BY <2>2, <2>3, <2>4
<1>3. CASE LavoroCalcola \/ LavoroScrive
  <2>1. /\ lavoro = "procede" /\ lavoro' \in {"verifica", "canonico"}
        /\ UNCHANGED resto /\ canale' = canale
    BY <1>3 DEF LavoroCalcola, LavoroScrive
  <2>2. scritti' \in 0 .. ch.uscite
    BY <1>0, <1>3 DEF LavoroCalcola, LavoroScrive
  <2>3. lavoro \in InLavoro /\ lavoro' \in InLavoro
    BY <2>1 DEF InLavoro
  <2>4. canale = Vuoto
    BY <2>3, LavoroInCorso
  <2> QED
    BY <2>1, <2>2, <2>3, <2>4, PassoDelLavoro
<1>4. CASE LavoroFinisce
  <2>1. /\ lavoro \in InLavoro /\ lavoro' = "uscita" /\ canale' = Riuscita
        /\ scritti = ch.uscite /\ UNCHANGED resto /\ UNCHANGED scritti
    BY <1>4 DEF LavoroFinisce, Invia, InLavoro
  <2>2. EsitoVero(canale)' /\ canale' # Vuoto
    BY <2>1, FormeDellaRisposta DEF EsitoVero, resto
  <2> QED
    BY <1>0, <2>1, <2>2, PassoDelLavoro
<1>5. ASSUME NEW b \in BOOLEAN, LavoroFallisce(b) PROVE InvPy'
  <2>1. lavoro = "procede" /\ UNCHANGED resto /\ UNCHANGED scritti /\ lavoro \in InLavoro
    BY <1>5 DEF LavoroFallisce, InLavoro
  <2> DEFINE n == Nudo("io_transient")
             d == IF b THEN override_remote_effect(n, "unknown") ELSE n
  <2>2. FallisceScrittura(d)
    BY <1>5 DEF LavoroFallisce
  <2>3. /\ "io_transient" \in Cause \ Interruzioni /\ "unknown" \in Effetti
    BY DEF Cause, CauseIo, Interruzioni, Effetti
  <2>4. Forma(n) /\ n.causa = "io_transient" /\ remote_effect(n) = "none"
    BY <2>3, AssiDelNudo
  <2>5. Forma(d) /\ d.causa = "io_transient" /\ remote_effect(d) \in {"none", "unknown"}
    <3> HIDE DEF n
    <3>1. CASE b
      BY <2>3, <2>4, <3>1, AssiSostituiti
    <3>2. CASE ~ b
      BY <2>4, <3>2
    <3> QED
      BY <3>1, <3>2
  <2> HIDE DEF d
  <2>6. PICK e : e = IF scritti = 0 THEN d ELSE with_remote_effect(d, "partial")
    OBVIOUS
  <2>7. Invia(Plenora(e)) /\ ErroreVero(e)
    BY <2>2, <2>3, <2>5, <2>6, ErroreDellaScrittura DEF FallisceScrittura
  <2> QED
    BY <1>1, <2>1, <2>7
<1>6. ASSUME NEW b \in BOOLEAN, LavoroCanonico(b) PROVE InvPy'
  <2>1. lavoro = "canonico" /\ UNCHANGED resto /\ UNCHANGED scritti /\ lavoro \in InLavoro
    BY <1>6 DEF LavoroCanonico, InLavoro
  <2>2. CASE b
    <3> DEFINE d == Nudo("io_not_found")
    <3>1. FallisceScrittura(d)
      BY <1>6, <2>2 DEF LavoroCanonico
    <3>2. "io_not_found" \in Cause \ Interruzioni
      BY DEF Cause, CauseIo, Interruzioni
    <3>3. Forma(d) /\ d.causa = "io_not_found" /\ remote_effect(d) = "none"
      BY <3>2, AssiDelNudo
    <3> HIDE DEF d
    <3>4. PICK e : e = IF scritti = 0 THEN d ELSE with_remote_effect(d, "partial")
      OBVIOUS
    <3>5. Invia(Plenora(e)) /\ ErroreVero(e)
      BY <3>1, <3>2, <3>3, <3>4, ErroreDellaScrittura DEF FallisceScrittura
    <3> QED
      BY <1>1, <2>1, <3>5
  <2>3. CASE ~ b
    <3>1. lavoro' = "verifica" /\ canale' = canale /\ canale = Vuoto
      BY <1>6, <2>1, <2>3, LavoroInCorso DEF LavoroCanonico
    <3> QED
      BY <1>0, <2>1, <3>1, PassoDelLavoro DEF InLavoro
  <2> QED
    BY <2>2, <2>3
<1>7. ASSUME NEW b \in BOOLEAN, LavoroPanico(b) PROVE InvPy'
  <2>1. lavoro \in InLavoro /\ UNCHANGED resto /\ UNCHANGED scritti
    BY <1>7 DEF LavoroPanico, InLavoro
  <2>2. CASE b
    <3>1. canale' = Chiuso /\ lavoro' = "uscita"
      BY <1>7, <2>2 DEF LavoroPanico
    <3> QED
      BY <1>0, <2>1, <3>1, FormeDellaRisposta, PassoDelLavoro
  <2>3. CASE ~ b
    <3>1. PICK e : e = panico
      OBVIOUS
    <3>2. Invia(Plenora(e)) /\ ErroreVero(e)
      BY <1>7, <2>3, <3>1, PanicoVero DEF LavoroPanico
    <3> QED
      BY <1>1, <2>1, <3>2
  <2> QED
    BY <2>2, <2>3
<1>8. CASE LavoroTermina
  <2>1. /\ lavoro = "uscita" /\ lavoro' = "finito" /\ UNCHANGED <<scritti, canale>>
        /\ UNCHANGED <<ch, pc, gettone, interno, ctrlC, scaduto, segnale, risposta, task, reso>>
    BY <1>8 DEF LavoroTermina, resto
  <2>2. TipiPy'
    BY <2>1 DEF InvPy, TipiPy
  <2>3. Insieme'
    BY <2>1 DEF InvPy, Insieme
  <2>4. Risultati'
    BY <2>1 DEF InvPy, Risultati, EsitoVero, ErroreVero, EccezioneVera, TuttoScritto
  <2> QED
    BY <2>2, <2>3, <2>4 DEF InvPy
<1> QED
  BY <1>2, <1>3, <1>4, <1>5, <1>6, <1>7, <1>8 DEF Lavoratore

-----------------------------------------------------------------------------
(* The task, and the rest of the world *)

LEMMA CicloEMondoConservano ==
    ASSUME InvPy, Ciclo \/ Mondo
    PROVE  InvPy'
<1>0. ch.asincrona \in BOOLEAN /\ task \in {"attende", "annullato", "reso", "assente"}
      /\ (task # "assente" => ch.asincrona) /\ interno \in BOOLEAN
  BY Chiamata DEF InvPy, TipiPy
<1>1. CASE PrendeInCarico \/ FuturoAnnullato
  <2>1. /\ pc = "coda" /\ pc' \in {"verifica", "scartata"}
        /\ UNCHANGED <<ch, gettone, ctrlC, scaduto, segnale, lavoro, scritti, canale,
                       risposta, interno, task, reso>>
    BY <1>1 DEF PrendeInCarico, FuturoAnnullato, nativo, compito
  <2>2. TipiPy'
    BY <2>1 DEF InvPy, TipiPy, Punti, PrimaDelLavoro
  <2>3. Insieme'
    BY <2>1 DEF InvPy, Insieme, PrimaDelLavoro, InAttesa, InConsegna
  <2>4. Risultati'
    BY <2>1 DEF InvPy, Risultati, EsitoVero, ErroreVero, EccezioneVera, TuttoScritto
  <2> QED
    BY <2>2, <2>3, <2>4 DEF InvPy
<1>2. CASE AnnullaTask
  <2>1. /\ task = "attende" /\ task' = "annullato" /\ interno' = TRUE
        /\ UNCHANGED <<ch, gettone, ctrlC, scaduto, segnale, lavoro, scritti, canale,
                       risposta, pc, reso>>
    BY <1>2 DEF AnnullaTask, nativo
  <2>2. TipiPy'
    <3>1. ch.asincrona /\ interno' \in BOOLEAN
      BY <1>0, <2>1
    <3> QED
      BY <2>1, <3>1 DEF InvPy, TipiPy
  <2>3. Insieme'
    BY <2>1 DEF InvPy, Insieme
  <2>4. Risultati'
    BY <2>1, FormeDellaRisposta
       DEF InvPy, Risultati, EsitoVero, ErroreVero, EccezioneVera, TuttoScritto
  <2> QED
    BY <2>2, <2>3, <2>4 DEF InvPy
<1>3. CASE TaskRiceve
  <2>1. /\ task = "attende" /\ pc = "fine" /\ task' = "reso" /\ reso' = risposta
        /\ UNCHANGED <<ch, gettone, ctrlC, scaduto, segnale, lavoro, scritti, canale,
                       risposta, pc, interno>>
    BY <1>3 DEF TaskRiceve, nativo
  <2>2. ~ interno
    BY <2>1 DEF InvPy, Risultati
  <2>3. TipiPy'
    BY <1>0, <2>1 DEF InvPy, TipiPy
  <2>4. Insieme'
    BY <2>1 DEF InvPy, Insieme
  <2>5. Risultati'
    BY <2>1, <2>2 DEF InvPy, Risultati, EsitoVero, ErroreVero, EccezioneVera, TuttoScritto
  <2> QED
    BY <2>3, <2>4, <2>5 DEF InvPy
<1>4. CASE TaskSiFerma
  <2>1. /\ task = "annullato" /\ pc \in {"fine", "scartata"} /\ task' = "reso"
        /\ UNCHANGED <<ch, gettone, ctrlC, scaduto, segnale, lavoro, scritti, canale,
                       risposta, pc, interno>>
    BY <1>4 DEF TaskSiFerma, nativo
  <2>2. PICK c : c = CASE pc = "scartata"     -> Nessuna
                       [] risposta = Riuscita -> annullato_alla_consegna
                       [] OTHER               -> risposta.errore
    OBVIOUS
  <2>3. reso' = Eccezione(c)
    BY <1>4, <2>2 DEF TaskSiFerma
  <2>4. PICK x : x = Eccezione(c)
    OBVIOUS
  <2>5. EccezioneVera(x)
    <3>1. CASE pc = "scartata"
      <4>1. scritti = 0 /\ risposta = Nessuna
        BY <3>1 DEF InvPy, Insieme, Risultati, PrimaDelLavoro
      <4>2. c = Nessuna
        BY <2>2, <3>1, <4>1, FormeDellaRisposta
      <4> QED
        BY <2>4, <4>1, <4>2 DEF EccezioneVera
    <3>2. CASE pc # "scartata"
      <4>1. EsitoVero(risposta)
        BY <1>0, <2>1, <3>2 DEF InvPy, Risultati
      <4>2. CASE risposta = Riuscita
        <5>1. scritti = ch.uscite
          BY <4>1, <4>2 DEF EsitoVero, Riuscita
        <5>2. c = annullato_alla_consegna
          BY <2>2, <3>2, <4>2
        <5> QED
          BY <2>4, <5>1, <5>2, AnnullatoVero, FormeDellaRisposta
      <4>3. CASE risposta # Riuscita
        <5>1. c = risposta.errore /\ ErroreVero(risposta.errore)
          BY <2>2, <3>2, <4>1, <4>3 DEF EsitoVero
        <5> QED
          BY <2>4, <5>1, FormeDellaRisposta
      <4> QED
        BY <4>2, <4>3
    <3> QED
      BY <3>1, <3>2
  <2>6. EccezioneVera(reso)' /\ reso' # Riuscita
    <3>1. EccezioneVera(x)'
      BY <2>1, <2>5 DEF EccezioneVera, ErroreVero, TuttoScritto
    <3> QED
      BY <2>3, <2>4, <3>1, FormeDellaRisposta DEF EccezioneVera
  <2>7. TipiPy'
    BY <1>0, <2>1 DEF InvPy, TipiPy
  <2>8. Insieme'
    BY <2>1 DEF InvPy, Insieme
  <2>9. Risultati'
    <3>1. canale' \in {Vuoto, Chiuso} \/ EsitoVero(canale)'
      BY <2>1 DEF InvPy, Risultati, EsitoVero, ErroreVero, TuttoScritto
    <3>2. /\ pc' \notin {"riunisce", "fine"} => risposta' = Nessuna
          /\ pc' \in {"riunisce", "fine"} =>
               EsitoVero(risposta)' \/ (~ ch.asincrona /\ EccezioneVera(risposta))'
      BY <2>1 DEF InvPy, Risultati, EsitoVero, ErroreVero, EccezioneVera, TuttoScritto
    <3> QED
      BY <2>1, <2>6, <3>1, <3>2 DEF Risultati
  <2> QED
    BY <2>7, <2>8, <2>9 DEF InvPy
<1>5. CASE AlzaGettone \/ PremeCtrlC \/ Scade
  <2>1. /\ UNCHANGED <<ch, pc, interno, segnale, lavoro, scritti, canale, risposta, task, reso>>
        /\ ctrlC' => ctrlC \/ ~ ch.asincrona
    BY <1>5 DEF AlzaGettone, PremeCtrlC, Scade, attori
  <2>2. gettone' \in BOOLEAN /\ ctrlC' \in BOOLEAN /\ scaduto' \in BOOLEAN
    BY <1>5 DEF AlzaGettone, PremeCtrlC, Scade, InvPy, TipiPy
  <2>3. TipiPy'
    BY <2>1, <2>2 DEF InvPy, TipiPy
  <2>4. Insieme'
    BY <2>1 DEF InvPy, Insieme
  <2>5. Risultati'
    BY <2>1 DEF InvPy, Risultati, EsitoVero, ErroreVero, EccezioneVera, TuttoScritto
  <2> QED
    BY <2>3, <2>4, <2>5 DEF InvPy
<1> QED
  BY <1>1, <1>2, <1>3, <1>4, <1>5 DEF Ciclo, Mondo


-----------------------------------------------------------------------------
(* The theorems *)

LEMMA InvPyInizio == Init => InvPy
<1> SUFFICES ASSUME Init PROVE InvPy
  OBVIOUS
<1>1. ch \in Chiamate /\ ch.asincrona \in BOOLEAN /\ ch.uscite \in Nat
  BY ChiamateAssunte DEF Init
<1>2. /\ pc \in {"coda", "verifica"} /\ (pc = "coda" => ch.asincrona)
      /\ task = (IF ch.asincrona THEN "attende" ELSE "assente")
      /\ scritti = 0 /\ lavoro = "assente" /\ canale = Vuoto
      /\ risposta = Nessuna /\ reso = Nessuna
  BY <1>1 DEF Init
<1>3. ~ interno /\ ~ ctrlC
  BY DEF Init
<1>4. /\ gettone \in BOOLEAN /\ interno \in BOOLEAN /\ ctrlC \in BOOLEAN
      /\ scaduto \in BOOLEAN /\ segnale \in BOOLEAN
  BY DEF Init
<1>5. TipiPy
  BY <1>1, <1>2, <1>4 DEF TipiPy, Punti, PrimaDelLavoro
<1>6. Insieme
  BY <1>2, <1>3 DEF Insieme, PrimaDelLavoro, InAttesa, InConsegna
<1>7. Risultati
  BY <1>2, <1>3 DEF Risultati
<1> QED
  BY <1>5, <1>6, <1>7 DEF InvPy

LEMMA InvPyFermo ==
    ASSUME InvPy, UNCHANGED vars
    PROVE  InvPy'
<1>1. TipiPy'
  BY DEF vars, InvPy, TipiPy
<1>2. Insieme'
  BY DEF vars, InvPy, Insieme
<1>3. Risultati'
  BY DEF vars, InvPy, Risultati, EsitoVero, ErroreVero, EccezioneVera, TuttoScritto
<1> QED
  BY <1>1, <1>2, <1>3 DEF InvPy

LEMMA InvPyConservato == InvPy /\ [Next]_vars => InvPy'
  BY ChiamanteConserva, LavoratoreConserva, CicloEMondoConservano, InvPyFermo DEF Next, Finito

\* Where the caller's thread, the worker and the task can be together, and the results
\* they have handed on, in every reachable state.
THEOREM InvarianteDellaChiamata == Spec => []InvPy
  BY InvPyInizio, InvPyConservato, PTL DEF Spec

LEMMA RispostaVera ==
    ASSUME InvPy, Concluso
    PROVE  EsitoVero(Finale) \/ EccezioneVera(Finale)
<1>1. CASE ch.asincrona
  BY <1>1 DEF Concluso, Finale, InvPy, Risultati
<1>2. CASE ~ ch.asincrona
  BY <1>2 DEF Concluso, Finale, InvPy, Risultati
<1> QED
  BY <1>1, <1>2

LEMMA ErroreEsiste ==
    ASSUME NEW e, ErroreVero(e)
    PROVE  e # Nessuna
<1>1. DOMAIN e = {"causa", "involucri"}
  BY DEF ErroreVero, Forma, Catene
<1>2. DOMAIN Nessuna = {"tipo"}
  BY DEF Nessuna
<1> QED
  BY <1>1, <1>2

LEMMA EffettoDallInvariante == InvPy => EffettoAlChiamante
<1> SUFFICES ASSUME InvPy, Concluso PROVE
        /\ lavoro \in {"assente", "finito"}
        /\ Finale = Riuscita => scritti = ch.uscite
        /\ ErroreReso = Nessuna /\ Finale # Riuscita => scritti = 0 \/ canale = Chiuso
        /\ ErroreReso # Nessuna => ErroreVero(ErroreReso)
  BY DEF EffettoAlChiamante, ErroreVero
<1>1. lavoro \in {"assente", "finito"}
  <2>1. CASE pc = "fine"
    BY <2>1 DEF InvPy, Insieme
  <2>2. CASE pc # "fine"
    <3>1. pc = "scartata"
      BY <2>2 DEF Concluso, InvPy, Insieme
    <3> QED
      BY <3>1 DEF InvPy, Insieme, PrimaDelLavoro
  <2> QED
    BY <2>1, <2>2
<1>2. PICK f : f = Finale
  OBVIOUS
<1>3. EsitoVero(f) \/ EccezioneVera(f)
  BY <1>2, RispostaVera
<1>4. CASE f = Riuscita /\ scritti = ch.uscite
  <2>1. ErroreReso = Nessuna
    BY <1>2, <1>4 DEF ErroreReso, Riuscita
  <2> QED
    BY <1>1, <1>2, <1>4, <2>1
<1>5. CASE f.tipo = "errore" /\ f = Plenora(f.errore) /\ ErroreVero(f.errore)
  <2>1. ErroreReso = f.errore
    BY <1>2, <1>5 DEF ErroreReso
  <2>2. f # Riuscita /\ f.errore # Nessuna
    BY <1>5, FormeDellaRisposta, ErroreEsiste
  <2> QED
    BY <1>1, <1>2, <1>5, <2>1, <2>2
<1>6. CASE f = Eccezione(Nessuna) /\ (scritti = 0 \/ canale = Chiuso)
  <2>1. f.tipo = "eccezione" /\ f.causa = Nessuna /\ f # Riuscita
    BY <1>6, FormeDellaRisposta
  <2>2. ErroreReso = Nessuna
    BY <1>2, <2>1 DEF ErroreReso
  <2> QED
    BY <1>1, <1>2, <1>6, <2>1, <2>2
<1>7. CASE f.tipo = "eccezione" /\ f = Eccezione(f.causa) /\ ErroreVero(f.causa)
  <2>1. ErroreReso = f.causa
    BY <1>2, <1>7 DEF ErroreReso
  <2>2. f # Riuscita /\ f.causa # Nessuna
    BY <1>7, FormeDellaRisposta, ErroreEsiste
  <2> QED
    BY <1>1, <1>2, <1>7, <2>1, <2>2
<1> QED
  BY <1>3, <1>4, <1>5, <1>6, <1>7 DEF EsitoVero, EccezioneVera

\* The caller learns the true effect of the call, whatever races, and no thread goes on
\* writing behind an answered call: the joins and causes of `esegui` and of _in_thread.
THEOREM EffettoSempreAlChiamante == Spec => []EffettoAlChiamante
  BY InvarianteDellaChiamata, EffettoDallInvariante, PTL

-----------------------------------------------------------------------------
(* The cancellation *)

\* What the steps other than the caller's do to what the caller sees.
LEMMA AltriPassi ==
    ASSUME InvPy, Lavoratore \/ Ciclo \/ Mondo \/ UNCHANGED vars
    PROVE  /\ UNCHANGED <<ch, segnale, risposta>>
           /\ gettone => gettone'
           /\ ctrlC => ctrlC'
           /\ interno => interno'
           /\ \/ UNCHANGED pc
              \/ pc = "coda" /\ pc' \in {"verifica", "scartata"}
           /\ \/ UNCHANGED reso
              \/ pc = "fine" /\ reso' = risposta
              \/ reso' # Riuscita
<1>1. CASE Lavoratore
  BY <1>1 DEF Lavoratore, LavoroVerifica, LavoroCalcola, LavoroScrive, LavoroCanonico,
              LavoroFinisce, LavoroFallisce, LavoroPanico, LavoroTermina, resto
<1>2. CASE PrendeInCarico \/ FuturoAnnullato \/ AnnullaTask
  BY <1>2 DEF PrendeInCarico, FuturoAnnullato, AnnullaTask, nativo, compito
<1>3. CASE TaskRiceve
  BY <1>3 DEF TaskRiceve, nativo
<1>4. CASE TaskSiFerma
  <2>1. /\ UNCHANGED <<ch, segnale, risposta, gettone, ctrlC, interno, pc>>
        /\ \E c : reso' = Eccezione(c)
    BY <1>4 DEF TaskSiFerma, nativo
  <2> QED
    BY <2>1, FormeDellaRisposta
<1>5. CASE AlzaGettone \/ PremeCtrlC \/ Scade
  BY <1>5 DEF AlzaGettone, PremeCtrlC, Scade, attori
<1>6. CASE UNCHANGED vars
  BY <1>6 DEF vars
<1> QED
  BY <1>1, <1>2, <1>3, <1>4, <1>5, <1>6 DEF Ciclo, Mondo

\* What a step of the caller's thread does to the tokens and to the task.
LEMMA PassiDelChiamante ==
    ASSUME InvPy, Chiamante
    PROVE  /\ UNCHANGED <<ch, gettone, interno, task, reso>>
           /\ pc # "fine"
  BY DEF Chiamante, Verifica, VerificaSegnali, VerificaInterruzione, Prepara, Avvia,
         Intervallo, IntervalloSegnali, Ferma, RiceveErrore, RiceveSuccesso,
         ConsegnaSegnali, Consegna, Riunisce, segnali, compito

\* A success reaches the task only from an answered call.
ResoDallaFine == pc # "fine" => reso # Riuscita

LEMMA ResoConservato ==
    ASSUME InvPy, ResoDallaFine, [Next]_vars
    PROVE  ResoDallaFine'
<1>1. CASE Chiamante
  BY <1>1, PassiDelChiamante DEF ResoDallaFine
<1>2. CASE Lavoratore \/ Ciclo \/ Mondo \/ UNCHANGED vars
  BY <1>2, AltriPassi DEF ResoDallaFine
<1> QED
  BY <1>1, <1>2 DEF Next, Finito

\* How the caller's thread moves: a success is answered only from `consegna`, with the
\* flag down; the delivery begins with the tokens; a signal found pending is answered.
LEMMA CamminoDelChiamante ==
    ASSUME InvPy, Chiamante
    PROVE  \/ /\ pc' \notin InConsegna \cup {"riunisce", "fine"}
              /\ pc \notin InConsegna \cup {"riunisce", "fine"}
              /\ \/ UNCHANGED ctrlC
                 \/ pc' = "ferma"
              /\ pc # "ferma" \/ pc' = "ferma"
           \/ pc = "aspetta" /\ pc' = "consegna_segnali" /\ trasferisci /\ UNCHANGED ctrlC
           \/ /\ pc = "consegna_segnali" /\ pc' = "consegna" /\ UNCHANGED <<segnale, ctrlC>>
              /\ ~ ctrlC
           \/ pc = "consegna" /\ pc' = "riunisce" /\ (segnale => risposta' # Riuscita)
           \/ pc = "riunisce" /\ pc' = "fine" /\ (risposta # Riuscita => risposta' # Riuscita)
           \/ /\ pc \notin {"consegna", "riunisce", "fine"} /\ pc' \in {"riunisce", "fine"}
              /\ risposta' # Riuscita
<1>1. CASE Verifica \/ Intervallo \/ RiceveSuccesso
  BY <1>1 DEF Verifica, Intervallo, RiceveSuccesso, Va, segnali, InConsegna
<1>2. CASE VerificaSegnali \/ IntervalloSegnali \/ ConsegnaSegnali
  <2>1. CASE ctrlC
    BY <1>2, <2>1, FormeDellaRisposta
       DEF VerificaSegnali, IntervalloSegnali, ConsegnaSegnali, Va, Risponde, Esce, InConsegna
  <2>2. CASE ~ ctrlC
    BY <1>2, <2>2 DEF VerificaSegnali, IntervalloSegnali, ConsegnaSegnali, Va, InConsegna
  <2> QED
    BY <2>1, <2>2
<1>3. CASE VerificaInterruzione
  <2>1. CASE segnale \/ scaduto
    BY <1>3, <2>1, FormeDellaRisposta DEF VerificaInterruzione, Risponde
  <2>2. CASE ~ (segnale \/ scaduto)
    BY <1>3, <2>2 DEF VerificaInterruzione, Va, segnali, InConsegna
  <2> QED
    BY <2>1, <2>2
<1>4. ASSUME NEW guasto \in Guasti, Prepara(guasto)
      PROVE  \/ /\ pc = "prepara" /\ pc' \in {"verifica", "avvia"} /\ UNCHANGED ctrlC
             \/ pc = "prepara" /\ pc' = "fine" /\ risposta' # Riuscita
  <2>1. CASE guasto # "nessuno"
    BY <1>4, <2>1, FormeDellaRisposta DEF Prepara, Risponde
  <2>2. CASE guasto = "nessuno"
    BY <1>4, <2>2 DEF Prepara, Va, segnali
  <2> QED
    BY <2>1, <2>2
<1>5. ASSUME NEW parte \in BOOLEAN, Avvia(parte)
      PROVE  \/ pc = "avvia" /\ pc' = "aspetta" /\ UNCHANGED ctrlC
             \/ pc = "avvia" /\ pc' = "fine" /\ risposta' # Riuscita
  <2>1. CASE parte
    BY <1>5, <2>1 DEF Avvia, Va, segnali
  <2>2. CASE ~ parte
    BY <1>5, <2>2, FormeDellaRisposta DEF Avvia, Risponde
  <2> QED
    BY <2>1, <2>2
<1>6. CASE Ferma
  <2>1. pc = "ferma" /\ pc' = "riunisce" /\ \E c : risposta' = Eccezione(c)
    BY <1>6 DEF Ferma, Esce
  <2> QED
    BY <2>1, FormeDellaRisposta
<1>7. CASE RiceveErrore
  <2>1. /\ pc = "aspetta" /\ pc' = "riunisce" /\ canale # Riuscita
        /\ risposta' = IF canale = Chiuso THEN Plenora(panico) ELSE canale
    BY <1>7 DEF RiceveErrore, Esce
  <2>2. risposta' # Riuscita
    BY <2>1, FormeDellaRisposta
  <2> QED
    BY <2>1, <2>2
<1>8. CASE Consegna
  <2>1. /\ pc = "consegna" /\ pc' = "riunisce"
        /\ risposta' = IF segnale THEN Plenora(annullato_alla_consegna) ELSE Riuscita
    BY <1>8 DEF Consegna, Esce
  <2> QED
    BY <2>1, FormeDellaRisposta
<1>9. ASSUME NEW guasto \in BOOLEAN, Riunisce(guasto)
      PROVE  pc = "riunisce" /\ pc' = "fine" /\ (risposta # Riuscita => risposta' # Riuscita)
  BY <1>9, FormeDellaRisposta DEF Riunisce
<1>10. CASE \E guasto \in Guasti : Prepara(guasto)
  BY <1>4, <1>10 DEF InConsegna
<1>11. CASE \E parte \in BOOLEAN : Avvia(parte)
  BY <1>5, <1>11 DEF InConsegna
<1>12. CASE \E guasto \in BOOLEAN : Riunisce(guasto)
  BY <1>9, <1>12
<1> QED
  BY <1>1, <1>2, <1>3, <1>6, <1>7, <1>8, <1>10, <1>11, <1>12 DEF Chiamante

LEMMA SegnaleConservato ==
    ASSUME InvPy, SegnaleInVista, [Next]_vars
    PROVE  SegnaleInVista'
<1>1. CASE Chiamante
  <2>1. ch' = ch
    BY <1>1, PassiDelChiamante
  <2> QED
    BY <1>1, <2>1, CamminoDelChiamante DEF SegnaleInVista, InConsegna
<1>2. CASE Lavoratore \/ Ciclo \/ Mondo \/ UNCHANGED vars
  BY <1>2, AltriPassi DEF SegnaleInVista
<1> QED
  BY <1>1, <1>2 DEF Next, Finito

LEMMA GettoneConservato ==
    ASSUME InvPy, GettoneInVista, [Next]_vars
    PROVE  GettoneInVista'
<1>1. CASE Chiamante
  <2>1. gettone' /\ reso' # Riuscita
    BY <1>1, PassiDelChiamante DEF GettoneInVista
  <2>2. trasferisci => segnale'
    BY DEF trasferisci, GettoneInVista
  <2> QED
    BY <1>1, <2>1, <2>2, CamminoDelChiamante DEF GettoneInVista, InConsegna
<1>2. CASE Lavoratore \/ Ciclo \/ Mondo \/ UNCHANGED vars
  BY <1>2, AltriPassi DEF GettoneInVista, InConsegna
<1> QED
  BY <1>1, <1>2 DEF Next, Finito

LEMMA AvvioConservato ==
    ASSUME InvPy, GettoneDAvvio, [Next]_vars
    PROVE  GettoneDAvvio'
<1>0. gettone /\ lavoro = "assente" /\ scritti = 0
  BY DEF GettoneDAvvio
<1>1. CASE Verifica
  <2>1. pc = "verifica" /\ pc' = "verifica_segnali" /\ UNCHANGED <<gettone, lavoro, scritti>>
    BY <1>1 DEF Verifica, Va, segnali
  <2>2. segnale'
    BY <1>0, <1>1 DEF Verifica, trasferisci
  <2> QED
    BY <1>0, <2>1, <2>2 DEF GettoneDAvvio
<1>2. CASE VerificaSegnali
  <2>1. /\ pc = "verifica_segnali" /\ pc' \in {"fine", "verifica_interruzione"}
        /\ UNCHANGED <<gettone, lavoro, scritti>>
        /\ pc' = "verifica_interruzione" => UNCHANGED segnale
    BY <1>2 DEF VerificaSegnali, Va, Risponde
  <2>2. segnale
    BY <2>1 DEF GettoneDAvvio
  <2>3. CASE pc' = "fine"
    BY <1>0, <2>1, <2>3 DEF GettoneDAvvio
  <2>4. CASE pc' = "verifica_interruzione"
    <3>1. segnale'
      BY <2>1, <2>2, <2>4
    <3> QED
      BY <1>0, <2>1, <2>4, <3>1 DEF GettoneDAvvio
  <2> QED
    BY <2>1, <2>3, <2>4
<1>3. CASE VerificaInterruzione
  <2>1. pc = "verifica_interruzione" /\ segnale
    BY <1>3 DEF VerificaInterruzione, GettoneDAvvio
  <2>2. pc' = "fine" /\ UNCHANGED <<gettone, lavoro, scritti>>
    BY <1>3, <2>1 DEF VerificaInterruzione, Risponde, segnali
  <2> QED
    BY <1>0, <2>2 DEF GettoneDAvvio
<1>4. CASE Chiamante /\ ~ Verifica /\ ~ VerificaSegnali /\ ~ VerificaInterruzione
  <2>1. pc \in InAttesa \cup InConsegna \cup {"prepara", "avvia", "riunisce"}
    BY <1>4 DEF Chiamante, Prepara, Avvia, Intervallo, IntervalloSegnali, Ferma, RiceveErrore,
                RiceveSuccesso, ConsegnaSegnali, Consegna, Riunisce, InAttesa, InConsegna
  <2> QED
    BY <2>1 DEF GettoneDAvvio, InAttesa, InConsegna
<1>5. ~ Lavoratore
  BY <1>0 DEF Lavoratore, LavoroVerifica, LavoroCalcola, LavoroScrive, LavoroCanonico,
              LavoroFinisce, LavoroFallisce, LavoroPanico, LavoroTermina
<1>6. CASE Ciclo \/ Mondo \/ UNCHANGED vars
  <2>1. UNCHANGED <<lavoro, scritti>>
    BY <1>6 DEF Ciclo, Mondo, PrendeInCarico, TaskRiceve, TaskSiFerma, AnnullaTask,
                FuturoAnnullato, AlzaGettone, PremeCtrlC, Scade, attori, nativo, vars
  <2> QED
    BY <1>0, <1>6, <2>1, AltriPassi DEF GettoneDAvvio
<1> QED
  BY <1>1, <1>2, <1>3, <1>4, <1>5, <1>6 DEF Next, Finito

LEMMA InternoConservato ==
    ASSUME InvPy, interno, [Next]_vars
    PROVE  interno'
<1>1. CASE Chiamante
  BY <1>1, PassiDelChiamante
<1>2. CASE Lavoratore \/ Ciclo \/ Mondo \/ UNCHANGED vars
  BY <1>2, AltriPassi
<1> QED
  BY <1>1, <1>2 DEF Next, Finito

\* A cancellation that is up before the delivery begins is never answered with a
\* success, and a token up before the call starts lets it write nothing: the checks of
\* `verifica`, the loop of `esegui` and the waiting of _in_thread.
THEOREM AnnullamentoSempreDetto == Spec => AnnullamentoMaiTaciuto
<1>1. Init => ResoDallaFine
  BY FormeDellaRisposta DEF Init, ResoDallaFine
<1>2. InvPy /\ ResoDallaFine /\ [Next]_vars => ResoDallaFine'
  BY ResoConservato
<1>3. InvPy /\ interno /\ [Next]_vars => interno'
  BY InternoConservato
<1>4. InvPy /\ SegnaleInVista /\ [Next]_vars => SegnaleInVista'
  BY SegnaleConservato
<1>5. InvPy /\ GettoneInVista /\ [Next]_vars => GettoneInVista'
  BY GettoneConservato
<1>6. InvPy /\ GettoneDAvvio /\ [Next]_vars => GettoneDAvvio'
  BY AvvioConservato
<1>7. InvPy /\ interno => Finale # Riuscita
  <2> SUFFICES ASSUME InvPy, interno PROVE Finale # Riuscita
    OBVIOUS
  <2>1. ch.asincrona /\ reso # Riuscita
    BY Chiamata DEF InvPy, TipiPy, Risultati
  <2> QED
    BY <2>1 DEF Finale
<1>8. InvPy /\ SegnaleInVista => Finale # Riuscita
  <2> SUFFICES ASSUME InvPy, SegnaleInVista PROVE Finale # Riuscita
    OBVIOUS
  <2>1. Finale = risposta
    BY DEF SegnaleInVista, Finale
  <2>2. CASE pc \in {"riunisce", "fine"}
    BY <2>1, <2>2 DEF SegnaleInVista
  <2>3. CASE pc \notin {"riunisce", "fine"}
    BY <2>1, <2>3, FormeDellaRisposta DEF InvPy, Risultati
  <2> QED
    BY <2>2, <2>3
<1>9. InvPy /\ GettoneInVista => Finale # Riuscita
  <2> SUFFICES ASSUME InvPy, GettoneInVista PROVE risposta # Riuscita /\ reso # Riuscita
    BY DEF Finale
  <2>1. CASE pc \in {"riunisce", "fine"}
    BY <2>1 DEF GettoneInVista, InConsegna
  <2>2. CASE pc \notin {"riunisce", "fine"}
    BY <2>2, FormeDellaRisposta DEF InvPy, Risultati, GettoneInVista
  <2> QED
    BY <2>1, <2>2
<1>10. GettoneDAvvio => scritti = 0
  BY DEF GettoneDAvvio
<1>11. InvPy => (ctrlC /\ pc \notin {"consegna", "riunisce", "fine"} => SegnaleInVista)
  BY DEF InvPy, Insieme, SegnaleInVista
<1>12. InvPy /\ ResoDallaFine =>
         (gettone /\ pc \notin {"consegna_segnali", "consegna", "riunisce", "fine"}
            => GettoneInVista)
  BY DEF GettoneInVista, InConsegna, ResoDallaFine
<1>13. InvPy => (gettone /\ pc \in {"coda", "verifica"} => GettoneDAvvio)
  BY DEF InvPy, Insieme, PrimaDelLavoro, GettoneDAvvio
<1> QED
  BY <1>1, <1>2, <1>3, <1>4, <1>5, <1>6, <1>7, <1>8, <1>9, <1>10, <1>11, <1>12, <1>13,
     InvarianteDellaChiamata, PTL
     DEF Spec, AnnullamentoMaiTaciuto
=============================================================================
