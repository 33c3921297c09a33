------------------------------ MODULE CliProofs ------------------------------
(***************************************************************************)
(* The panics and the effect that one run of the command line answers      *)
(* with, for every command and every number of outputs and barriers.       *)
(***************************************************************************)
EXTENDS InvocazioneCli, ErroriProofs

Punti == {"base", "gestore", "invocazione", "comando", "lavora", "canonico", "controllo",
          "consegna", "fine"}

TipiCli ==
    /\ cmd \in Comandi
    /\ pc \in Punti
    /\ panici \in Nat /\ base \in Nat /\ aperte \in Nat
    /\ scritti \in 0 .. cmd.uscite
    /\ gestore \in {"assente", "vivo", "morto"}
    /\ segnale \in BOOLEAN /\ fuori \in BOOLEAN
    /\ stdout \in {"niente", "parte", "intero"}

\* Until the final check the count has moved if and only if a thread has panicked
\* outside the barriers; before the base is read no other thread is there.
Conto ==
    /\ pc = "base" => gestore = "assente" /\ ~ fuori
    /\ pc \notin {"consegna", "fine"} => panici >= base /\ (fuori <=> panici # base)

\* Nothing is written before the command.
NienteScrittoPrima == pc \in {"base", "gestore", "invocazione"} => scritti = 0

\* What an error says of the outputs is true.
EffettoVero(e) ==
    LET x == remote_effect(e)
    IN /\ x = "none" => scritti = 0
       /\ x = "partial" => 0 < scritti
       /\ x = "committed" => TuttoScritto
       /\ e.causa \in Interruzioni => (x = "committed" <=> TuttoScritto)

\* An internal error is a panic, or a handler that was not installed.
InternoSpiegato(e) ==
    e.causa = "Internal" => fuori \/ (cmd.annullabile /\ gestore = "assente")

\* The envelope, from the end of the work on.
BustaVera ==
    pc \in {"controllo", "consegna", "fine"} =>
        \/ uscita = successo /\ scritti = cmd.uscite /\ (pc # "controllo" => ~ fuori)
        \/ /\ uscita.stato = "errore"
           /\ Forma(uscita.errore)
           /\ uscita = errore(uscita.errore)
           /\ EffettoVero(uscita.errore)
           /\ InternoSpiegato(uscita.errore)

\* The exit code is decided by the delivery.
CodiceVero ==
    /\ pc # "fine" => codice = InCorso
    /\ pc = "fine" =>
         codice = IF stdout = "intero" THEN uscita.codice ELSE CODICE_STDOUT_NON_SCRIVIBILE

InvCli == TipiCli /\ Conto /\ NienteScrittoPrima /\ BustaVera /\ CodiceVero


-----------------------------------------------------------------------------
(* Envelopes *)

LEMMA CodiciDiUscita ==
    ASSUME NEW c \in Cause
    PROVE  /\ codice_uscita(c) \in {2, 3, 4, 5, 6, 70, 130}
           /\ codice_uscita(c) = 70 => c = "Internal"
  BY DEF codice_uscita, Cause, CauseIo, CauseDiValidazione, Interruzioni

LEMMA BustaDErrore ==
    ASSUME NEW e, Forma(e)
    PROVE  /\ errore(e).stato = "errore"
           /\ errore(e).errore = e
           /\ errore(e) = errore(errore(e).errore)
           /\ errore(e).codice = codice_uscita(e.causa)
           /\ errore(e).codice \in {2, 3, 4, 5, 6, 70, 130}
           /\ errore(e).codice = 70 => e.causa = "Internal"
<1>1. e.causa \in Cause
  BY DEF Forma, Catene
<1>2. /\ codice_uscita(e.causa) \in {2, 3, 4, 5, 6, 70, 130}
      /\ codice_uscita(e.causa) = 70 => e.causa = "Internal"
  BY <1>1, CodiciDiUscita
<1> QED
  BY <1>2 DEF errore

LEMMA BustaDelPanico ==
    ASSUME cmd.uscite \in Nat
    PROVE  \E e : /\ panico = errore(e) /\ Forma(e)
                  /\ e.causa = "Internal"
                  /\ remote_effect(e) = IF con_effetti THEN "unknown" ELSE "none"
<1>1. /\ "Internal" \in Cause /\ "unknown" \in Effetti
  BY DEF Cause, Effetti
<1>2. /\ Forma(Nudo("Internal")) /\ remote_effect(Nudo("Internal")) = "none"
      /\ Nudo("Internal").causa = "Internal"
  BY <1>1, AssiDelNudo
<1>3. CASE con_effetti
  <2> DEFINE e == override_remote_effect(Nudo("Internal"), "unknown")
  <2>1. Forma(e) /\ remote_effect(e) = "unknown" /\ e.causa = "Internal"
    BY <1>1, <1>2, AssiSostituiti
  <2>2. panico = errore(e)
    BY <1>3 DEF panico
  <2> HIDE DEF e
  <2> QED
    BY <1>3, <2>1, <2>2
<1>4. CASE ~ con_effetti
  BY <1>2, <1>4 DEF panico
<1> QED
  BY <1>3, <1>4

-----------------------------------------------------------------------------
(* The steps *)

\* The step that gives an error to the final check.
LEMMA PassoConErrore ==
    ASSUME InvCli, pc \notin {"base", "gestore", "consegna", "fine"},
           NEW e, Forma(e), Rende(errore(e)),
           EffettoVero(e), InternoSpiegato(e)',
           UNCHANGED <<cmd, gestore, base, segnale, scritti>>,
           aperte' \in Nat, panici' \in Nat, fuori' \in BOOLEAN,
           panici' >= base, fuori' <=> panici' # base
    PROVE  InvCli'
<1>1. pc' = "controllo" /\ uscita' = errore(e) /\ UNCHANGED <<stdout, codice>>
  BY DEF Rende, Va
<1>2. TipiCli'
  BY <1>1 DEF InvCli, TipiCli, Punti
<1>3. Conto' /\ NienteScrittoPrima' /\ CodiceVero'
  BY <1>1 DEF InvCli, Conto, NienteScrittoPrima, CodiceVero
<1>4. EffettoVero(e)'
  BY DEF EffettoVero, TuttoScritto
<1>5. BustaVera'
  <2>1. errore(e).stato = "errore" /\ errore(e).errore = e
    BY BustaDErrore
  <2>2. uscita'.stato = "errore" /\ uscita'.errore = e
    BY <1>1, <2>1
  <2> QED
    BY <1>1, <1>4, <2>2 DEF BustaVera
<1> QED
  BY <1>2, <1>3, <1>5 DEF InvCli


\* The step that goes on with the command.
LEMMA PassoNelComando ==
    ASSUME InvCli, pc \in {"invocazione", "comando", "lavora", "canonico"},
           pc' \in {"comando", "lavora", "canonico"},
           UNCHANGED <<cmd, osservati, base, segnale, fine>>,
           aperte' \in Nat, scritti' \in 0 .. cmd.uscite
    PROVE  InvCli'
<1>1. UNCHANGED <<panici, gestore, fuori, uscita, stdout, codice>>
  BY DEF osservati, fine
<1>2. TipiCli'
  BY <1>1 DEF InvCli, TipiCli, Punti
<1>3. Conto' /\ NienteScrittoPrima' /\ CodiceVero'
  BY <1>1 DEF InvCli, Conto, NienteScrittoPrima, CodiceVero
<1>4. BustaVera'
  BY DEF BustaVera
<1> QED
  BY <1>2, <1>3, <1>4 DEF InvCli

\* An error that declares nothing is true when nothing is written.
LEMMA ErroreSenzaEffetto ==
    ASSUME NEW e, remote_effect(e) = "none", scritti = 0
    PROVE  EffettoVero(e)
  BY DEF EffettoVero, TuttoScritto

\* What `esegui_ingressi` adds to the errors of the writing makes them true: `partial`
\* to any error but an interruption, and to an interruption before the last output.
LEMMA ErroreDellaScrittura ==
    ASSUME InvCli, NEW e, Forma(e), remote_effect(e) \in {"none", "unknown"},
           e.causa \in Interruzioni => ~ TuttoScritto /\ remote_effect(e) = "none"
    PROVE  LET g == IF scritti = 0 THEN e ELSE with_remote_effect(e, "partial")
           IN Forma(g) /\ EffettoVero(g) /\ g.causa = e.causa
<1>0. scritti \in Nat /\ "partial" \in Effetti
  BY ComandiAssunti DEF InvCli, TipiCli, Effetti
<1>1. CASE scritti = 0
  BY <1>1 DEF EffettoVero, TuttoScritto
<1>2. CASE scritti # 0
  <2> DEFINE g == with_remote_effect(e, "partial")
  <2>1. /\ Forma(g) /\ g.causa = e.causa
        /\ remote_effect(g) = IF remote_effect(e) = "none" THEN "partial"
                              ELSE remote_effect(e)
    BY <1>0, AssiConEffetto
  <2> HIDE DEF g
  <2>2. 0 < scritti
    BY <1>0, <1>2
  <2>3. remote_effect(g) \in {"partial", "unknown"}
    BY <2>1
  <2>4. EffettoVero(g)
    BY <2>1, <2>2, <2>3 DEF EffettoVero
  <2> QED
    BY <1>2, <2>1, <2>4 DEF g
<1> QED
  BY <1>1, <1>2

\* And so does what verifica_finale adds to an interruption.
LEMMA ErroreFinale ==
    ASSUME InvCli, NEW e, Forma(e), remote_effect(e) = "none", scritti = cmd.uscite
    PROVE  LET g == IF scritti = 0 THEN e ELSE with_remote_effect(e, "committed")
           IN Forma(g) /\ EffettoVero(g) /\ g.causa = e.causa
<1>0. scritti \in Nat /\ "committed" \in Effetti
  BY ComandiAssunti DEF InvCli, TipiCli, Effetti
<1>1. CASE scritti = 0
  BY <1>1, ErroreSenzaEffetto
<1>2. CASE scritti # 0
  <2> DEFINE g == with_remote_effect(e, "committed")
  <2>1. Forma(g) /\ g.causa = e.causa /\ remote_effect(g) = "committed"
    BY <1>0, AssiConEffetto
  <2> HIDE DEF g
  <2>2. TuttoScritto
    BY <1>0, <1>2 DEF TuttoScritto
  <2>3. EffettoVero(g)
    BY <2>1, <2>2 DEF EffettoVero
  <2> QED
    BY <1>2, <2>1, <2>3 DEF g
<1> QED
  BY <1>1, <1>2

LEMMA InvCliConservato ==
    ASSUME InvCli, [Next]_vars
    PROVE  InvCli'
<1>0. /\ cmd \in Comandi /\ cmd.uscite \in Nat /\ cmd.utf8 \in BOOLEAN
      /\ cmd.annullabile \in BOOLEAN /\ cmd.leggibile \in BOOLEAN
      /\ panici \in Nat /\ base \in Nat /\ aperte \in Nat
      /\ scritti \in 0 .. cmd.uscite /\ scritti \in Nat
      /\ fuori \in BOOLEAN /\ pc \in Punti
  BY ComandiAssunti DEF InvCli, TipiCli
<1>1. CASE LeggeBase
  <2>1. /\ pc = "base" /\ pc' = "gestore" /\ base' = panici
        /\ UNCHANGED <<cmd, panici, gestore, fuori, aperte, segnale, scritti, uscita,
                       stdout, codice>>
    BY <1>1 DEF LeggeBase, Va, osservati, fine
  <2>2. TipiCli'
    BY <1>0, <2>1 DEF InvCli, TipiCli, Punti
  <2>3. Conto'
    BY <1>0, <2>1 DEF InvCli, Conto
  <2>4. NienteScrittoPrima' /\ BustaVera' /\ CodiceVero'
    BY <2>1 DEF InvCli, NienteScrittoPrima, BustaVera, CodiceVero
  <2> QED
    BY <2>2, <2>3, <2>4 DEF InvCli
<1>2. ASSUME NEW b \in BOOLEAN, InstallaGestore(b) PROVE InvCli'
  <2>1. /\ pc = "gestore" /\ gestore' \in {"vivo", "assente"}
        /\ pc' = IF cmd.utf8 THEN "invocazione" ELSE "consegna"
        /\ uscita' = IF cmd.utf8 THEN uscita ELSE errore(Nudo("InvalidConfiguration"))
        /\ UNCHANGED <<cmd, panici, fuori, base, aperte, segnale, scritti, stdout, codice>>
    BY <1>2 DEF InstallaGestore, Va
  <2>2. scritti = 0
    BY <2>1 DEF InvCli, NienteScrittoPrima
  <2>3. TipiCli'
    BY <1>0, <2>1 DEF InvCli, TipiCli, Punti
  <2>4. Conto' /\ NienteScrittoPrima' /\ CodiceVero'
    BY <1>0, <2>1, <2>2 DEF InvCli, Conto, NienteScrittoPrima, CodiceVero
  <2>5. BustaVera'
    <3>1. CASE cmd.utf8
      BY <2>1, <3>1 DEF BustaVera
    <3>2. CASE ~ cmd.utf8
      <4> DEFINE e == Nudo("InvalidConfiguration")
      <4>1. Forma(e) /\ e.causa = "InvalidConfiguration" /\ remote_effect(e) = "none"
        <5>1. "InvalidConfiguration" \in Cause
          BY DEF Cause
        <5> QED
          BY <5>1, AssiDelNudo
      <4>2. errore(e).stato = "errore" /\ errore(e).errore = e
        BY <4>1, BustaDErrore
      <4>3. pc' = "consegna" /\ uscita' = errore(e)
        BY <2>1, <3>2
      <4> HIDE DEF e
      <4>4. uscita'.stato = "errore" /\ uscita'.errore = e
        BY <4>2, <4>3
      <4>5. EffettoVero(e)' /\ InternoSpiegato(e)'
        BY <2>1, <2>2, <4>1 DEF EffettoVero, TuttoScritto, InternoSpiegato
      <4> QED
        BY <4>1, <4>3, <4>4, <4>5 DEF BustaVera
    <3> QED
      BY <1>0, <3>1, <3>2
  <2> QED
    BY <2>3, <2>4, <2>5 DEF InvCli
<1>3. CASE Invocazione
  <2>1. /\ pc = "invocazione" /\ scritti = 0
        /\ UNCHANGED <<cmd, osservati, base, aperte, segnale, scritti>>
        /\ UNCHANGED <<panici, gestore, fuori>>
    BY <1>3 DEF Invocazione, osservati, InvCli, NienteScrittoPrima
  <2>2. panici >= base /\ (fuori <=> panici # base)
    BY <2>1 DEF InvCli, Conto
  <2>3. ASSUME NEW e, Forma(e), Rende(errore(e)), remote_effect(e) = "none",
               InternoSpiegato(e)
        PROVE  InvCli'
    <3>1. EffettoVero(e)
      BY <2>1, <2>3, ErroreSenzaEffetto
    <3>2. InternoSpiegato(e)'
      BY <2>1, <2>3 DEF InternoSpiegato
    <3> QED
      BY <1>0, <2>1, <2>2, <2>3, <3>1, <3>2, PassoConErrore
  <2>4. CASE ~ cmd.leggibile
    <3> DEFINE e == Nudo("InvalidConfiguration")
    <3>1. Rende(errore(e))
      BY <1>3, <2>4 DEF Invocazione
    <3>2. Forma(e) /\ remote_effect(e) = "none" /\ e.causa = "InvalidConfiguration"
      <4>1. "InvalidConfiguration" \in Cause
        BY DEF Cause
      <4> QED
        BY <4>1, AssiDelNudo
    <3> HIDE DEF e
    <3>3. InternoSpiegato(e)
      BY <3>2 DEF InternoSpiegato
    <3> QED
      BY <2>3, <3>1, <3>2, <3>3
  <2>5. CASE cmd.leggibile /\ cmd.annullabile /\ gestore = "assente"
    <3> DEFINE e == with_phase(Nudo("Internal"), "validate")
    <3>1. Rende(errore(e))
      BY <1>3, <2>5 DEF Invocazione
    <3>2. Forma(e) /\ remote_effect(e) = "none"
      <4>1. "Internal" \in Cause /\ "validate" \in Fasi
        BY DEF Cause, Fasi
      <4> QED
        BY <4>1, ErroreConFase
    <3> HIDE DEF e
    <3>3. InternoSpiegato(e)
      BY <2>5 DEF InternoSpiegato
    <3> QED
      BY <2>3, <3>1, <3>2, <3>3
  <2>6. CASE cmd.leggibile /\ ~ (cmd.annullabile /\ gestore = "assente")
    <3>1. pc' = "comando" /\ UNCHANGED fine
      BY <1>3, <2>6 DEF Invocazione, Va
    <3> QED
      BY <1>0, <2>1, <3>1, PassoNelComando
  <2> QED
    BY <1>0, <2>4, <2>5, <2>6
<1>4. ASSUME pc \in {"comando", "lavora", "canonico"},
             NEW e, Forma(e), EffettoVero(e), e.causa # "Internal", Rende(errore(e)),
             UNCHANGED <<cmd, osservati, base, segnale, scritti>>, aperte' \in Nat
      PROVE  InvCli'
  <2>1. InternoSpiegato(e)'
    BY <1>4 DEF InternoSpiegato
  <2>2. panici >= base /\ (fuori <=> panici # base)
    BY <1>4 DEF InvCli, Conto
  <2>3. UNCHANGED <<panici, gestore, fuori>>
    BY <1>4 DEF osservati
  <2> QED
    BY <1>0, <1>4, <2>1, <2>2, <2>3, PassoConErrore
<1>5. ASSUME pc \in {"comando", "lavora", "canonico"},
              NEW d, Forma(d), remote_effect(d) \in {"none", "unknown"},
              d.causa # "Internal", RendeScrittura(d),
              d.causa \in Interruzioni => ~ TuttoScritto /\ remote_effect(d) = "none",
              UNCHANGED <<cmd, osservati, base, segnale, scritti>>, aperte' \in Nat
       PROVE  InvCli'
  <2>1. PICK e : e = IF scritti = 0 THEN d ELSE with_remote_effect(d, "partial")
    OBVIOUS
  <2>2. Forma(e) /\ EffettoVero(e) /\ e.causa # "Internal" /\ Rende(errore(e))
    BY <1>5, <2>1, ErroreDellaScrittura DEF RendeScrittura
  <2> QED
    BY <1>4, <1>5, <2>2
<1>6. ASSUME NEW b \in BOOLEAN, Verifica(b) PROVE InvCli'
  <2>1. pc = "comando" /\ UNCHANGED <<cmd, osservati, base, aperte, segnale, scritti>>
    BY <1>6 DEF Verifica
  <2> DEFINE c == IF segnale THEN "Cancelled" ELSE "Timeout"
  <2>2. c \in Cause /\ c # "Internal" /\ "write" \in Fasi /\ "finalize" \in Fasi
    BY DEF Cause, Interruzioni, Fasi
  <2>3. CASE ~ (cmd.annullabile /\ (segnale \/ b))
    <3>1. pc' = "lavora" /\ UNCHANGED fine
      BY <1>6, <2>3 DEF Verifica, Va
    <3> QED
      BY <1>0, <2>1, <3>1, PassoNelComando
  <2>4. CASE cmd.annullabile /\ (segnale \/ b) /\ scritti < cmd.uscite
    <3> DEFINE d == with_phase(Nudo(c), "write")
    <3>1. RendeScrittura(d)
      BY <1>6, <2>4 DEF Verifica
    <3> HIDE DEF c
    <3>2. Forma(d) /\ d.causa = c /\ remote_effect(d) = "none"
      BY <2>2, ErroreConFase
    <3>3. ~ TuttoScritto
      BY <1>0, <2>4 DEF TuttoScritto
    <3> HIDE DEF d
    <3> QED
      BY <1>0, <1>5, <2>1, <2>2, <3>1, <3>2, <3>3
  <2>5. CASE cmd.annullabile /\ (segnale \/ b) /\ ~ (scritti < cmd.uscite)
    <3> DEFINE d == with_phase(Nudo(c), "finalize")
    <3>1. RendeFinale(d)
      BY <1>6, <2>5 DEF Verifica
    <3> HIDE DEF c
    <3>2. Forma(d) /\ d.causa = c /\ remote_effect(d) = "none"
      BY <2>2, ErroreConFase
    <3>3. scritti = cmd.uscite
      BY <1>0, <2>5
    <3> HIDE DEF d
    <3>4. PICK e : e = IF scritti = 0 THEN d ELSE with_remote_effect(d, "committed")
      OBVIOUS
    <3>5. Forma(e) /\ EffettoVero(e) /\ e.causa # "Internal" /\ Rende(errore(e))
      BY <2>2, <3>1, <3>2, <3>3, <3>4, ErroreFinale DEF RendeFinale
    <3> QED
      BY <1>0, <1>4, <2>1, <3>5
  <2> QED
    BY <2>3, <2>4, <2>5
<1>7. CASE Calcola
  <2>1. /\ pc = "lavora" /\ pc' = "comando"
        /\ UNCHANGED <<cmd, osservati, base, aperte, segnale, scritti, fine>>
    BY <1>7 DEF Calcola, Va
  <2> QED
    BY <1>0, <2>1, PassoNelComando
<1>8. CASE Scrive
  <2>1. /\ pc = "lavora" /\ pc' = "canonico" /\ scritti < cmd.uscite
        /\ scritti' = scritti + 1
        /\ UNCHANGED <<cmd, osservati, base, aperte, segnale, fine>>
    BY <1>8 DEF Scrive, Va
  <2>2. scritti' \in 0 .. cmd.uscite
    BY <1>0, <2>1
  <2> QED
    BY <1>0, <2>1, <2>2, PassoNelComando
<1>9. ASSUME NEW b \in BOOLEAN, Canonico(b) PROVE InvCli'
  <2>1. /\ pc = "canonico"
        /\ UNCHANGED <<cmd, osservati, base, aperte, segnale, scritti>>
    BY <1>9 DEF Canonico
  <2>2. CASE b
    <3> DEFINE d == Nudo("io_not_found")
    <3>1. RendeScrittura(d)
      BY <1>9, <2>2 DEF Canonico
    <3>2. "io_not_found" \in Cause \ (Interruzioni \cup {"Internal"})
      BY DEF Cause, CauseIo, Interruzioni
    <3>3. Forma(d) /\ d.causa = "io_not_found" /\ remote_effect(d) = "none"
      BY <3>2, AssiDelNudo
    <3> HIDE DEF d
    <3> QED
      BY <1>0, <1>5, <2>1, <3>1, <3>2, <3>3
  <2>3. CASE ~ b
    <3>1. pc' = "comando" /\ UNCHANGED fine
      BY <1>9, <2>3 DEF Canonico, Va
    <3> QED
      BY <1>0, <2>1, <3>1, PassoNelComando
  <2> QED
    BY <2>2, <2>3
<1>10. CASE Riesce
  <2>1. /\ pc = "lavora" /\ pc' = "controllo" /\ uscita' = successo
        /\ scritti = cmd.uscite
        /\ UNCHANGED <<cmd, panici, gestore, fuori, base, aperte, segnale, scritti, stdout,
                       codice>>
    BY <1>10 DEF Riesce, Rende, Va, osservati
  <2>2. TipiCli'
    BY <1>0, <2>1 DEF InvCli, TipiCli, Punti
  <2>3. Conto' /\ NienteScrittoPrima' /\ CodiceVero'
    BY <1>0, <2>1 DEF InvCli, Conto, NienteScrittoPrima, CodiceVero
  <2>4. BustaVera'
    BY <2>1 DEF BustaVera, successo
  <2> QED
    BY <2>2, <2>3, <2>4 DEF InvCli
<1>11. ASSUME NEW b \in BOOLEAN, Fallisce(b) PROVE InvCli'
  <2>1. /\ pc = "lavora" /\ UNCHANGED <<cmd, osservati, base, aperte, segnale, scritti>>
    BY <1>11 DEF Fallisce
  <2> DEFINE n == Nudo("io_transient")
             d == IF b THEN override_remote_effect(n, "unknown") ELSE n
  <2>2. RendeScrittura(d)
    BY <1>11 DEF Fallisce
  <2>3. /\ "io_transient" \in Cause \ (Interruzioni \cup {"Internal"})
        /\ "unknown" \in Effetti
    BY DEF Cause, CauseIo, Interruzioni, Effetti
  <2>4. Forma(n) /\ n.causa = "io_transient" /\ remote_effect(n) = "none"
    BY <2>3, AssiDelNudo
  <2>5. Forma(d) /\ d.causa = "io_transient" /\ remote_effect(d) \in {"none", "unknown"}
    <3> HIDE DEF n
    <3>1. CASE b
      BY <2>3, <2>4, <3>1, AssiSostituiti
    <3>2. CASE ~ b
      BY <2>4, <3>2
    <3> QED
      BY <3>1, <3>2
  <2> HIDE DEF d
  <2> QED
    BY <1>0, <1>5, <2>1, <2>2, <2>3, <2>5
<1>12. CASE ApreBarriera \/ ChiudeBarriera
  <2>1. /\ pc = "lavora" /\ pc' \in {"comando", "lavora"}
        /\ UNCHANGED <<cmd, osservati, base, segnale, scritti, fine>>
    BY <1>12 DEF ApreBarriera, ChiudeBarriera, Va
  <2>2. aperte' \in Nat
    BY <1>0, <1>12 DEF ApreBarriera, ChiudeBarriera
  <2> QED
    BY <1>0, <2>1, <2>2, PassoNelComando
<1>13. CASE PanicoNellaBarriera
  <2>1. /\ pc = "lavora" /\ UNCHANGED <<cmd, gestore, base, segnale, scritti>>
    BY <1>13 DEF PanicoNellaBarriera
  <2>2. aperte' \in Nat
    BY <1>0, <1>13 DEF PanicoNellaBarriera
  <2>3. UNCHANGED <<panici, fuori>>
    BY <1>0, <1>13 DEF PanicoNellaBarriera, registra_panico
  <2>4. UNCHANGED osservati
    BY <2>1, <2>3 DEF osservati
  <2>5. CASE aperte = 1
    <3> DEFINE d == with_phase(Nudo("DataMapping"), "read")
    <3>1. RendeScrittura(d)
      BY <1>13, <2>5 DEF PanicoNellaBarriera
    <3>2. "DataMapping" \in Cause \ (Interruzioni \cup {"Internal"}) /\ "read" \in Fasi
      BY DEF Cause, Interruzioni, Fasi
    <3>3. Forma(d) /\ d.causa = "DataMapping" /\ remote_effect(d) = "none"
      BY <3>2, ErroreConFase
    <3> HIDE DEF d
    <3> QED
      BY <1>5, <2>1, <2>2, <2>4, <3>1, <3>2, <3>3
  <2>6. CASE aperte # 1
    <3>1. UNCHANGED <<pc, fine>>
      BY <1>13, <2>6 DEF PanicoNellaBarriera
    <3> QED
      BY <1>0, <2>1, <2>2, <2>4, <3>1, PassoNelComando
  <2> QED
    BY <2>5, <2>6
<1>14. CASE Panico
  <2>1. /\ pc \in {"lavora", "canonico"}
        /\ UNCHANGED <<cmd, gestore, base, aperte, segnale, scritti>>
        /\ Rende(panico) /\ panici' = panici + 1 /\ fuori' = TRUE
    BY <1>14 DEF Panico, registra_panico
  <2>2. PICK e : /\ panico = errore(e) /\ Forma(e) /\ e.causa = "Internal"
                 /\ remote_effect(e) = IF con_effetti THEN "unknown" ELSE "none"
    BY <1>0, BustaDelPanico
  <2>3. EffettoVero(e) /\ InternoSpiegato(e)'
    BY <1>0, <2>1, <2>2 DEF EffettoVero, InternoSpiegato, con_effetti, Interruzioni
  <2>4. panici' \in Nat /\ panici' >= base /\ (fuori' <=> panici' # base)
    BY <1>0, <2>1 DEF InvCli, Conto
  <2> QED
    BY <1>0, <2>1, <2>2, <2>3, <2>4, PassoConErrore
<1>15. CASE Controllo
  <2>1. /\ pc = "controllo" /\ pc' = "consegna"
        /\ uscita' = IF uscita.codice = 0 /\ panici # base THEN panico ELSE uscita
        /\ UNCHANGED <<cmd, panici, gestore, fuori, base, aperte, segnale, scritti, stdout,
                       codice>>
    BY <1>15 DEF Controllo, Va, osservati
  <2>2. TipiCli'
    BY <1>0, <2>1 DEF InvCli, TipiCli, Punti
  <2>3. Conto' /\ NienteScrittoPrima' /\ CodiceVero'
    BY <1>0, <2>1 DEF InvCli, Conto, NienteScrittoPrima, CodiceVero
  <2>4. fuori <=> panici # base
    BY <2>1 DEF InvCli, Conto
  <2>5. CASE uscita.codice = 0 /\ panici # base
    <3>1. PICK e : /\ panico = errore(e) /\ Forma(e) /\ e.causa = "Internal"
                   /\ remote_effect(e) = IF con_effetti THEN "unknown" ELSE "none"
      BY <1>0, BustaDelPanico
    <3>2. uscita' = errore(e) /\ uscita'.stato = "errore" /\ uscita'.errore = e
      BY <2>1, <2>5, <3>1, BustaDErrore
    <3>3. EffettoVero(e)' /\ InternoSpiegato(e)'
      BY <1>0, <2>1, <2>4, <2>5, <3>1
         DEF EffettoVero, InternoSpiegato, con_effetti, Interruzioni
    <3>4. BustaVera'
      BY <2>1, <3>1, <3>2, <3>3 DEF BustaVera
    <3> QED
      BY <2>2, <2>3, <3>4 DEF InvCli
  <2>6. CASE ~ (uscita.codice = 0 /\ panici # base)
    <3>1. uscita' = uscita
      BY <2>1, <2>6
    <3>2. CASE uscita = successo /\ scritti = cmd.uscite
      <4>1. ~ fuori
        BY <2>4, <2>6, <3>2 DEF successo
      <4>2. BustaVera'
        BY <2>1, <3>1, <3>2, <4>1 DEF BustaVera, successo
      <4> QED
        BY <2>2, <2>3, <4>2 DEF InvCli
    <3>3. CASE ~ (uscita = successo /\ scritti = cmd.uscite)
      <4>1. /\ uscita.stato = "errore" /\ Forma(uscita.errore)
            /\ uscita = errore(uscita.errore)
            /\ EffettoVero(uscita.errore) /\ InternoSpiegato(uscita.errore)
        BY <2>1, <3>3 DEF InvCli, BustaVera
      <4>2. EffettoVero(uscita.errore)' /\ InternoSpiegato(uscita.errore)'
        BY <2>1, <3>1, <4>1 DEF EffettoVero, TuttoScritto, InternoSpiegato
      <4>3. BustaVera'
        BY <2>1, <3>1, <4>1, <4>2 DEF BustaVera
      <4> QED
        BY <2>2, <2>3, <4>3 DEF InvCli
    <3> QED
      BY <3>2, <3>3
  <2> QED
    BY <2>5, <2>6
<1>16. ASSUME NEW fatto \in {"niente", "parte", "intero"}, Scrittura(fatto)
       PROVE  InvCli'
  <2>1. /\ pc = "consegna" /\ pc' = "fine" /\ stdout' = fatto
        /\ codice' = IF fatto = "intero" THEN uscita.codice
                     ELSE CODICE_STDOUT_NON_SCRIVIBILE
        /\ UNCHANGED <<cmd, panici, gestore, fuori, base, aperte, segnale, scritti, uscita>>
    BY <1>16 DEF Scrittura, Va, osservati
  <2>2. TipiCli'
    BY <1>0, <2>1 DEF InvCli, TipiCli, Punti
  <2>3. Conto' /\ NienteScrittoPrima' /\ CodiceVero'
    BY <1>0, <2>1 DEF InvCli, Conto, NienteScrittoPrima, CodiceVero
  <2>4. BustaVera'
    BY <2>1 DEF InvCli, BustaVera, EffettoVero, TuttoScritto, InternoSpiegato, successo
  <2> QED
    BY <2>2, <2>3, <2>4 DEF InvCli
<1>17. CASE CtrlC
  <2>1. /\ segnale' = TRUE
        /\ UNCHANGED <<cmd, pc, panici, gestore, fuori, base, aperte, scritti, uscita, stdout,
                       codice>>
    BY <1>17 DEF CtrlC, osservati, fine
  <2>2. TipiCli'
    BY <1>0, <2>1 DEF InvCli, TipiCli, Punti
  <2>3. Conto' /\ NienteScrittoPrima' /\ CodiceVero'
    BY <1>0, <2>1 DEF InvCli, Conto, NienteScrittoPrima, CodiceVero
  <2>4. BustaVera'
    BY <2>1 DEF InvCli, BustaVera, EffettoVero, TuttoScritto, InternoSpiegato, successo
  <2> QED
    BY <2>2, <2>3, <2>4 DEF InvCli
<1>18. CASE GestorePanico
  <2>0. /\ gestore = "vivo" /\ gestore' = "morto" /\ pc # "fine"
        /\ UNCHANGED <<cmd, pc, base, aperte, segnale, scritti, uscita, stdout, codice>>
    BY <1>18 DEF GestorePanico, Attivo, fine
  <2>1. /\ panici' = panici + 1
        /\ pc = "consegna" => fuori' = fuori
        /\ pc # "consegna" => fuori' = TRUE
    <3>1. CASE pc = "consegna"
      BY <1>18, <3>1 DEF GestorePanico
    <3>2. CASE pc # "consegna"
      <4>1. registra_panico(FALSE)
        BY <1>18, <3>2 DEF GestorePanico
      <4>2. panici' = panici + 1
        BY <4>1 DEF registra_panico
      <4>3. fuori' = TRUE
        BY <1>0, <4>1 DEF registra_panico
      <4> QED
        BY <3>2, <4>2, <4>3
    <3> QED
      BY <3>1, <3>2
  <2>2. TipiCli'
    <3>1. fuori' \in BOOLEAN
      BY <1>0, <2>1
    <3>2. panici' \in Nat
      BY <1>0, <2>1
    <3> QED
      BY <1>0, <2>0, <3>1, <3>2 DEF InvCli, TipiCli, Punti
  <2>3. Conto' /\ NienteScrittoPrima' /\ CodiceVero'
    BY <1>0, <2>0, <2>1 DEF InvCli, Conto, NienteScrittoPrima, CodiceVero
  <2>4. BustaVera'
    BY <1>0, <2>0, <2>1
       DEF InvCli, BustaVera, EffettoVero, TuttoScritto, InternoSpiegato, successo
  <2> QED
    BY <2>2, <2>3, <2>4 DEF InvCli
<1>19. CASE Finito \/ UNCHANGED vars
  <2>1. UNCHANGED vars
    BY <1>19 DEF Finito
  <2> QED
    BY <2>1 DEF vars, InvCli, TipiCli, Conto, NienteScrittoPrima, BustaVera, CodiceVero,
               EffettoVero, TuttoScritto, InternoSpiegato
<1> QED
  BY <1>1, <1>2, <1>3, <1>6, <1>7, <1>8, <1>9, <1>10, <1>11, <1>12, <1>13, <1>14, <1>15,
     <1>16, <1>17, <1>18, <1>19 DEF Next, Principale

LEMMA InvCliInizio == Init => InvCli
<1> SUFFICES ASSUME Init PROVE InvCli
  OBVIOUS
<1>1. cmd \in Comandi /\ cmd.uscite \in Nat
  BY ComandiAssunti DEF Init
<1>2. 0 \in 0 .. cmd.uscite
  BY <1>1
<1>3. TipiCli
  BY <1>1, <1>2 DEF Init, TipiCli, Punti
<1> QED
  BY <1>3 DEF Init, InvCli, Conto, NienteScrittoPrima, BustaVera, CodiceVero

\* The inductive invariant of the invocation, in every reachable state: the counted panics,
\* what can be on disk, and what the envelope and the exit code say of it.
THEOREM InvarianteDellInvocazione == Spec => []InvCli
  BY InvCliInizio, InvCliConservato, PTL DEF Spec

LEMMA PaniciDaInv == InvCli => PaniciVistiTutti
<1> SUFFICES ASSUME InvCli, Deciso, cmd.utf8
             PROVE  /\ uscita.stato = "ok" => ~ fuori
                    /\ uscita.codice = 70 => fuori \/ (cmd.annullabile /\ gestore = "assente")
  BY DEF PaniciVistiTutti
<1>1. pc \in {"consegna", "fine"}
  BY DEF Deciso
<1>2. CASE uscita = successo /\ ~ fuori
  BY <1>2 DEF successo
<1>3. CASE ~ (uscita = successo /\ ~ fuori)
  <2>1. /\ uscita.stato = "errore" /\ Forma(uscita.errore)
        /\ uscita = errore(uscita.errore) /\ InternoSpiegato(uscita.errore)
    BY <1>1, <1>3 DEF InvCli, BustaVera
  <2>2. uscita.codice = 70 => uscita.errore.causa = "Internal"
    BY <2>1, BustaDErrore
  <2> QED
    BY <2>1, <2>2 DEF InternoSpiegato
<1> QED
  BY <1>2, <1>3

\* Whatever threads panic and when, behind however many barriers: `ok` is answered only
\* if no panic outside the barriers came before the final check of `proteggi`, and an
\* internal error has a cause.
THEOREM PaniciSempreVisti == Spec => []PaniciVistiTutti
  BY InvarianteDellInvocazione, PaniciDaInv, PTL

LEMMA EffettoDaInv == InvCli => EffettoDelProcesso
<1> SUFFICES ASSUME InvCli PROVE EffettoDelProcesso
  OBVIOUS
<1>1. ASSUME codice # InCorso
      PROVE  /\ codice = 0 => stdout = "intero" /\ uscita.stato = "ok"
             /\ stdout # "intero" => codice = CODICE_STDOUT_NON_SCRIVIBILE
  <2>1. /\ pc = "fine"
        /\ codice = IF stdout = "intero" THEN uscita.codice
                    ELSE CODICE_STDOUT_NON_SCRIVIBILE
    BY <1>1 DEF InvCli, CodiceVero
  <2>2. CASE uscita = successo
    BY <2>1, <2>2 DEF successo, CODICE_STDOUT_NON_SCRIVIBILE
  <2>3. CASE uscita # successo
    <3>1. Forma(uscita.errore) /\ uscita = errore(uscita.errore)
      BY <2>1, <2>3 DEF InvCli, BustaVera
    <3>2. uscita.codice # 0
      BY <3>1, BustaDErrore
    <3> QED
      BY <2>1, <3>2 DEF CODICE_STDOUT_NON_SCRIVIBILE
  <2> QED
    BY <2>2, <2>3
<1>2. ASSUME Deciso
      PROVE  /\ uscita.stato = "ok" => scritti = cmd.uscite
             /\ uscita.stato = "errore" => EffettoVero(uscita.errore)
  <2>1. pc \in {"consegna", "fine"}
    BY <1>2 DEF Deciso
  <2> QED
    BY <2>1 DEF InvCli, BustaVera, successo
<1> QED
  BY <1>1, <1>2 DEF EffettoDelProcesso, EffettoVero

\* For every number of outputs: the effect in the envelope is true of the files, and
\* exit 0 means that the whole document of a success was written on standard output.
THEOREM EffettoSempreDetto == Spec => []EffettoDelProcesso
  BY InvarianteDellInvocazione, EffettoDaInv, PTL
=============================================================================
