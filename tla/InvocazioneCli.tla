--------------------------- MODULE InvocazioneCli ---------------------------
(***************************************************************************)
(* One run of the binary `plenora-data` (plenora-cli: main.rs, cli.rs,     *)
(* inviluppo.rs; plenora-core/src/panic_policy.rs): the panic hook and its *)
(* count, the thread of the Ctrl-C handler, the dependency barriers, the   *)
(* envelope and its delivery on standard output.                           *)
(*                                                                         *)
(* The command itself is what it does between two checks of the            *)
(* interruption: it computes, calls a dependency behind a barrier, writes  *)
(* an output and resolves its path again, fails or panics.                 *)
(***************************************************************************)
EXTENDS Errori

CONSTANTS
    Comandi,    \* bound: the commands
    MaxBarriere \* bound: nested barriers

ASSUME BarriereAssunte == MaxBarriere \in Nat
ASSUME ComandiAssunti ==
    Comandi \subseteq [utf8 : BOOLEAN, leggibile : BOOLEAN, annullabile : BOOLEAN,
                       uscite : Nat]

VARIABLES
    cmd,        \* the command: readable arguments, cancellable, outputs it writes
    pc,         \* the main thread
    panici,     \* PANICI_FUORI_DALLE_BARRIERE
    base,       \* panici_base
    aperte,     \* BARRIERE_APERTE of the main thread
    gestore,    \* the handler's thread: "assente", "vivo", "morto"
    segnale,    \* the flag it raises
    scritti,    \* outputs on disk
    uscita,     \* the envelope
    stdout,     \* what is on standard output: "niente", "parte", "intero"
    codice,     \* exit code of the process
    fuori       \* observation: a panic outside the barriers since the base, seen
                \* before the final check

osservati == <<panici, gestore, fuori>>
fine == <<uscita, stdout, codice>>
vars == <<cmd, pc, panici, base, aperte, gestore, segnale, scritti, uscita, stdout,
          codice, fuori>>

Nessuna == [stato |-> "nessuna"]
InCorso == -1

con_effetti == cmd.uscite > 0

Init ==
    /\ cmd \in Comandi
    /\ pc = "base"
    /\ panici = 0 /\ base = 0 /\ aperte = 0 /\ scritti = 0
    /\ gestore = "assente"
    /\ segnale = FALSE /\ fuori = FALSE
    /\ uscita = Nessuna
    /\ stdout = "niente"
    /\ codice = InCorso

-----------------------------------------------------------------------------
(* Envelopes *)

codice_uscita(causa) ==
    CASE causa \in {"InvalidPlan", "InvalidConfiguration"}              -> 2
      [] causa \in {"Schema", "DataMapping", "Crs", "Unsupported"}      -> 3
      [] causa = "ResourceLimit"                                        -> 4
      [] causa \in CauseIo \cup {"Conflict", "Protocol", "Timeout"}     -> 5
      [] causa = "Execution"                                            -> 6
      [] causa = "Internal"                                             -> 70
      [] causa = "Cancelled"                                            -> 130

successo == [stato |-> "ok", codice |-> 0]
errore(e) == [stato |-> "errore", codice |-> codice_uscita(e.causa), errore |-> e]

panico_senzaEffetto == errore(Nudo("Internal"))
panico ==
    errore(IF con_effetti THEN override_remote_effect(Nudo("Internal"), "unknown")
                          ELSE Nudo("Internal"))

CODICE_STDOUT_NON_SCRIVIBILE == 5

-----------------------------------------------------------------------------
(* The hook *)

\* registra_panico, in the thread that panics: `dentro` is its own open barriers.
registra_panico(dentro) ==
    /\ panici' = IF dentro THEN panici ELSE panici + 1
    /\ fuori' = (fuori \/ ~ dentro)

-----------------------------------------------------------------------------
(* The main thread *)

Va(punto) == pc' = punto

\* main: the base of the count, then the handler, which may not install.
LeggeBase ==
    /\ pc = "base"
    /\ base' = panici
    /\ Va("gestore")
    /\ UNCHANGED <<cmd, osservati, aperte, segnale, scritti, fine>>

InstallaGestore(riesce) ==
    /\ pc = "gestore"
    /\ gestore' = IF riesce THEN "vivo" ELSE "assente"
    /\ Va(IF cmd.utf8 THEN "invocazione" ELSE "consegna")
    /\ uscita' = IF cmd.utf8 THEN uscita ELSE errore(Nudo("InvalidConfiguration"))
    /\ UNCHANGED <<cmd, panici, fuori, base, aperte, segnale, scritti, stdout, codice>>

\* The envelope of the work, on its way to the final check of `proteggi`.
Rende(u) == Va("controllo") /\ uscita' = u /\ UNCHANGED <<stdout, codice>>

\* invocazione and risultato, up to the command; a cancellable command does not
\* start without the handler.
Invocazione ==
    /\ pc = "invocazione"
    /\ CASE ~ cmd.leggibile -> Rende(errore(Nudo("InvalidConfiguration")))
         [] cmd.leggibile /\ cmd.annullabile /\ gestore = "assente" ->
              Rende(errore(with_phase(Nudo("Internal"), "validate")))
         [] OTHER -> Va("comando") /\ UNCHANGED fine
    /\ UNCHANGED <<cmd, osservati, base, aperte, segnale, scritti>>

\* Every output is on disk.
TuttoScritto == 0 < scritti /\ scritti = cmd.uscite

\* An error on its way out of scrivi_uscite, also one of the last output: some output
\* is published, unless the error declares an effect of its own.
RendeScrittura(e) ==
    Rende(errore(IF scritti = 0 THEN e ELSE with_remote_effect(e, "partial")))

\* verifica_finale: an interruption seen after the last output.
RendeFinale(e) ==
    Rende(errore(IF scritti = 0 THEN e ELSE with_remote_effect(e, "committed")))

\* The command at a check of the interruption, before an output or after the last one;
\* `tardi`: its deadline has passed.
Verifica(tardi) ==
    /\ pc = "comando" /\ aperte = 0
    /\ LET e == Nudo(IF segnale THEN "Cancelled" ELSE "Timeout")
       IN IF ~ (cmd.annullabile /\ (segnale \/ tardi))
            THEN Va("lavora") /\ UNCHANGED fine
          ELSE IF scritti < cmd.uscite
            THEN RendeScrittura(with_phase(e, "write"))
          ELSE RendeFinale(with_phase(e, "finalize"))
    /\ UNCHANGED <<cmd, osservati, base, aperte, segnale, scritti>>

Calcola ==
    /\ pc = "lavora" /\ aperte = 0
    /\ scritti = 0
    /\ Va("comando")
    /\ UNCHANGED <<cmd, osservati, base, aperte, segnale, scritti, fine>>

Scrive ==
    /\ pc = "lavora" /\ aperte = 0
    /\ scritti < cmd.uscite
    /\ scritti' = scritti + 1
    /\ Va("canonico")
    /\ UNCHANGED <<cmd, osservati, base, aperte, segnale, fine>>

\* The path just written is resolved again, which may fail with every output on disk.
Canonico(guasto) ==
    /\ pc = "canonico"
    /\ IF guasto THEN RendeScrittura(Nudo("io_not_found"))
                 ELSE Va("comando") /\ UNCHANGED fine
    /\ UNCHANGED <<cmd, osservati, base, aperte, segnale, scritti>>

Riesce ==
    /\ pc = "lavora" /\ aperte = 0
    /\ scritti = cmd.uscite
    /\ Rende(successo)
    /\ UNCHANGED <<cmd, osservati, base, aperte, segnale, scritti>>

\* A failure of the command, of the next output when there is one; `rimasto`: of the
\* temporary of the output, which could not be removed (`scarta`).  Nothing fails
\* after verifica_finale.
Fallisce(rimasto) ==
    /\ pc = "lavora" /\ aperte = 0 /\ ~ TuttoScritto
    /\ rimasto => scritti < cmd.uscite
    /\ LET e == Nudo("io_transient")
       IN RendeScrittura(IF rimasto THEN override_remote_effect(e, "unknown") ELSE e)
    /\ UNCHANGED <<cmd, osservati, base, aperte, segnale, scritti>>

\* barriera_di_dipendenza: open, and closed on the way out, unwinding or not.
ApreBarriera ==
    /\ pc = "lavora" /\ aperte < MaxBarriere
    /\ ~ TuttoScritto
    /\ aperte' = aperte + 1
    /\ UNCHANGED <<cmd, pc, osservati, base, segnale, scritti, fine>>

ChiudeBarriera ==
    /\ pc = "lavora" /\ aperte > 0
    /\ aperte' = aperte - 1
    /\ Va(IF aperte = 1 THEN "comando" ELSE "lavora")
    /\ UNCHANGED <<cmd, osservati, base, segnale, scritti, fine>>

\* A panic behind a barrier: the hook does not count it, the innermost barrier
\* catches it, and the code around an outermost one makes an error of it.
PanicoNellaBarriera ==
    /\ pc = "lavora" /\ aperte > 0
    /\ registra_panico(TRUE)
    /\ aperte' = aperte - 1
    /\ IF aperte = 1
         THEN RendeScrittura(with_phase(Nudo("DataMapping"), "read"))
         ELSE UNCHANGED <<pc, fine>>
    /\ UNCHANGED <<cmd, gestore, base, segnale, scritti>>

\* A panic of the command's own code: counted, and caught by `proteggi`.
Panico ==
    /\ pc \in {"lavora", "canonico"} /\ aperte = 0
    /\ registra_panico(FALSE)
    /\ Rende(panico)
    /\ UNCHANGED <<cmd, gestore, base, aperte, segnale, scritti>>

\* The final check of `proteggi`: a success with a changed count is not one.
Controllo ==
    /\ pc = "controllo"
    /\ uscita' = IF uscita.codice = 0 /\ panici # base THEN panico ELSE uscita
    /\ Va("consegna")
    /\ UNCHANGED <<cmd, osservati, base, aperte, segnale, scritti, stdout, codice>>

\* consegna: write_all, then flush; either may fail, in part or altogether.
Scrittura(fatto) ==
    /\ pc = "consegna"
    /\ stdout' = fatto
    /\ codice' = IF fatto = "intero" THEN uscita.codice ELSE CODICE_STDOUT_NON_SCRIVIBILE
    /\ Va("fine")
    /\ UNCHANGED <<cmd, osservati, base, aperte, segnale, scritti, uscita>>

Principale ==
    \/ LeggeBase
    \/ \E b \in BOOLEAN : InstallaGestore(b)
    \/ Invocazione
    \/ \E b \in BOOLEAN : Verifica(b) \/ Canonico(b) \/ Fallisce(b)
    \/ Calcola \/ Scrive \/ Riesce
    \/ ApreBarriera \/ ChiudeBarriera \/ PanicoNellaBarriera \/ Panico
    \/ Controllo
    \/ \E fatto \in {"niente", "parte", "intero"} : Scrittura(fatto)

-----------------------------------------------------------------------------
(* The handler's thread *)

Attivo == gestore = "vivo" /\ pc # "fine"

CtrlC ==
    /\ Attivo /\ ~ segnale
    /\ segnale' = TRUE
    /\ UNCHANGED <<cmd, pc, osservati, base, aperte, scritti, fine>>

\* It dies: the barriers of the main thread are not its own.
GestorePanico_barriereComuni ==
    /\ Attivo
    /\ gestore' = "morto"
    /\ panici' = IF aperte > 0 THEN panici ELSE panici + 1
    /\ fuori' = (fuori \/ pc # "consegna")
    /\ UNCHANGED <<cmd, pc, base, aperte, segnale, scritti, fine>>
GestorePanico ==
    /\ Attivo
    /\ gestore' = "morto"
    /\ IF pc = "consegna"
         THEN panici' = panici + 1 /\ UNCHANGED fuori
         ELSE registra_panico(FALSE)
    /\ UNCHANGED <<cmd, pc, base, aperte, segnale, scritti, fine>>

Finito == pc = "fine" /\ UNCHANGED vars

Next == Principale \/ CtrlC \/ GestorePanico \/ Finito

Spec == Init /\ [][Next]_vars

-----------------------------------------------------------------------------
(* Properties *)

Deciso == pc \in {"consegna", "fine"}

\* The process answers `ok` only if no thread has panicked outside the barriers
\* between the base and the final check, the handler's own thread included, whatever
\* barriers the main thread had open; and a panic that a barrier expects never makes
\* an internal error of a success.
PaniciVistiTutti ==
    Deciso /\ cmd.utf8 =>
        /\ uscita.stato = "ok" => ~ fuori
        /\ uscita.codice = 70 => fuori \/ (cmd.annullabile /\ gestore = "assente")

\* A reader of the envelope learns the true effect: an error without effect, a panic's
\* included, wrote nothing, and a success wrote everything; `partial` published
\* something, perhaps everything, and a cancellation or a deadline says `committed`
\* exactly when every output is on disk.  Exit 0 means the whole document of a success
\* is on standard output, and every code but the one of an unwritable output goes with
\* a whole document.
EffettoDelProcesso ==
    /\ codice # InCorso =>
        /\ codice = 0 => stdout = "intero" /\ uscita.stato = "ok"
        /\ stdout # "intero" => codice = CODICE_STDOUT_NON_SCRIVIBILE
    /\ Deciso =>
        /\ uscita.stato = "ok" => scritti = cmd.uscite
        /\ uscita.stato = "errore" =>
             LET x == remote_effect(uscita.errore)
             IN /\ x = "none" => scritti = 0
                /\ x = "partial" => 0 < scritti
                /\ x = "committed" => TuttoScritto
                /\ uscita.errore.causa \in Interruzioni =>
                     (x = "committed" <=> TuttoScritto)

=============================================================================
