-------------------------- MODULE ScritturaAtomica --------------------------
(***************************************************************************)
(* scrivi_atomico (plenora-io/src/atomico.rs), step by step: the early     *)
(* check of the destination, a temporary file beside it, the content,      *)
(* sync_all, the verification, and the rename; on a failure the temporary  *)
(* is removed and a removal that fails is declared as effect `unknown`.    *)
(*                                                                         *)
(* Several calls run at the same time.  Between any two steps another      *)
(* program may create or remove the destination, the process may die and   *)
(* the power may fail.  The file system is external: a rename is atomic,   *)
(* data that was not synced may be lost in a power failure, and entries    *)
(* may then show any content they had.                                     *)
(***************************************************************************)
EXTENDS Naturals

CONSTANTS
    Scrittori, Destinazioni, Altri,
    MaxAltri        \* bound: steps of the other programs

ASSUME AltriAssunti == MaxAltri \in Nat /\ Altri \notin Scrittori

VARIABLES
    richieste, voci, passate,       \* as in ScritturaAstratta
    pc,             \* where every call is
    temporanei,     \* the temporary file of every call: "assente", "parte", "intero"
    sincroni,       \* the calls whose data is on disk
    esiti,          \* answer and effect of every call
    tolte,          \* history: destinations that lost an entry to others or to a crash
    altri,          \* steps taken by the other programs
    corrente        \* the power has not failed yet

vars == <<richieste, voci, passate, pc, temporanei, sincroni, esiti, tolte, altri, corrente>>
file == <<voci, passate, tolte>>
mondo == <<richieste, altri, corrente>>

Promessa == INSTANCE ScritturaAstratta
              WITH esiti <- [w \in Scrittori |-> esiti[w].stato]

Esiti == [ stato : {"in_corso", "scritto", "fallito", "morto"},
           errore : {"nessuno", "Io", "Conflict", "scrittura", "verifica"},
           effetto : {"none", "unknown"} ]
InCorso == [stato |-> "in_corso", errore |-> "nessuno", effetto |-> "none"]
Scritto == [stato |-> "scritto", errore |-> "nessuno", effetto |-> "none"]
Morto == [stato |-> "morto", errore |-> "nessuno", effetto |-> "none"]
Fallito(errore, effetto) == [stato |-> "fallito", errore |-> errore, effetto |-> effetto]

Dest(w) == richieste[w].dest

Init ==
    /\ richieste \in [Scrittori -> Promessa!Richieste]
    /\ voci \in [Destinazioni -> Promessa!DiAltri]
    /\ passate = [d \in Destinazioni |-> {voci[d]}]
    /\ pc = [w \in Scrittori |-> "controlla"]
    /\ temporanei = [w \in Scrittori |-> "assente"]
    /\ sincroni = {}
    /\ esiti = [w \in Scrittori |-> InCorso]
    /\ tolte = {}
    /\ altri = 0
    /\ corrente = TRUE

-----------------------------------------------------------------------------
Va(w, punto) == pc' = [pc EXCEPT ![w] = punto]

\* Return without a temporary file.
Rende(w, esito) == Va(w, "fine") /\ esiti' = [esiti EXCEPT ![w] = esito]

\* The cause is kept while the temporary is removed (scarta).
Scarta(w, errore) ==
    /\ Va(w, "scarta")
    /\ esiti' = [esiti EXCEPT ![w].errore = errore]

\* verifica_destinazione: no directory, nothing there without the option to
\* overwrite, a parent directory; `guasto`: the file system refuses.
VerificaDestinazione(w, guasto) ==
    /\ pc[w] = "controlla"
    /\ IF guasto \/ voci[Dest(w)] = Promessa!Directory
         THEN Rende(w, Fallito("Io", "none"))
       ELSE IF voci[Dest(w)] # Promessa!Assente /\ ~ richieste[w].sovrascrivi
         THEN Rende(w, Fallito("Conflict", "none"))
       ELSE Va(w, "crea") /\ UNCHANGED esiti
    /\ UNCHANGED <<temporanei, sincroni, file, mondo>>

CreaTemporaneo(w, guasto) ==
    /\ pc[w] = "crea"
    /\ IF guasto
         THEN Rende(w, Fallito("Io", "none")) /\ UNCHANGED temporanei
         ELSE /\ temporanei' = [temporanei EXCEPT ![w] = "parte"]
              /\ Va(w, "scrivi")
              /\ UNCHANGED esiti
    /\ UNCHANGED <<sincroni, file, mondo>>

\* scrivi and flush; a failure leaves a part of the data in the temporary.
Scrive(w, guasto) ==
    /\ pc[w] = "scrivi"
    /\ IF guasto
         THEN Scarta(w, "scrittura") /\ UNCHANGED temporanei
         ELSE /\ temporanei' = [temporanei EXCEPT ![w] = "intero"]
              /\ Va(w, "sincronizza")
              /\ UNCHANGED esiti
    /\ UNCHANGED <<sincroni, file, mondo>>

Sincronizza_ignorata(w, guasto) ==
    /\ pc[w] = "sincronizza"
    /\ Va(w, "verifica")
    /\ sincroni' = IF guasto THEN sincroni ELSE sincroni \cup {w}
    /\ UNCHANGED <<esiti, temporanei, file, mondo>>
Sincronizza(w, guasto) ==
    /\ pc[w] = "sincronizza"
    /\ IF guasto
         THEN Scarta(w, "Io") /\ UNCHANGED sincroni
         ELSE /\ sincroni' = sincroni \cup {w}
              /\ Va(w, "verifica")
              /\ UNCHANGED esiti
    /\ UNCHANGED <<temporanei, file, mondo>>

\* The caller's verification reads the temporary again.
VerificaTemporaneo(w, guasto) ==
    /\ pc[w] = "verifica"
    /\ IF guasto THEN Scarta(w, "verifica") ELSE Va(w, "rinomina") /\ UNCHANGED esiti
    /\ UNCHANGED <<temporanei, sincroni, file, mondo>>

\* The rename may replace what the destination shows now.
PuoSostituire(w) ==
    /\ voci[Dest(w)] # Promessa!Directory
    /\ richieste[w].sovrascrivi \/ voci[Dest(w)] = Promessa!Assente

\* persist or persist_noclobber
Rinomina(w, guasto) ==
    /\ pc[w] = "rinomina"
    /\ IF guasto \/ ~ PuoSostituire(w)
         THEN /\ Scarta(w, IF guasto \/ richieste[w].sovrascrivi THEN "Io" ELSE "Conflict")
              /\ UNCHANGED <<temporanei, file>>
         ELSE /\ Promessa!Mostra(Dest(w), <<temporanei[w], w>>)
              /\ temporanei' = [temporanei EXCEPT ![w] = "assente"]
              /\ Rende(w, Scritto)
              /\ UNCHANGED tolte
    /\ UNCHANGED <<sincroni, mondo>>

\* scarta: the temporary is removed, or the error says that it may have stayed.
EffettoDelloScarto_taciuto(guasto) == "none"
EffettoDelloScarto(guasto) == IF guasto THEN "unknown" ELSE "none"

ScartaTemporaneo(w, guasto) ==
    /\ pc[w] = "scarta"
    /\ temporanei' = IF guasto THEN temporanei ELSE [temporanei EXCEPT ![w] = "assente"]
    /\ Rende(w, Fallito(esiti[w].errore, EffettoDelloScarto(guasto)))
    /\ UNCHANGED <<sincroni, file, mondo>>

-----------------------------------------------------------------------------
(* The rest of the world *)

AltriMettono(d, c) ==
    /\ altri < MaxAltri
    /\ altri' = altri + 1
    /\ c # voci[d]
    /\ Promessa!Mostra(d, c)
    /\ tolte' = IF c = Promessa!Assente THEN tolte \cup {d} ELSE tolte
    /\ UNCHANGED <<richieste, pc, temporanei, sincroni, esiti, corrente>>

\* The process of w is killed: its temporary stays where it is.
Muore(w) ==
    /\ pc[w] # "fine"
    /\ Rende(w, Morto)
    /\ UNCHANGED <<temporanei, sincroni, file, mondo>>

\* What an entry shows after a power failure: a file whose data was not synced
\* may be there in part.
DopoIlGuasto(c) ==
    IF c[1] = "intero" /\ c[2] \in Scrittori \ sincroni THEN {c, <<"parte", c[2]>>} ELSE {c}

MancaCorrente ==
    /\ corrente
    /\ corrente' = FALSE
    /\ voci' \in [Destinazioni -> UNION {UNION {DopoIlGuasto(c) : c \in passate[d]} :
                                           d \in Destinazioni}]
    /\ \A d \in Destinazioni : voci'[d] \in UNION {DopoIlGuasto(c) : c \in passate[d]}
    /\ tolte' = tolte \cup {d \in Destinazioni : voci'[d] # voci[d]}
    /\ pc' = [w \in Scrittori |-> "fine"]
    /\ esiti' = [w \in Scrittori |-> IF pc[w] = "fine" THEN esiti[w] ELSE Morto]
    /\ UNCHANGED <<richieste, passate, temporanei, sincroni, altri>>

Chiamata(w, guasto) ==
    \/ VerificaDestinazione(w, guasto)
    \/ CreaTemporaneo(w, guasto)
    \/ Scrive(w, guasto)
    \/ Sincronizza(w, guasto)
    \/ VerificaTemporaneo(w, guasto)
    \/ Rinomina(w, guasto)
    \/ ScartaTemporaneo(w, guasto)

Finite == (\A w \in Scrittori : pc[w] = "fine") /\ UNCHANGED vars

Next ==
    \/ \E w \in Scrittori, guasto \in BOOLEAN : Chiamata(w, guasto)
    \/ \E w \in Scrittori : Muore(w)
    \/ \E d \in Destinazioni, c \in Promessa!DiAltri : AltriMettono(d, c)
    \/ MancaCorrente
    \/ Finite

Spec == Init /\ [][Next]_vars

-----------------------------------------------------------------------------
(* Properties *)

\* Types of the variables of the concurrent writes.
TypeOK ==
    /\ richieste \in [Scrittori -> Promessa!Richieste]
    /\ pc \in [Scrittori -> {"controlla", "crea", "scrivi", "sincronizza", "verifica",
                             "rinomina", "scarta", "fine"}]
    /\ temporanei \in [Scrittori -> {"assente", "parte", "intero"}]
    /\ sincroni \subseteq Scrittori
    /\ esiti \in [Scrittori -> Esiti]
    /\ altri \in 0 .. MaxAltri

\* scrivi_atomico implements the atomic write: whatever the interleaving with other
\* writers, other programs, deaths and a power failure, every destination changes
\* in one step to a whole file, without the option never over an existing one, and
\* never shows a part of a file.
MantieneLaPromessa == Promessa!Spec

\* The answer tells the truth about the disk: a write that failed left nothing at
\* the destination, and when its temporary stayed the effect is `unknown`, so that
\* nobody retries it automatically.  Of several calls without the overwrite option on
\* one destination that nobody else removes, at most one answers that it wrote.
EsitoVeritiero ==
    /\ \A w \in Scrittori :
        /\ esiti[w].stato = "fallito" =>
             /\ \A d \in Destinazioni : \A c \in passate[d] : c[2] # w
             /\ temporanei[w] # "assente" => esiti[w].effetto = "unknown"
        /\ esiti[w].stato = "scritto" =>
             <<"intero", w>> \in passate[Dest(w)] /\ temporanei[w] = "assente"
    /\ \A v, w \in Scrittori :
        /\ esiti[v].stato = "scritto" /\ esiti[w].stato = "scritto"
        /\ Dest(v) = Dest(w) /\ Dest(v) \notin tolte
        /\ ~ richieste[v].sovrascrivi /\ ~ richieste[w].sovrascrivi
        => v = w

=============================================================================
