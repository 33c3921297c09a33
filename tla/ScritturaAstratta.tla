------------------------- MODULE ScritturaAstratta -------------------------
(***************************************************************************)
(* What an atomic write promises (plenora-io/src/atomico.rs): the          *)
(* destination goes in one step from what it was to the complete new file, *)
(* or the write fails and does not touch it; without the overwrite option  *)
(* an existing destination is never replaced.                              *)
(*                                                                         *)
(* Several writers work at the same time, also on the same destination;    *)
(* other programs create and remove entries; a power failure may bring a   *)
(* destination back to a content it had before, never to a part of a file. *)
(***************************************************************************)
CONSTANTS
    Scrittori,      \* writers: calls of scrivi_atomico, of any process
    Destinazioni,   \* the directory entries they write to
    Altri           \* the other programs

VARIABLES
    richieste,      \* destination and overwrite option of every call
    voci,           \* what every destination shows
    passate,        \* what every destination has shown
    esiti           \* what every call answered

vars == <<richieste, voci, passate, esiti>>

Richieste == [dest : Destinazioni, sovrascrivi : BOOLEAN]

\* What an entry can be: kind and author.
DiAltri == {"assente", "directory", "intero"} \X {Altri}
Assente == <<"assente", Altri>>
Directory == <<"directory", Altri>>

Init ==
    /\ richieste \in [Scrittori -> Richieste]
    /\ voci \in [Destinazioni -> DiAltri]
    /\ passate = [d \in Destinazioni |-> {voci[d]}]
    /\ esiti = [w \in Scrittori |-> "in_corso"]

\* The entry d shows c from now on.
Mostra(d, c) ==
    /\ voci' = [voci EXCEPT ![d] = c]
    /\ passate' = [passate EXCEPT ![d] = @ \cup {c}]

\* The file of w appears, whole, at its destination.
Pubblica(w) ==
    LET d == richieste[w].dest
    IN /\ esiti[w] = "in_corso"
       /\ voci[d] # Directory
       /\ richieste[w].sovrascrivi \/ voci[d] = Assente
       /\ Mostra(d, <<"intero", w>>)
       /\ esiti' = [esiti EXCEPT ![w] = "scritto"]
       /\ UNCHANGED richieste

\* The call ends, or its process dies, without having touched any destination.
Fallisce(w) ==
    /\ esiti[w] = "in_corso"
    /\ \E e \in {"fallito", "morto"} : esiti' = [esiti EXCEPT ![w] = e]
    /\ UNCHANGED <<richieste, voci, passate>>

AltriMettono(d, c) ==
    /\ Mostra(d, c)
    /\ UNCHANGED <<richieste, esiti>>

MancaCorrente ==
    /\ voci' \in [Destinazioni -> UNION {passate[d] : d \in Destinazioni}]
    /\ \A d \in Destinazioni : voci'[d] \in passate[d]
    /\ esiti' = [w \in Scrittori |-> IF esiti[w] = "in_corso" THEN "morto" ELSE esiti[w]]
    /\ UNCHANGED <<richieste, passate>>

Next ==
    \/ \E w \in Scrittori : Pubblica(w) \/ Fallisce(w)
    \/ \E d \in Destinazioni, c \in DiAltri : AltriMettono(d, c)
    \/ MancaCorrente

Spec == Init /\ [][Next]_vars

=============================================================================
