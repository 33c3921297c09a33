-------------------------- MODULE ConcorrenzaProofs --------------------------
(***************************************************************************)
(* Proofs about actors that meet: the writers of one destination and the   *)
(* other programs (ScritturaAtomica), and the threads of one parallel      *)
(* kernel (MCKernel), for any number of them and every interleaving.       *)
(***************************************************************************)
EXTENDS ScritturaAtomica, MCKernel, SequencesExt, FiniteSetTheorems, FunctionTheorems,
        SequenceTheorems, WellFoundedInduction, TLAPS

-----------------------------------------------------------------------------
(* The atomic write *)

\* What an entry can have shown: something of the others, or a whole synced file.
Mostrabili == Promessa!DiAltri \cup ({"intero"} \X sincroni)

\* The inductive invariant: a call gets to the rename only with a whole and synced
\* temporary, so everything an entry has ever shown is whole and on disk.
IInv ==
    /\ TypeOK
    /\ voci \in [Destinazioni -> Mostrabili]
    /\ passate \in [Destinazioni -> SUBSET Mostrabili]
    /\ \A d \in Destinazioni : voci[d] \in passate[d]
    /\ \A w \in Scrittori :
         /\ pc[w] # "fine" <=> esiti[w].stato = "in_corso"
         /\ pc[w] \in {"sincronizza", "verifica", "rinomina"} => temporanei[w] = "intero"
         /\ pc[w] \in {"verifica", "rinomina"} => w \in sincroni

LEMMA EsitiPossibili ==
    /\ InCorso \in Esiti /\ Scritto \in Esiti /\ Morto \in Esiti
    /\ \A e \in {"nessuno", "Io", "Conflict", "scrittura", "verifica"},
          f \in {"none", "unknown"} : Fallito(e, f) \in Esiti
    /\ InCorso.stato = "in_corso" /\ Scritto.stato = "scritto" /\ Morto.stato = "morto"
    /\ \A e, f : Fallito(e, f).stato = "fallito"
BY DEF InCorso, Scritto, Morto, Fallito, Esiti

LEMMA InitIInv == Init => IInv
<1> SUFFICES ASSUME Init PROVE IInv
  OBVIOUS
<1>1. TypeOK
  BY AltriAssunti, EsitiPossibili DEF Init, TypeOK
<1> QED
  BY <1>1, EsitiPossibili DEF Init, IInv, Mostrabili

\* The answers as the promise sees them.
Stati == [w \in Scrittori |-> esiti[w].stato]

LEMMA StatiDopo ==
    ASSUME esiti \in [Scrittori -> Esiti], NEW w \in Scrittori
    PROVE  /\ \A e \in Esiti : esiti' = [esiti EXCEPT ![w] = e] =>
                /\ esiti' \in [Scrittori -> Esiti]
                /\ Stati' = [Stati EXCEPT ![w] = e.stato]
           /\ \A x \in {"Io", "Conflict", "scrittura", "verifica"} :
                esiti' = [esiti EXCEPT ![w].errore = x] =>
                /\ esiti' \in [Scrittori -> Esiti]
                /\ Stati' = Stati
                /\ \A v \in Scrittori : esiti'[v].stato = esiti[v].stato
           /\ esiti' = esiti => Stati' = Stati
<1>1. \A e \in Esiti : esiti' = [esiti EXCEPT ![w] = e] =>
        /\ esiti' \in [Scrittori -> Esiti]
        /\ Stati' = [Stati EXCEPT ![w] = e.stato]
  BY DEF Stati
<1>2. ASSUME NEW x \in {"Io", "Conflict", "scrittura", "verifica"},
             esiti' = [esiti EXCEPT ![w].errore = x]
      PROVE  /\ esiti' \in [Scrittori -> Esiti]
             /\ \A v \in Scrittori : esiti'[v].stato = esiti[v].stato
             /\ Stati' = Stati
  <2>1. [esiti[w] EXCEPT !.errore = x] \in Esiti
    BY DEF Esiti
  <2>2. [esiti[w] EXCEPT !.errore = x].stato = esiti[w].stato
    BY DEF Esiti
  <2>3. esiti' = [esiti EXCEPT ![w] = [esiti[w] EXCEPT !.errore = x]]
    BY <1>2
  <2>4. /\ esiti' \in [Scrittori -> Esiti]
        /\ \A v \in Scrittori : esiti'[v].stato = esiti[v].stato
    BY <2>1, <2>2, <2>3
  <2> QED
    BY <2>4 DEF Stati
<1>3. esiti' = esiti => Stati' = Stati
  BY DEF Stati
<1> QED
  BY <1>1, <1>2, <1>3

\* A step that does not touch the entries keeps what was shown.
LEMMA VociFerme ==
    ASSUME IInv, UNCHANGED <<voci, passate>>, sincroni \subseteq sincroni'
    PROVE  /\ voci' \in [Destinazioni -> Mostrabili']
           /\ passate' \in [Destinazioni -> SUBSET Mostrabili']
           /\ \A d \in Destinazioni : voci'[d] \in passate'[d]
<1>1. Mostrabili \subseteq Mostrabili'
  BY DEF Mostrabili, Promessa!DiAltri
<1> QED
  BY <1>1 DEF IInv

\* A failing return, seen from the promise.
LEMMA Cede ==
    ASSUME IInv, NEW w \in Scrittori, pc[w] # "fine", NEW e \in Esiti,
           e.stato \in {"fallito", "morto"}, Rende(w, e),
           UNCHANGED <<richieste, voci, passate>>
    PROVE  Promessa!Fallisce(w)
<1>1. Stati' = [Stati EXCEPT ![w] = e.stato]
  BY StatiDopo DEF IInv, TypeOK, Rende
<1>2. Stati[w] = "in_corso"
  BY DEF IInv, Stati
<1> QED
  BY <1>1, <1>2 DEF Promessa!Fallisce, Stati

\* A step of one call: it keeps the invariant, and it is a publication, a failure
\* or a step the promise does not see.
LEMMA PassoDellaChiamata ==
    ASSUME IInv, NEW w \in Scrittori, NEW guasto \in BOOLEAN, Chiamata(w, guasto)
    PROVE  /\ IInv'
           /\ Promessa!Pubblica(w) \/ Promessa!Fallisce(w) \/ UNCHANGED Promessa!vars
<1> USE DEF Va, mondo, file
<1>0. esiti \in [Scrittori -> Esiti]
  BY DEF IInv, TypeOK
<1>1. CASE VerificaDestinazione(w, guasto)
  <2>1. IInv'
    BY <1>1, VociFerme, EsitiPossibili DEF VerificaDestinazione, Rende, IInv, TypeOK
  <2>2. Promessa!Fallisce(w) \/ UNCHANGED Promessa!vars
    BY <1>0, <1>1, Cede, StatiDopo, EsitiPossibili
    DEF VerificaDestinazione, Promessa!vars, Stati
  <2> QED
    BY <2>1, <2>2
<1>2. CASE CreaTemporaneo(w, guasto)
  <2>1. IInv'
    BY <1>2, VociFerme, EsitiPossibili DEF CreaTemporaneo, Rende, IInv, TypeOK
  <2>2. Promessa!Fallisce(w) \/ UNCHANGED Promessa!vars
    BY <1>0, <1>2, Cede, StatiDopo, EsitiPossibili DEF CreaTemporaneo, Promessa!vars, Stati
  <2> QED
    BY <2>1, <2>2
<1>3. CASE Scrive(w, guasto)
  <2>1. IInv'
    BY <1>0, <1>3, VociFerme, StatiDopo DEF Scrive, Scarta, IInv, TypeOK
  <2>2. UNCHANGED Promessa!vars
    BY <1>0, <1>3, StatiDopo DEF Scrive, Scarta, Promessa!vars, Stati
  <2> QED
    BY <2>1, <2>2
<1>4. CASE Sincronizza(w, guasto)
  <2>0. sincroni \subseteq sincroni' /\ sincroni' \subseteq Scrittori
    BY <1>4 DEF Sincronizza, IInv, TypeOK
  <2>1. /\ esiti' \in [Scrittori -> Esiti]
        /\ \A v \in Scrittori : esiti'[v].stato = esiti[v].stato
        /\ Stati' = Stati
    BY <1>0, <1>4, StatiDopo DEF Sincronizza, Scarta
  <2>2. TypeOK'
    BY <1>4, <2>0, <2>1 DEF Sincronizza, Scarta, IInv, TypeOK
  <2>3. \A v \in Scrittori :
          /\ pc'[v] # "fine" <=> esiti'[v].stato = "in_corso"
          /\ pc'[v] \in {"sincronizza", "verifica", "rinomina"} => temporanei'[v] = "intero"
          /\ pc'[v] \in {"verifica", "rinomina"} => v \in sincroni'
    BY <1>4, <2>1 DEF Sincronizza, Scarta, IInv, TypeOK
  <2>4. IInv'
    BY <1>4, <2>0, <2>2, <2>3, VociFerme DEF Sincronizza, IInv
  <2> QED
    BY <1>4, <2>1, <2>4 DEF Sincronizza, Promessa!vars, Stati
<1>5. CASE VerificaTemporaneo(w, guasto)
  <2>1. IInv'
    BY <1>0, <1>5, VociFerme, StatiDopo DEF VerificaTemporaneo, Scarta, IInv, TypeOK
  <2>2. UNCHANGED Promessa!vars
    BY <1>0, <1>5, StatiDopo DEF VerificaTemporaneo, Scarta, Promessa!vars, Stati
  <2> QED
    BY <2>1, <2>2
<1>6. CASE Rinomina(w, guasto) /\ (guasto \/ ~ PuoSostituire(w))
  <2>1. IInv'
    BY <1>0, <1>6, VociFerme, StatiDopo DEF Rinomina, Scarta, IInv, TypeOK
  <2>2. UNCHANGED Promessa!vars
    BY <1>0, <1>6, StatiDopo DEF Rinomina, Scarta, Promessa!vars, Stati
  <2> QED
    BY <2>1, <2>2
<1>7. CASE Rinomina(w, guasto) /\ ~ guasto /\ PuoSostituire(w)
  <2>1. /\ Promessa!Mostra(Dest(w), <<temporanei[w], w>>)
        /\ temporanei' = [temporanei EXCEPT ![w] = "assente"]
        /\ Rende(w, Scritto)
        /\ UNCHANGED <<tolte, sincroni, mondo>>
    BY <1>7 DEF Rinomina
  <2>2. temporanei[w] = "intero" /\ w \in sincroni /\ pc[w] = "rinomina"
    BY <1>7 DEF Rinomina, IInv
  <2>3. Dest(w) \in Destinazioni
    BY DEF IInv, TypeOK, Dest, Promessa!Richieste
  <2>4. <<"intero", w>> \in Mostrabili /\ Mostrabili' = Mostrabili
    BY <2>1, <2>2 DEF Mostrabili, Promessa!DiAltri
  <2>5. /\ voci' = [voci EXCEPT ![Dest(w)] = <<"intero", w>>]
        /\ passate' = [passate EXCEPT ![Dest(w)] = @ \cup {<<"intero", w>>}]
    BY <2>1, <2>2 DEF Promessa!Mostra
  <2>6. /\ voci' \in [Destinazioni -> Mostrabili']
        /\ passate' \in [Destinazioni -> SUBSET Mostrabili']
        /\ \A d \in Destinazioni : voci'[d] \in passate'[d]
    BY <2>3, <2>4, <2>5 DEF IInv
  <2>7. esiti' = [esiti EXCEPT ![w] = Scritto] /\ esiti' \in [Scrittori -> Esiti]
    BY <1>0, <2>1, EsitiPossibili DEF Rende
  <2>8. TypeOK'
    BY <2>1, <2>7 DEF Rende, IInv, TypeOK
  <2>9. \A v \in Scrittori :
          /\ pc'[v] # "fine" <=> esiti'[v].stato = "in_corso"
          /\ pc'[v] \in {"sincronizza", "verifica", "rinomina"} => temporanei'[v] = "intero"
          /\ pc'[v] \in {"verifica", "rinomina"} => v \in sincroni'
    BY <2>1, <2>7, EsitiPossibili DEF Rende, IInv, TypeOK
  <2>10. IInv'
    BY <2>6, <2>8, <2>9 DEF IInv
  <2>11. Stati[w] = "in_corso" /\ Stati' = [Stati EXCEPT ![w] = "scritto"]
    BY <1>0, <2>2, <2>7, StatiDopo, EsitiPossibili DEF IInv, Stati
  <2>12. Promessa!Pubblica(w)
    BY <1>7, <2>1, <2>2, <2>11 DEF Promessa!Pubblica, PuoSostituire, Dest, Stati
  <2> QED
    BY <2>10, <2>12
<1>8. CASE ScartaTemporaneo(w, guasto)
  <2>1. esiti[w].errore \in {"nessuno", "Io", "Conflict", "scrittura", "verifica"}
    BY <1>0 DEF Esiti
  <2>2. PICK e \in Esiti : e = Fallito(esiti[w].errore, EffettoDelloScarto(guasto))
    BY <2>1, EsitiPossibili DEF EffettoDelloScarto
  <2>3. e.stato = "fallito" /\ Rende(w, e)
    BY <1>8, <2>2, EsitiPossibili DEF ScartaTemporaneo
  <2>4. IInv'
    BY <1>8, <2>3, VociFerme DEF ScartaTemporaneo, Rende, IInv, TypeOK
  <2>5. Promessa!Fallisce(w)
    BY <1>8, <2>3, Cede DEF ScartaTemporaneo
  <2> QED
    BY <2>4, <2>5
<1> QED
  BY <1>1, <1>2, <1>3, <1>4, <1>5, <1>6, <1>7, <1>8 DEF Chiamata

\* A death, or an interference of the other programs.
LEMMA PassoDegliAltri ==
    ASSUME IInv, NEW w \in Scrittori, Muore(w)
    PROVE  IInv' /\ Promessa!Fallisce(w)
<1> USE DEF Va, mondo, file
<1>1. IInv'
  BY VociFerme, EsitiPossibili DEF Muore, Rende, IInv, TypeOK
<1> QED
  BY <1>1, Cede, EsitiPossibili DEF Muore

LEMMA PassoDelMondo ==
    ASSUME IInv, NEW d \in Destinazioni, NEW c \in Promessa!DiAltri, AltriMettono(d, c)
    PROVE  IInv' /\ Promessa!AltriMettono(d, c)
<1>1. c \in Mostrabili /\ Mostrabili' = Mostrabili
  BY DEF Mostrabili, AltriMettono, Promessa!DiAltri
<1>2. /\ voci' \in [Destinazioni -> Mostrabili']
      /\ passate' \in [Destinazioni -> SUBSET Mostrabili']
      /\ \A x \in Destinazioni : voci'[x] \in passate'[x]
  BY <1>1 DEF IInv, AltriMettono, Promessa!Mostra
<1>3. TypeOK'
  BY AltriAssunti DEF IInv, TypeOK, AltriMettono
<1>4. IInv'
  BY <1>2, <1>3 DEF IInv, AltriMettono
<1> QED
  BY <1>4 DEF AltriMettono, Promessa!AltriMettono, Promessa!Mostra

\* A power failure: every entry it may bring back was shown whole, because only
\* synced files were ever shown.
LEMMA PassoDelGuasto ==
    ASSUME IInv, MancaCorrente
    PROVE  IInv' /\ Promessa!MancaCorrente
<1>1. \A d \in Destinazioni : \A c \in passate[d] : DopoIlGuasto(c) = {c}
  <2> SUFFICES ASSUME NEW d \in Destinazioni, NEW c \in passate[d]
               PROVE  DopoIlGuasto(c) = {c}
    OBVIOUS
  <2>1. c \in Mostrabili
    BY DEF IInv
  <2>2. c[2] \notin Scrittori \ sincroni
    BY <2>1, AltriAssunti DEF Mostrabili, Promessa!DiAltri
  <2> QED
    BY <2>2 DEF DopoIlGuasto
<1>2. \A d \in Destinazioni : UNION {DopoIlGuasto(c) : c \in passate[d]} = passate[d]
  BY <1>1
<1>3. \A d \in Destinazioni : voci'[d] \in passate[d]
  BY <1>2 DEF MancaCorrente
<1>4. voci' \in [Destinazioni -> UNION {passate[d] : d \in Destinazioni}]
  BY <1>3 DEF MancaCorrente
<1>5. Mostrabili' = Mostrabili /\ passate' = passate
  BY DEF MancaCorrente, Mostrabili, Promessa!DiAltri
<1>6. voci' \in [Destinazioni -> Mostrabili']
  BY <1>3, <1>4, <1>5 DEF IInv
<1>7. esiti' \in [Scrittori -> Esiti]
  BY EsitiPossibili DEF MancaCorrente, IInv, TypeOK
<1>8. TypeOK'
  BY <1>7 DEF MancaCorrente, IInv, TypeOK
<1>9. IInv'
  BY <1>3, <1>5, <1>6, <1>8, EsitiPossibili DEF IInv, MancaCorrente
<1>10. Stati' = [w \in Scrittori |-> IF Stati[w] = "in_corso" THEN "morto" ELSE Stati[w]]
  BY EsitiPossibili DEF Stati, MancaCorrente, IInv
<1> QED
  BY <1>3, <1>4, <1>9, <1>10 DEF Promessa!MancaCorrente, MancaCorrente, Stati

LEMMA Passo == IInv /\ [Next]_vars => IInv' /\ [Promessa!Next]_(Promessa!vars)
<1> SUFFICES ASSUME IInv, [Next]_vars
             PROVE  IInv' /\ [Promessa!Next]_(Promessa!vars)
  OBVIOUS
<1>1. CASE \E w \in Scrittori, guasto \in BOOLEAN : Chiamata(w, guasto)
  BY <1>1, PassoDellaChiamata DEF Promessa!Next
<1>2. CASE \E w \in Scrittori : Muore(w)
  BY <1>2, PassoDegliAltri DEF Promessa!Next
<1>3. CASE \E d \in Destinazioni, c \in Promessa!DiAltri : AltriMettono(d, c)
  BY <1>3, PassoDelMondo DEF Promessa!Next
<1>4. CASE MancaCorrente
  BY <1>4, PassoDelGuasto DEF Promessa!Next
<1>5. CASE UNCHANGED vars
  BY <1>5 DEF vars, IInv, TypeOK, Mostrabili, Promessa!vars, Promessa!DiAltri
<1> QED
  BY <1>1, <1>2, <1>3, <1>4, <1>5 DEF Next, Finite

\* The types of the concurrent writes, in every reachable state.
THEOREM ScritturaTipata == Spec => []TypeOK
<1>1. IInv => TypeOK
  BY DEF IInv
<1> QED
  BY <1>1, InitIInv, Passo, PTL DEF Spec

\* scrivi_atomico implements the atomic write, whatever the number of writers and
\* destinations: every step of it is a publication of a whole file, a failure that
\* touches nothing, or invisible.
THEOREM ScritturaMantieneLaPromessa == Spec => MantieneLaPromessa
<1>1. Init => Promessa!Init
  BY DEF Init, Promessa!Init, InCorso
<1> QED
  BY <1>1, InitIInv, Passo, PTL DEF Spec, MantieneLaPromessa, Promessa!Spec

-----------------------------------------------------------------------------
(* The answers *)

\* What makes the answers true: only a call that answered `scritto` has shown its
\* file, it has no temporary left, and its entry is not free again unless somebody
\* else removed it.
Risposte ==
    /\ \A d \in Destinazioni : \A c \in passate[d] :
          c[2] \in Scrittori => esiti[c[2]].stato = "scritto"
    /\ \A w \in Scrittori :
         /\ pc[w] \in {"controlla", "crea"} => temporanei[w] = "assente"
         /\ esiti[w].stato = "fallito" /\ temporanei[w] # "assente" => esiti[w].effetto = "unknown"
         /\ esiti[w].stato = "scritto" =>
              /\ <<"intero", w>> \in passate[Dest(w)] /\ temporanei[w] = "assente"
              /\ Dest(w) \notin tolte => voci[Dest(w)] # Promessa!Assente
    /\ \A v, w \in Scrittori :
        /\ esiti[v].stato = "scritto" /\ esiti[w].stato = "scritto"
        /\ Dest(v) = Dest(w) /\ Dest(v) \notin tolte
        /\ ~ richieste[v].sovrascrivi /\ ~ richieste[w].sovrascrivi
        => v = w

\* A step of one call that shows nothing: only its own answer is at stake.
LEMMA RispostaSenzaFile ==
    ASSUME IInv, Risposte, NEW w \in Scrittori, pc[w] # "fine",
           UNCHANGED <<richieste, voci, passate, tolte>>,
           \A v \in Scrittori : v # w =>
              esiti'[v] = esiti[v] /\ temporanei'[v] = temporanei[v] /\ pc'[v] = pc[v],
           esiti'[w].stato # "scritto",
           pc'[w] \in {"controlla", "crea"} => temporanei'[w] = "assente",
           esiti'[w].stato = "fallito" /\ temporanei'[w] # "assente"
              => esiti'[w].effetto = "unknown"
    PROVE  Risposte'
<1>1. esiti[w].stato = "in_corso"
  BY DEF IInv
<1>2. \A v \in Scrittori : /\ esiti'[v].stato = "scritto" => v # w
                           /\ esiti[v].stato = "scritto" => v # w
                           /\ Dest(v)' = Dest(v)
  BY <1>1 DEF Dest
<1>3. \A d \in Destinazioni : \A c \in passate'[d] :
         c[2] \in Scrittori => esiti'[c[2]].stato = "scritto"
  BY <1>2 DEF Risposte
<1>4. \A v \in Scrittori :
         /\ pc'[v] \in {"controlla", "crea"} => temporanei'[v] = "assente"
         /\ esiti'[v].stato = "fallito" /\ temporanei'[v] # "assente"
              => esiti'[v].effetto = "unknown"
         /\ esiti'[v].stato = "scritto" =>
              /\ <<"intero", v>> \in passate'[Dest(v)'] /\ temporanei'[v] = "assente"
              /\ Dest(v)' \notin tolte' => voci'[Dest(v)'] # Promessa!Assente
  BY <1>2 DEF Risposte
<1>5. \A u, v \in Scrittori :
        /\ esiti'[u].stato = "scritto" /\ esiti'[v].stato = "scritto"
        /\ Dest(u)' = Dest(v)' /\ Dest(u)' \notin tolte'
        /\ ~ richieste'[u].sovrascrivi /\ ~ richieste'[v].sovrascrivi
        => u = v
  BY <1>2 DEF Risposte
<1> QED
  BY <1>3, <1>4, <1>5 DEF Risposte, Promessa!Assente

\* The rename: without the option the entry was free, so that nobody else has
\* answered `scritto` for it.
LEMMA RispostaConFile ==
    ASSUME IInv, Risposte, NEW w \in Scrittori, Rinomina(w, FALSE), PuoSostituire(w)
    PROVE  Risposte'
<1> DEFINE d == Dest(w)
<1>1. /\ pc[w] = "rinomina" /\ temporanei[w] = "intero"
      /\ esiti[w].stato = "in_corso" /\ d \in Destinazioni
  BY DEF Rinomina, IInv, TypeOK, Dest, Promessa!Richieste
<1>2. /\ voci' = [voci EXCEPT ![d] = <<"intero", w>>]
      /\ passate' = [passate EXCEPT ![d] = @ \cup {<<"intero", w>>}]
      /\ temporanei' = [temporanei EXCEPT ![w] = "assente"]
      /\ pc' = [pc EXCEPT ![w] = "fine"]
      /\ esiti' = [esiti EXCEPT ![w] = Scritto]
      /\ richieste' = richieste /\ tolte' = tolte
      /\ \A v \in Scrittori : Dest(v)' = Dest(v)
  BY <1>1 DEF Rinomina, Promessa!Mostra, Rende, Va, mondo, Dest
<1>3. /\ esiti'[w].stato = "scritto" /\ temporanei'[w] = "assente" /\ pc'[w] = "fine"
      /\ \A v \in Scrittori : v # w =>
            esiti'[v] = esiti[v] /\ temporanei'[v] = temporanei[v] /\ pc'[v] = pc[v]
  BY <1>2, EsitiPossibili DEF IInv, TypeOK
<1>4. /\ \A e \in Destinazioni : passate[e] \subseteq passate'[e]
      /\ \A e \in Destinazioni : \A c \in passate'[e] : c \in passate[e] \/ c = <<"intero", w>>
      /\ <<"intero", w>> \in passate'[d]
      /\ voci'[d] # Promessa!Assente
      /\ \A e \in Destinazioni : e # d => voci'[e] = voci[e]
  BY <1>1, <1>2, AltriAssunti DEF IInv, Promessa!Assente
<1>5. \A e \in Destinazioni : \A c \in passate'[e] :
         c[2] \in Scrittori => esiti'[c[2]].stato = "scritto"
  BY <1>3, <1>4 DEF Risposte
<1>6. \A v \in Scrittori :
         /\ pc'[v] \in {"controlla", "crea"} => temporanei'[v] = "assente"
         /\ esiti'[v].stato = "fallito" /\ temporanei'[v] # "assente"
              => esiti'[v].effetto = "unknown"
         /\ esiti'[v].stato = "scritto" =>
              /\ <<"intero", v>> \in passate'[Dest(v)'] /\ temporanei'[v] = "assente"
              /\ Dest(v)' \notin tolte' => voci'[Dest(v)'] # Promessa!Assente
  <2> TAKE v \in Scrittori
  <2>1. CASE v = w
    BY <1>2, <1>3, <1>4, <2>1
  <2>2. CASE v # w
    <3>1. Dest(v) \in Destinazioni
      BY DEF IInv, TypeOK, Dest, Promessa!Richieste
    <3> QED
      BY <1>2, <1>3, <1>4, <2>2, <3>1 DEF Risposte
  <2> QED
    BY <2>1, <2>2
<1>7. ~ richieste[w].sovrascrivi => voci[d] = Promessa!Assente
  BY DEF PuoSostituire
<1>8. \A u, v \in Scrittori :
        /\ esiti'[u].stato = "scritto" /\ esiti'[v].stato = "scritto"
        /\ Dest(u)' = Dest(v)' /\ Dest(u)' \notin tolte'
        /\ ~ richieste'[u].sovrascrivi /\ ~ richieste'[v].sovrascrivi
        => u = v
  <2> SUFFICES ASSUME NEW u \in Scrittori, NEW v \in Scrittori,
                      esiti'[u].stato = "scritto", esiti'[v].stato = "scritto",
                      Dest(u) = Dest(v), Dest(u) \notin tolte,
                      ~ richieste[u].sovrascrivi, ~ richieste[v].sovrascrivi
               PROVE  u = v
    BY <1>2
  <2>1. CASE u # w /\ v # w
    BY <1>3, <2>1 DEF Risposte
  <2>2. CASE u = w /\ v # w
    BY <1>3, <1>7, <2>2 DEF Risposte
  <2>3. CASE u # w /\ v = w
    BY <1>3, <1>7, <2>3 DEF Risposte
  <2> QED
    BY <2>1, <2>2, <2>3
<1> QED
  BY <1>5, <1>6, <1>8 DEF Risposte, Promessa!Assente

LEMMA RispostaDellaChiamata ==
    ASSUME IInv, Risposte, NEW w \in Scrittori, NEW guasto \in BOOLEAN, Chiamata(w, guasto)
    PROVE  Risposte'
<1> USE DEF Va, mondo, file
<1>0. esiti \in [Scrittori -> Esiti]
  BY DEF IInv, TypeOK
<1>1. CASE VerificaDestinazione(w, guasto) \/ CreaTemporaneo(w, guasto)
  <2>1. temporanei[w] = "assente" /\ esiti[w].stato = "in_corso" /\ pc[w] # "fine"
    BY <1>1 DEF VerificaDestinazione, CreaTemporaneo, Risposte, IInv
  <2>2. /\ UNCHANGED <<richieste, voci, passate, tolte>>
        /\ \A v \in Scrittori : v # w =>
              esiti'[v] = esiti[v] /\ temporanei'[v] = temporanei[v] /\ pc'[v] = pc[v]
    BY <1>1 DEF VerificaDestinazione, CreaTemporaneo, Rende, IInv, TypeOK
  <2>3. /\ esiti'[w].stato # "scritto"
        /\ pc'[w] \in {"controlla", "crea"} => temporanei'[w] = "assente"
        /\ esiti'[w].stato = "fallito" => temporanei'[w] = "assente"
    BY <1>1, <2>1, EsitiPossibili
    DEF VerificaDestinazione, CreaTemporaneo, Rende, IInv, TypeOK
  <2> QED
    BY <2>1, <2>2, <2>3, RispostaSenzaFile
<1>2. CASE \/ Scrive(w, guasto) \/ Sincronizza(w, guasto) \/ VerificaTemporaneo(w, guasto)
           \/ Rinomina(w, guasto) /\ (guasto \/ ~ PuoSostituire(w))
  <2>1. esiti[w].stato = "in_corso" /\ pc[w] # "fine"
    BY <1>2 DEF Scrive, Sincronizza, VerificaTemporaneo, Rinomina, IInv
  <2>2. /\ UNCHANGED <<richieste, voci, passate, tolte>>
        /\ \A v \in Scrittori : v # w =>
              esiti'[v] = esiti[v] /\ temporanei'[v] = temporanei[v] /\ pc'[v] = pc[v]
        /\ pc'[w] \notin {"controlla", "crea"}
    BY <1>2 DEF Scrive, Sincronizza, VerificaTemporaneo, Rinomina, Scarta, IInv, TypeOK
  <2>3. esiti'[w].stato = "in_corso"
    BY <1>0, <1>2, <2>1, StatiDopo
    DEF Scrive, Sincronizza, VerificaTemporaneo, Rinomina, Scarta, IInv, TypeOK
  <2> QED
    BY <2>1, <2>2, <2>3, RispostaSenzaFile
<1>3. CASE Rinomina(w, guasto) /\ ~ guasto /\ PuoSostituire(w)
  BY <1>3, RispostaConFile
<1>4. CASE ScartaTemporaneo(w, guasto)
  <2>1. /\ pc[w] # "fine"
        /\ UNCHANGED <<richieste, voci, passate, tolte>>
        /\ \A v \in Scrittori : v # w =>
              esiti'[v] = esiti[v] /\ temporanei'[v] = temporanei[v] /\ pc'[v] = pc[v]
        /\ pc'[w] = "fine"
        /\ esiti'[w] = Fallito(esiti[w].errore, EffettoDelloScarto(guasto))
        /\ ~ guasto => temporanei'[w] = "assente"
    BY <1>4 DEF ScartaTemporaneo, Rende, IInv, TypeOK
  <2>2. /\ esiti'[w].stato = "fallito"
        /\ guasto => esiti'[w].effetto = "unknown"
    BY <2>1 DEF Fallito, EffettoDelloScarto
  <2> QED
    BY <2>1, <2>2, RispostaSenzaFile
<1> QED
  BY <1>1, <1>2, <1>3, <1>4 DEF Chiamata

LEMMA RisposteRestano == IInv /\ Risposte /\ [Next]_vars => Risposte'
<1> SUFFICES ASSUME IInv, Risposte, [Next]_vars PROVE Risposte'
  OBVIOUS
<1> USE DEF Va, mondo, file
<1>1. CASE \E w \in Scrittori, guasto \in BOOLEAN : Chiamata(w, guasto)
  BY <1>1, RispostaDellaChiamata
<1>2. ASSUME NEW w \in Scrittori, Muore(w) PROVE Risposte'
  <2>1. /\ pc[w] # "fine"
        /\ UNCHANGED <<richieste, voci, passate, tolte>>
        /\ \A v \in Scrittori : v # w =>
              esiti'[v] = esiti[v] /\ temporanei'[v] = temporanei[v] /\ pc'[v] = pc[v]
        /\ pc'[w] = "fine" /\ esiti'[w] = Morto
    BY <1>2 DEF Muore, Rende, IInv, TypeOK
  <2> QED
    BY <2>1, EsitiPossibili, RispostaSenzaFile
<1>3. ASSUME NEW d \in Destinazioni, NEW c \in Promessa!DiAltri, AltriMettono(d, c)
      PROVE  Risposte'
  <2>1. /\ UNCHANGED <<richieste, pc, temporanei, esiti>>
        /\ c[2] \notin Scrittori
        /\ \A e \in Destinazioni : /\ passate[e] \subseteq passate'[e]
                                   /\ passate'[e] \subseteq passate[e] \cup {c}
        /\ tolte \subseteq tolte'
        /\ \A e \in Destinazioni : e \notin tolte' /\ voci[e] # Promessa!Assente
              => voci'[e] # Promessa!Assente
        /\ \A v \in Scrittori : Dest(v)' = Dest(v) /\ Dest(v) \in Destinazioni
    BY <1>3, AltriAssunti
    DEF AltriMettono, Promessa!Mostra, Promessa!DiAltri, Promessa!Assente, IInv, TypeOK, Dest,
        Promessa!Richieste
  <2>2. \A e \in Destinazioni : \A x \in passate'[e] :
           x[2] \in Scrittori => esiti'[x[2]].stato = "scritto"
    BY <2>1 DEF Risposte
  <2>3. \A v \in Scrittori :
         /\ pc'[v] \in {"controlla", "crea"} => temporanei'[v] = "assente"
         /\ esiti'[v].stato = "fallito" /\ temporanei'[v] # "assente"
              => esiti'[v].effetto = "unknown"
         /\ esiti'[v].stato = "scritto" =>
              /\ <<"intero", v>> \in passate'[Dest(v)'] /\ temporanei'[v] = "assente"
              /\ Dest(v)' \notin tolte' => voci'[Dest(v)'] # Promessa!Assente
    BY <2>1 DEF Risposte
  <2>4. \A u, v \in Scrittori :
        /\ esiti'[u].stato = "scritto" /\ esiti'[v].stato = "scritto"
        /\ Dest(u)' = Dest(v)' /\ Dest(u)' \notin tolte'
        /\ ~ richieste'[u].sovrascrivi /\ ~ richieste'[v].sovrascrivi
        => u = v
    BY <2>1 DEF Risposte
  <2> QED
    BY <2>2, <2>3, <2>4 DEF Risposte, Promessa!Assente
<1>4. CASE MancaCorrente
  <2>1. /\ UNCHANGED <<richieste, passate, temporanei>>
        /\ \A v \in Scrittori : pc'[v] = "fine" /\ Dest(v)' = Dest(v) /\ Dest(v) \in Destinazioni
        /\ \A v \in Scrittori : esiti[v].stato = "scritto" => esiti'[v] = esiti[v]
        /\ \A v \in Scrittori : esiti'[v].stato # "morto" => esiti'[v] = esiti[v]
        /\ tolte \subseteq tolte'
        /\ \A e \in Destinazioni : e \notin tolte' => voci'[e] = voci[e]
    BY <1>4, EsitiPossibili DEF MancaCorrente, IInv, TypeOK, Dest, Promessa!Richieste
  <2>2. \A e \in Destinazioni : \A x \in passate'[e] :
           x[2] \in Scrittori => esiti'[x[2]].stato = "scritto"
    BY <2>1 DEF Risposte
  <2>3. \A v \in Scrittori :
         /\ pc'[v] \in {"controlla", "crea"} => temporanei'[v] = "assente"
         /\ esiti'[v].stato = "fallito" /\ temporanei'[v] # "assente"
              => esiti'[v].effetto = "unknown"
         /\ esiti'[v].stato = "scritto" =>
              /\ <<"intero", v>> \in passate'[Dest(v)'] /\ temporanei'[v] = "assente"
              /\ Dest(v)' \notin tolte' => voci'[Dest(v)'] # Promessa!Assente
    <3> TAKE v \in Scrittori
    <3>1. pc'[v] = "fine" /\ temporanei'[v] = temporanei[v]
      BY <2>1
    <3>2. CASE esiti'[v].stato = "morto"
      BY <3>1, <3>2
    <3>3. CASE esiti'[v].stato # "morto"
      <4>1. esiti'[v] = esiti[v] /\ Dest(v)' = Dest(v) /\ Dest(v) \in Destinazioni
        BY <2>1, <3>3
      <4> QED
        BY <2>1, <3>1, <4>1 DEF Risposte
    <3> QED
      BY <3>2, <3>3
  <2>4. \A u, v \in Scrittori :
        /\ esiti'[u].stato = "scritto" /\ esiti'[v].stato = "scritto"
        /\ Dest(u)' = Dest(v)' /\ Dest(u)' \notin tolte'
        /\ ~ richieste'[u].sovrascrivi /\ ~ richieste'[v].sovrascrivi
        => u = v
    BY <2>1 DEF Risposte
  <2> QED
    BY <2>2, <2>3, <2>4 DEF Risposte, Promessa!Assente
<1>5. CASE UNCHANGED vars
  BY <1>5 DEF vars, Risposte, Dest, Promessa!Assente
<1> QED
  BY <1>1, <1>2, <1>3, <1>4, <1>5 DEF Next, Finite

\* The answer of scrivi_atomico tells the truth about the disk, for any number of
\* writers: a failure left nothing at the destination and confesses a temporary that
\* stayed, a success is there, and without the option only one of them is a success.
THEOREM EsitoSempreVeritiero == Spec => []EsitoVeritiero
<1>1. Init => Risposte
  <2>1. ASSUME Init PROVE Risposte
    <3>1. \A w \in Scrittori : esiti[w].stato = "in_corso" /\ temporanei[w] = "assente"
      BY <2>1, EsitiPossibili DEF Init
    <3>2. \A d \in Destinazioni : \A c \in passate[d] : c[2] \notin Scrittori
      BY <2>1, AltriAssunti DEF Init, Promessa!DiAltri
    <3> QED
      BY <3>1, <3>2 DEF Risposte
  <2> QED
    BY <2>1
<1>2. Risposte => EsitoVeritiero
  <2>1. ASSUME Risposte PROVE EsitoVeritiero
    <3>1. \A w \in Scrittori : esiti[w].stato = "fallito" =>
             \A d \in Destinazioni : \A c \in passate[d] : c[2] # w
      BY <2>1 DEF Risposte
    <3> QED
      BY <2>1, <3>1 DEF Risposte, EsitoVeritiero
  <2> QED
    BY <2>1
<1> QED
  BY <1>1, <1>2, InitIInv, Passo, RisposteRestano, PTL DEF Spec

-----------------------------------------------------------------------------
(* The parallel kernels: sequences and sets of pairs *)

\* Every nonempty set of naturals has a least element.
LEMMA MinimoDi ==
    ASSUME NEW T, T \subseteq Nat, T # {}
    PROVE  Min(T) \in T /\ \A y \in T : Min(T) <= y
<1>1. PICK x \in T : \A y \in T : ~ (<<y, x>> \in OpToRel(<, Nat))
  BY NatLessThanWellFounded, WFMin
<1>2. \A y \in T : ~ (y < x)
  BY <1>1 DEF OpToRel
<1>3. \A y \in T : x <= y
  BY <1>2
<1> QED
  BY <1>3 DEF Min

\* A function on 1 .. n is a sequence of its values.
LEMMA FilaDi ==
    ASSUME NEW n \in Nat, NEW f, f = [k \in 1 .. n |-> f[k]]
    PROVE  /\ f \in Seq({f[k] : k \in 1 .. n})
           /\ Len(f) = n /\ DOMAIN f = 1 .. n
<1>1. f \in [1 .. n -> {f[k] : k \in 1 .. n}]
  OBVIOUS
<1>2. f \in Seq({f[k] : k \in 1 .. n})
  BY <1>1, IsASeq
<1> QED
  BY <1>1, <1>2, LenProperties

\* The members of a finite set in an order are a sequence as long as the set is large.
LEMMA FilaPerRelazione ==
    ASSUME NEW S, IsFiniteSet(S), NEW R
    PROVE  /\ Cardinality(S) \in Nat
           /\ DOMAIN PerRelazione(S, R) = 1 .. Cardinality(S)
           /\ Len(PerRelazione(S, R)) = Cardinality(S)
           /\ \E V : PerRelazione(S, R) \in Seq(V)
<1> DEFINE f == PerRelazione(S, R)
<1>1. Cardinality(S) \in Nat
  BY FS_CardinalityType
<1>2. f = [k \in 1 .. Cardinality(S) |-> f[k]]
  BY DEF PerRelazione
<1> HIDE DEF f
<1>3. /\ f \in Seq({f[k] : k \in 1 .. Cardinality(S)})
      /\ Len(f) = Cardinality(S) /\ DOMAIN f = 1 .. Cardinality(S)
  BY <1>1, <1>2, FilaDi
<1> QED
  BY <1>1, <1>3 DEF f


\* The numbers of a finite set, in order, are a sequence as long as the set is large.
LEMMA FilaCrescente ==
    ASSUME NEW S, IsFiniteSet(S)
    PROVE  /\ Cardinality(S) \in Nat
           /\ DOMAIN Crescente(S) = 1 .. Cardinality(S)
           /\ Len(Crescente(S)) = Cardinality(S)
           /\ \E V : Crescente(S) \in Seq(V)
BY FilaPerRelazione DEF Crescente

\* What a set of pairs gains when one of its rows takes the places up to b.
LEMMA RigaPiuLunga ==
    ASSUME NEW X, IsFiniteSet(X), NEW Y, NEW i, NEW a \in Int, NEW b \in Int, a <= b,
           Y \subseteq X \cup ({i} \X ((a + 1) .. b))
    PROVE  /\ IsFiniteSet(Y) /\ Cardinality(Y) \in Nat
           /\ Cardinality(Y) <= Cardinality(X) + (b - a)
<1> DEFINE Z == (a + 1) .. b
<1>1. IsFiniteSet(Z) /\ Cardinality(Z) = b - a
  <2>1. a + 1 \in Int
    OBVIOUS
  <2>2. IsFiniteSet(Z) /\ Cardinality(Z) = IF a + 1 > b THEN 0 ELSE b - (a + 1) + 1
    BY <2>1, FS_Interval
  <2> QED
    BY <2>2
<1>2. IsFiniteSet({i}) /\ Cardinality({i}) = 1
  BY FS_Singleton
<1> HIDE DEF Z
<1> DEFINE W == {i} \X Z
<1>3. IsFiniteSet(W) /\ Cardinality(W) = Cardinality({i}) * Cardinality(Z)
  <2> DEFINE U == {i}
  <2> HIDE DEF U
  <2>1. IsFiniteSet(U)
    BY <1>2 DEF U
  <2>2. IsFiniteSet(U \X Z) /\ Cardinality(U \X Z) = Cardinality(U) * Cardinality(Z)
    BY <1>1, <2>1, FS_Product
  <2> QED
    BY <2>2 DEF U
<1>4. IsFiniteSet(W) /\ Cardinality(W) = b - a
  <2> HIDE DEF W
  <2>1. 1 * (b - a) = b - a
    OBVIOUS
  <2> QED
    BY <1>1, <1>2, <1>3, <2>1
<1> HIDE DEF W
<1>5. /\ IsFiniteSet(X \cup W)
      /\ Cardinality(X \cup W) = Cardinality(X) + Cardinality(W) - Cardinality(X \cap W)
  BY <1>4, FS_Union
<1>6. IsFiniteSet(X \cap W)
  BY FS_Intersection
<1>7. /\ Cardinality(X) \in Nat /\ Cardinality(X \cap W) \in Nat /\ Cardinality(X \cup W) \in Nat
  BY <1>5, <1>6, FS_CardinalityType
<1>8. Y \in SUBSET (X \cup W)
  BY DEF W, Z
<1>9. IsFiniteSet(Y) /\ Cardinality(Y) <= Cardinality(X \cup W)
  BY <1>5, <1>8, FS_Subset
<1>10. Cardinality(Y) \in Nat
  BY <1>9, FS_CardinalityType
<1> QED
  BY <1>4, <1>5, <1>7, <1>9, <1>10

-----------------------------------------------------------------------------
(* The join *)

\* g is the sum of the first n counts.
SommaFino(s, g, n) == g = [k \in 0 .. n |-> IF k = 0 THEN 0 ELSE Join!Somma(g[k - 1], s[k])]

LEMMA SommaEsiste ==
    ASSUME NEW s, NEW N \in Nat
    PROVE  \E g : SommaFino(s, g, N)
<1> DEFINE T == {n \in Nat : ~ \E g : SommaFino(s, g, n)}
<1> SUFFICES ASSUME T # {} PROVE FALSE
  OBVIOUS
<1>1. PICK m \in T : \A n \in T : m <= n
  <2> HIDE DEF T
  <2>1. T \subseteq Nat
    BY DEF T
  <2> QED
    BY <2>1, MinimoDi
<1>2. CASE m = 0
  <2> DEFINE g == [k \in 0 .. 0 |-> 0]
  <2>1. g = [k \in 0 .. 0 |-> IF k = 0 THEN 0 ELSE Join!Somma(g[k - 1], s[k])]
    OBVIOUS
  <2>2. SommaFino(s, g, 0)
    BY <2>1 DEF SommaFino
  <2> QED
    BY <1>2, <2>2
<1>3. CASE m # 0
  <2>1. m \in Nat /\ m - 1 \in Nat /\ ~ (m <= m - 1)
    BY <1>3
  <2>2. PICK h : SommaFino(s, h, m - 1)
    BY <1>1, <2>1
  <2> DEFINE g == [k \in 0 .. m |-> IF k = m THEN Join!Somma(h[m - 1], s[m]) ELSE h[k]]
  <2>3. ASSUME NEW k \in 0 .. m
        PROVE  g[k] = IF k = 0 THEN 0 ELSE Join!Somma(g[k - 1], s[k])
    <3>1. CASE k = m
      <4>1. g[k - 1] = h[m - 1]
        BY <1>3, <3>1, <2>1
      <4> QED
        BY <1>3, <3>1, <4>1
    <3>2. CASE k # m
      <4>1. k \in 0 .. (m - 1) /\ g[k] = h[k]
        BY <2>1, <3>2
      <4>2. h[k] = IF k = 0 THEN 0 ELSE Join!Somma(h[k - 1], s[k])
        BY <2>2, <4>1 DEF SommaFino
      <4>3. k # 0 => g[k - 1] = h[k - 1]
        BY <2>1, <3>2
      <4> QED
        BY <4>1, <4>2, <4>3
    <3> QED
      BY <3>1, <3>2
  <2>4. SommaFino(s, g, m)
    <3>1. g = [k \in 0 .. m |-> g[k]]
      OBVIOUS
    <3> HIDE DEF g
    <3>2. g = [k \in 0 .. m |-> IF k = 0 THEN 0 ELSE Join!Somma(g[k - 1], s[k])]
      BY <2>3, <3>1
    <3> QED
      BY <3>2 DEF SommaFino
  <2> QED
    BY <2>4
<1> QED
  BY <1>2, <1>3

\* The total of counts is a count.
LEMMA TotaleNaturale ==
    ASSUME NEW s, Len(s) \in Nat, \A k \in 1 .. Len(s) : s[k] \in Nat
    PROVE  Join!Totale(s) \in Nat
<1> DEFINE N == Len(s)
           G == CHOOSE g : SommaFino(s, g, N)
<1>1. SommaFino(s, G, N)
  BY SommaEsiste
<1>2. Join!Totale(s) = G[N]
  BY DEF Join!Totale, SommaFino
<1> HIDE DEF G
<1>3. G = [k \in 0 .. N |-> IF k = 0 THEN 0 ELSE Join!Somma(G[k - 1], s[k])]
  BY <1>1 DEF SommaFino
<1> DEFINE T == {n \in Nat : n <= N /\ G[n] \notin Nat}
<1>4. SUFFICES ASSUME T # {} PROVE FALSE
  BY <1>2
<1>5. PICK m \in T : \A n \in T : m <= n
  <2> HIDE DEF T
  <2>1. T \subseteq Nat
    BY DEF T
  <2> QED
    BY <1>4, <2>1, MinimoDi
<1>6. m # 0
  BY <1>3, <1>5
<1>7. m \in 1 .. N /\ m - 1 \in 0 .. N /\ G[m] = Join!Somma(G[m - 1], s[m])
  BY <1>3, <1>5, <1>6
<1>8. G[m - 1] \in Nat
  BY <1>5, <1>7
<1>9. s[m] \in Nat
  BY <1>7
<1> QED
  BY <1>5, <1>7, <1>8, <1>9, LimitiAssunti DEF Join!Somma


\* Integer division.
LEMMA Divisione ==
    ASSUME NEW x \in Nat, NEW y \in Nat \ {0}
    PROVE  x \div y \in Nat /\ (x \div y) * y <= x /\ x < (x \div y) * y + y
OBVIOUS

\* A call of the join: its chunks have counts, and what is allocated is within max_rows.
InvJoin ==
    /\ caso \in CasiJoin
    /\ lavori \in [DOMAIN Join!Intervalli(caso) -> [riga : Int, conto : Nat, scritte : Nat]]
    /\ condiviso = [ abbinate |-> condiviso.abbinate, uscita |-> condiviso.uscita,
                     guasto |-> condiviso.guasto ]
    /\ \E m \in 0 .. caso.max_rows : condiviso.uscita = [k \in 1 .. m |-> condiviso.uscita[k]]

\* The matches of a left row, and what it adds to the count, are finitely many.
LEMMA AbbinateDellaRiga ==
    ASSUME NEW c \in CasiJoin, NEW riga
    PROVE  /\ Len(Join!get(c, riga)) \in Nat
           /\ Join!ContoDellaRiga(c, riga) \in Nat
           /\ Len(Join!CoppieDellaRiga(c, riga)) \in Nat
           /\ \A abbinate : Len(Join!Spaiate(c, abbinate)) \in Nat
<1>1. c.destra \in Seq(Chiavi)
  BY CasiAssunti
<1>2. Len(c.destra) \in Nat /\ DOMAIN c.destra = 1 .. Len(c.destra)
  BY <1>1, LenProperties
<1>3. IsFiniteSet(DOMAIN c.destra)
  BY <1>2, FS_Interval
<1>4. \A S : Join!Crescente(S) = Crescente(S)
  <2>1. ASSUME NEW S PROVE Join!Cardinality(S) = Cardinality(S)
    BY DEF Cardinality, Join!Cardinality
  <2>2. ASSUME NEW S, NEW R, NEW k PROVE Join!AlPosto(S, R, k) = AlPosto(S, R, k)
    BY <2>1 DEF AlPosto, Join!AlPosto
  <2> QED
    BY <2>1, <2>2 DEF Crescente, Join!Crescente, PerRelazione, Join!PerRelazione
<1>5. ASSUME NEW S, S \subseteq DOMAIN c.destra
      PROVE  /\ Cardinality(S) \in Nat /\ Len(Join!Crescente(S)) = Cardinality(S)
             /\ DOMAIN Join!Crescente(S) = 1 .. Cardinality(S)
  <2>1. IsFiniteSet(S)
    BY <1>3, <1>5, FS_Subset
  <2> QED
    BY <2>1, <1>4, FilaCrescente
<1>6. Len(<<>>) = 0 /\ DOMAIN <<>> = 1 .. 0
  OBVIOUS
<1>7. PICK n \in Nat : Len(Join!get(c, riga)) = n /\ DOMAIN Join!get(c, riga) = 1 .. n
  <2> DEFINE v == c.sinistra[riga]
             S == {j \in DOMAIN c.destra : c.destra[j] = v}
  <2>1. CASE v \in DOMAIN Join!build(c)
    <3>1. Join!get(c, riga) = Join!Crescente(S)
      BY <2>1 DEF Join!get, Join!build
    <3>2. S \subseteq DOMAIN c.destra
      OBVIOUS
    <3> QED
      BY <1>5, <3>1, <3>2
  <2>2. CASE v \notin DOMAIN Join!build(c)
    <3>1. Join!get(c, riga) = <<>>
      BY <2>2 DEF Join!get
    <3> QED
      BY <1>6, <3>1
  <2> QED
    BY <2>1, <2>2
<1>8. Join!ContoDellaRiga(c, riga) \in Nat
  BY <1>7 DEF Join!ContoDellaRiga
<1>9. Len(Join!CoppieDellaRiga(c, riga)) \in Nat
  <2> DEFINE f == [k \in 1 .. n |-> <<riga, Join!get(c, riga)[k]>>]
  <2>1. f = [k \in 1 .. n |-> f[k]]
    OBVIOUS
  <2>2. [k \in DOMAIN Join!get(c, riga) |-> <<riga, Join!get(c, riga)[k]>>] = f
    BY <1>7
  <2>3. Len(f) = n
    <3> HIDE DEF f
    <3> QED
      BY <2>1, FilaDi
  <2>4. Len(<< <<riga, Nulla>> >>) = 1
    OBVIOUS
  <2> HIDE DEF f
  <2> QED
    BY <1>6, <2>2, <2>3, <2>4 DEF Join!CoppieDellaRiga
<1>10. ASSUME NEW abbinate PROVE Len(Join!Spaiate(c, abbinate)) \in Nat
  <2>1. DOMAIN c.destra \ abbinate \subseteq DOMAIN c.destra
    OBVIOUS
  <2> QED
    BY <1>5, <1>6, <2>1 DEF Join!Spaiate
<1> QED
  BY <1>7, <1>8, <1>9, <1>10

LEMMA IntervalliDelJoin ==
    ASSUME NEW c \in CasiJoin
    PROVE  \E n \in Nat : /\ DOMAIN Join!Intervalli(c) = 1 .. n
                          /\ \A k \in 1 .. n : /\ Join!Intervalli(c)[k].da \in Int
                                               /\ Join!Intervalli(c)[k].a \in Int
<1>1. c.sinistra \in Seq(Chiavi)
  BY CasiAssunti
<1>2. Len(c.sinistra) \in Nat
  BY <1>1, LenProperties
<1> DEFINE d == Join!DimensioneChunk(c)
<1>3. d \in Nat \ {0}
  <2>1. c.sinistra # <<>> => Len(c.sinistra) # 0
    BY <1>1, EmptySeq
  <2> QED
    BY <1>2, <2>1, LimitiAssunti DEF Join!DimensioneChunk
<1> HIDE DEF d
<1> DEFINE n == (Len(c.sinistra) + d - 1) \div d
<1>4. n \in Nat
  <2>1. Len(c.sinistra) + d - 1 \in Nat
    BY <1>2, <1>3
  <2> QED
    BY <1>3, <2>1, Divisione
<1>5. \A k \in Int : k * d \in Int /\ (k - 1) * d + 1 \in Int
  BY <1>3
<1>6. Join!Intervalli(c) =
        [ k \in 1 .. n |-> [ da |-> (k - 1) * d + 1,
                             a  |-> IF k * d < Len(c.sinistra) THEN k * d ELSE Len(c.sinistra) ] ]
  BY DEF Join!Intervalli, d
<1> HIDE DEF n
<1>7. DOMAIN Join!Intervalli(c) = 1 .. n
  BY <1>6
<1>8. ASSUME NEW k \in 1 .. n
      PROVE  Join!Intervalli(c)[k].da \in Int /\ Join!Intervalli(c)[k].a \in Int
  <2>1. k \in Int
    BY <1>4
  <2>2. k * d \in Int /\ (k - 1) * d + 1 \in Int
    BY <1>5, <2>1
  <2>3. Join!Intervalli(c)[k] =
          [ da |-> (k - 1) * d + 1,
            a  |-> IF k * d < Len(c.sinistra) THEN k * d ELSE Len(c.sinistra) ]
    BY <1>6
  <2> QED
    BY <1>2, <2>2, <2>3
<1> QED
  BY <1>4, <1>7, <1>8

LEMMA InitJoin_Inv ==
    ASSUME NEW c \in CasiJoin, Join!InitJoin(c)
    PROVE  InvJoin
<1>1. PICK n \in Nat : /\ DOMAIN Join!Intervalli(c) = 1 .. n
                       /\ \A k \in 1 .. n : Join!Intervalli(c)[k].da \in Int
  BY IntervalliDelJoin
<1>2. lavori \in [DOMAIN Join!Intervalli(c) -> [riga : Int, conto : Nat, scritte : Nat]]
  BY <1>1 DEF Join!InitJoin
<1>3. condiviso = [abbinate |-> {}, uscita |-> <<>>, guasto |-> FALSE]
  BY DEF Join!InitJoin
<1>4. condiviso.uscita = [k \in 1 .. 0 |-> condiviso.uscita[k]]
  BY <1>3
<1>5. caso = c /\ c.max_rows \in 0 .. MaxUsize
  BY CasiAssunti DEF Join!InitJoin
<1>6. 0 \in 0 .. caso.max_rows
  BY <1>5, LimitiAssunti
<1>7. condiviso = [ abbinate |-> condiviso.abbinate, uscita |-> condiviso.uscita,
                    guasto |-> condiviso.guasto ]
  BY <1>3
<1> QED
  BY <1>2, <1>4, <1>5, <1>6, <1>7 DEF InvJoin

LEMMA PassoJoin ==
    ASSUME InvJoin, Join!NextJoin
    PROVE  InvJoin'
<1> DEFINE L == [riga : Int, conto : Nat, scritte : Nat]
<1>0. PICK n \in Nat : /\ DOMAIN Join!Intervalli(caso) = 1 .. n
                       /\ \A k \in 1 .. n : /\ Join!Intervalli(caso)[k].da \in Int
                                            /\ Join!Intervalli(caso)[k].a \in Int
  BY IntervalliDelJoin DEF InvJoin
<1>1. lavori \in [1 .. n -> L]
  BY <1>0 DEF InvJoin
<1>2. PICK m \in 0 .. caso.max_rows : condiviso.uscita = [k \in 1 .. m |-> condiviso.uscita[k]]
  BY DEF InvJoin
<1>3. caso \in CasiJoin /\ caso.max_rows \in Nat
  BY CasiAssunti, LimitiAssunti DEF InvJoin
<1>4. condiviso = [ abbinate |-> condiviso.abbinate, uscita |-> condiviso.uscita,
                    guasto |-> condiviso.guasto ]
  BY DEF InvJoin
<1>5. CASE Join!Generico \/ Join!Coda
  BY <1>5 DEF Join!Generico, Join!Coda, InvJoin
<1>6. CASE Join!Alloca
  <2> DEFINE quante == Join!Somma(Join!probe_total, Len(Join!Spaiate(caso, condiviso.abbinate)))
  <2>1. quante \in Nat
    <3>1. Join!Conti = [k \in 1 .. n |-> lavori[k].conto]
      BY <1>1 DEF Join!Conti
    <3>2. \A k \in 1 .. n : lavori[k].conto \in Nat
      BY <1>1
    <3>3. Join!Conti = [k \in 1 .. n |-> Join!Conti[k]]
      BY <3>1
    <3>4. Len(Join!Conti) = n
      BY <3>3, FilaDi
    <3>5. Join!Totale(Join!Conti) \in Nat
      BY <3>1, <3>2, <3>4, TotaleNaturale
    <3>6. Len(Join!Spaiate(caso, condiviso.abbinate)) \in Nat
      BY <1>3, AbbinateDellaRiga
    <3> QED
      BY <3>5, <3>6, LimitiAssunti DEF Join!Somma, Join!probe_total
  <2> HIDE DEF quante
  <2>2. CASE quante > caso.max_rows
    <3>1. UNCHANGED <<caso, lavori, condiviso>>
      BY <1>6, <2>2 DEF Join!Alloca, quante
    <3> QED
      BY <3>1 DEF InvJoin
  <2>3. CASE ~ (quante > caso.max_rows)
    <3>1. /\ condiviso' = [condiviso EXCEPT !.uscita = [k \in 1 .. quante |-> <<Nulla, Nulla>>]]
          /\ lavori' = [k \in DOMAIN lavori |->
                          [lavori[k] EXCEPT !.riga = Join!Intervalli(caso)[k].da]]
          /\ caso' = caso
          /\ \A k \in DOMAIN lavori : lavori[k].riga > Join!Intervalli(caso)[k].a
      BY <1>6, <2>3 DEF Join!Alloca, quante
    <3>2. quante \in 0 .. caso.max_rows
      BY <1>3, <2>1, <2>3
    <3>3. /\ condiviso'.uscita = [k \in 1 .. quante |-> <<Nulla, Nulla>>]
          /\ condiviso' = [ abbinate |-> condiviso'.abbinate, uscita |-> condiviso'.uscita,
                            guasto |-> condiviso'.guasto ]
      BY <1>4, <3>1
    <3>4. condiviso'.uscita = [k \in 1 .. quante |-> condiviso'.uscita[k]]
      BY <3>3
    <3>5. lavori' \in [1 .. n -> L]
      <4>1. ASSUME NEW k \in 1 .. n
            PROVE  [lavori[k] EXCEPT !.riga = Join!Intervalli(caso)[k].da] \in L
        <5>1. lavori[k] \in L /\ Join!Intervalli(caso)[k].da \in Int
          BY <1>0, <1>1
        <5> QED
          BY <5>1
      <4> HIDE DEF L
      <4> QED
        BY <1>1, <3>1, <4>1
    <3> QED
      BY <1>0, <1>3, <3>1, <3>2, <3>3, <3>4, <3>5 DEF InvJoin
  <2> QED
    BY <2>2, <2>3
<1>7. ASSUME NEW chunk \in DOMAIN lavori, Join!Conta(chunk) PROVE InvJoin'
  <2> DEFINE l == lavori[chunk]
             conto == Join!Somma(l.conto, Join!ContoDellaRiga(caso, l.riga))
             dopo == IF conto > MaxUsize THEN Join!Intervalli(caso)[chunk].a + 1 ELSE l.riga + 1
  <2>1. l \in L
    BY <1>1, <1>7
  <2>2. conto \in Nat
    <3>1. Join!ContoDellaRiga(caso, l.riga) \in Nat
      BY <1>3, AbbinateDellaRiga
    <3> QED
      BY <2>1, <3>1, LimitiAssunti DEF Join!Somma
  <2>3. dopo \in Int
    <3>1. chunk \in 1 .. n
      BY <1>1
    <3>2. l.riga \in Int
      BY <2>1
    <3> QED
      BY <1>0, <3>1, <3>2
  <2> HIDE DEF conto, dopo
  <2> DEFINE nuovo == [l EXCEPT !.conto = conto, !.riga = dopo]
  <2>4. /\ lavori' = [lavori EXCEPT ![chunk] = nuovo]
        /\ condiviso' = [condiviso EXCEPT !.abbinate = @ \cup Join!Abbinate(caso, l.riga)]
        /\ caso' = caso
    <3>1. lavori' = [lavori EXCEPT ![chunk] = nuovo]
      BY <1>7 DEF Join!Conta, conto, dopo
    <3>3. condiviso' = [condiviso EXCEPT !.abbinate = @ \cup Join!Abbinate(caso, l.riga)]
      BY <1>7 DEF Join!Conta
    <3>4. caso' = caso
      BY <1>7 DEF Join!Conta
    <3> QED
      BY <3>1, <3>3, <3>4
  <2>5. nuovo \in L
    BY <2>1, <2>2, <2>3
  <2>6. lavori' \in [1 .. n -> L]
    <3> HIDE DEF L, nuovo
    <3> QED
      BY <1>1, <2>4, <2>5
  <2>7. /\ condiviso'.uscita = condiviso.uscita
        /\ condiviso' = [ abbinate |-> condiviso'.abbinate, uscita |-> condiviso'.uscita,
                          guasto |-> condiviso'.guasto ]
    BY <1>4, <2>4
  <2> QED
    BY <1>0, <1>2, <1>3, <2>4, <2>6, <2>7 DEF InvJoin
<1>8. ASSUME NEW chunk \in DOMAIN lavori, Join!Riempie(chunk) PROVE InvJoin'
  <2> DEFINE l == lavori[chunk]
             scrive == Join!CoppieDellaRiga(caso, l.riga)
  <2>1. l \in L
    BY <1>1, <1>8
  <2>2. Len(scrive) \in Nat
    BY <1>3, AbbinateDellaRiga
  <2> HIDE DEF scrive
  <2> DEFINE dopo == l.riga + 1
             scritte == l.scritte + Len(scrive)
             nuovo == [l EXCEPT !.riga = dopo, !.scritte = scritte]
  <2>3. /\ lavori' = [lavori EXCEPT ![chunk] = nuovo]
        /\ caso' = caso
    <3>1. lavori' = [lavori EXCEPT ![chunk] = nuovo]
      BY <1>8 DEF Join!Riempie, scrive
    <3>3. caso' = caso
      BY <1>8 DEF Join!Riempie
    <3> QED
      BY <3>1, <3>3
  <2>4. nuovo \in L
    <3>1. dopo \in Int /\ scritte \in Nat
      BY <2>1, <2>2
    <3> HIDE DEF dopo, scritte
    <3> QED
      BY <2>1, <3>1
  <2>5. lavori' \in [1 .. n -> L]
    <3> HIDE DEF L, nuovo
    <3> QED
      BY <1>1, <2>3, <2>4
  <2>6. \E g, P : condiviso' = [condiviso EXCEPT !.guasto = g, !.uscita = [k \in DOMAIN @ |-> P[k]]]
    <3> DEFINE oltre == l.scritte + Len(scrive) > l.conto
               primo == Join!Offset(chunk) + l.scritte
               g == \/ condiviso.guasto \/ oltre
                    \/ l.riga = Join!Intervalli(caso)[chunk].a /\ l.scritte + Len(scrive) # l.conto
               P == [ k \in DOMAIN condiviso.uscita |->
                        IF k - primo \in DOMAIN scrive /\ ~ oltre THEN scrive[k - primo]
                        ELSE condiviso.uscita[k] ]
    <3>1. condiviso' = [condiviso EXCEPT !.guasto = g, !.uscita = P]
      BY <1>4, <1>8 DEF Join!Riempie, scrive
    <3>2. P = [k \in DOMAIN condiviso.uscita |-> P[k]]
      OBVIOUS
    <3> HIDE DEF g, P
    <3> QED
      BY <1>4, <3>1, <3>2
  <2>7. PICK g, P : condiviso' = [condiviso EXCEPT !.guasto = g, !.uscita = [k \in DOMAIN @ |-> P[k]]]
    BY <2>6
  <2>8. DOMAIN condiviso.uscita = 1 .. m
    BY <1>2
  <2>9. /\ condiviso'.uscita = [k \in 1 .. m |-> P[k]]
        /\ condiviso' = [ abbinate |-> condiviso'.abbinate, uscita |-> condiviso'.uscita,
                          guasto |-> condiviso'.guasto ]
    BY <1>4, <2>7, <2>8
  <2>10. condiviso'.uscita = [k \in 1 .. m |-> condiviso'.uscita[k]]
    BY <2>9
  <2> QED
    BY <1>0, <1>3, <2>3, <2>5, <2>9, <2>10 DEF InvJoin
<1> QED
  BY <1>5, <1>6, <1>7, <1>8 DEF Join!NextJoin

\* What the call holds is within max_rows.
LEMMA JoinTiene ==
    ASSUME InvJoin
    PROVE  Join!RigheTenute <= caso.max_rows
<1>1. PICK m \in 0 .. caso.max_rows : condiviso.uscita = [k \in 1 .. m |-> condiviso.uscita[k]]
  BY DEF InvJoin
<1>2. caso.max_rows \in Nat
  BY CasiAssunti, LimitiAssunti DEF InvJoin
<1>3. m \in Nat /\ m <= caso.max_rows
  BY <1>2
<1>4. Len(condiviso.uscita) = m
  BY <1>1, <1>3, FilaDi
<1> QED
  BY <1>3, <1>4 DEF Join!RigheTenute

-----------------------------------------------------------------------------
(* The fuzzy join *)

PassiFuzzy == {"riga", "conta", "segnala", "fermo"}

\* A call of the fuzzy join: what a chunk counted is counted in the counter they
\* share, and the rows counted within the limit are all but those of the row a
\* chunk is on.
InvFuzzy ==
    /\ caso \in CasiFuzzy
    /\ \E V : lavori \in [DOMAIN Fuzzy!Intervalli(caso) ->
                            [riga : Int, uscita : Seq(V), in_corso : Nat, passo : PassiFuzzy]]
    /\ \A k \in DOMAIN lavori : /\ lavori[k].in_corso <= Len(lavori[k].uscita)
                                /\ lavori[k].passo = "riga" => lavori[k].in_corso = 0
    /\ condiviso \in [prodotte : Nat, superato : BOOLEAN]
    /\ IsFiniteSet(Fuzzy!RigheContate)
    /\ Cardinality(Fuzzy!RigheContate) <= condiviso.prodotte
    /\ Cardinality(Fuzzy!RigheContate) <= caso.max_rows

LEMMA CrescenteFuzzy == \A S : Fuzzy!Crescente(S) = Crescente(S)
<1>1. ASSUME NEW S PROVE Fuzzy!Cardinality(S) = Cardinality(S)
  BY DEF Cardinality, Fuzzy!Cardinality
<1>2. ASSUME NEW S, NEW R, NEW k PROVE Fuzzy!AlPosto(S, R, k) = AlPosto(S, R, k)
  BY <1>1 DEF AlPosto, Fuzzy!AlPosto
<1> QED
  BY <1>1, <1>2 DEF Crescente, Fuzzy!Crescente, PerRelazione, Fuzzy!PerRelazione

\* The values of a sequence are at most as many as its places.
LEMMA ValoriFiniti ==
    ASSUME NEW n \in Nat, NEW f, DOMAIN f = 1 .. n
    PROVE  LET V == {f[k] : k \in DOMAIN f}
           IN  IsFiniteSet(V) /\ Cardinality(V) \in Nat /\ Cardinality(V) <= n
<1> DEFINE S == 1 .. n
           V == {f[k] : k \in DOMAIN f}
           g == [k \in S |-> f[k]]
<1>1. IsFiniteSet(S) /\ Cardinality(S) = n
  <2>1. 1 \in Int /\ n \in Int
    OBVIOUS
  <2>2. IsFiniteSet(S) /\ Cardinality(S) = IF 1 > n THEN 0 ELSE n - 1 + 1
    BY <2>1, FS_Interval
  <2> QED
    BY <2>2
<1>2. g \in Surjection(S, V)
  <2>1. g \in [S -> V]
    OBVIOUS
  <2>2. \A y \in V : \E x \in S : g[x] = y
    OBVIOUS
  <2> QED
    BY <2>1, <2>2, Fun_IsSurj
<1> HIDE DEF S, V, g
<1>3. IsFiniteSet(V) /\ Cardinality(V) <= n
  BY <1>1, <1>2, FS_Surjection
<1>4. Cardinality(V) \in Nat
  BY <1>3, FS_CardinalityType
<1> QED
  BY <1>3, <1>4 DEF V

\* What a left row gives is a sequence.
LEMMA ProdotteDellaRiga ==
    ASSUME NEW c \in CasiFuzzy, NEW riga
    PROVE  \E n \in Nat : Fuzzy!Prodotte(c, riga) = [k \in 1 .. n |-> Fuzzy!Prodotte(c, riga)[k]]
<1>1. c.destra \in Seq(Chiavi)
  BY CasiAssunti
<1>2. Len(c.destra) \in Nat /\ DOMAIN c.destra = 1 .. Len(c.destra)
  BY <1>1, LenProperties
<1>3. IsFiniteSet(DOMAIN c.destra)
  BY <1>2, FS_Interval
<1> DEFINE v == c.sinistra[riga]
           dentro == v # Nulla /\ Blocco[v] \in DOMAIN Fuzzy!blocks(c)
           candidati == IF dentro THEN Fuzzy!blocks(c)[Blocco[v]] ELSE <<>>
           scelti == {j \in Fuzzy!Range(candidati) : <<v, c.destra[j]>> \in Simili}
           emesse == Fuzzy!Crescente(scelti)
<1>4. PICK m \in Nat : DOMAIN candidati = 1 .. m
  <2>1. CASE dentro
    <3> DEFINE S == {j \in DOMAIN c.destra : c.destra[j] # Nulla /\ Blocco[c.destra[j]] = Blocco[v]}
    <3>1. candidati = Fuzzy!Crescente(S)
      BY <2>1 DEF Fuzzy!blocks
    <3>2. IsFiniteSet(S)
      BY <1>3, FS_Subset
    <3> QED
      BY <3>1, <3>2, CrescenteFuzzy, FilaCrescente
  <2>2. CASE ~ dentro
    <3>1. candidati = <<>>
      BY <2>2
    <3>2. DOMAIN <<>> = 1 .. 0
      OBVIOUS
    <3> QED
      BY <3>1, <3>2
  <2> QED
    BY <2>1, <2>2
<1> HIDE DEF candidati
<1>5. IsFiniteSet(scelti)
  <2>1. IsFiniteSet(Fuzzy!Range(candidati))
    BY <1>4, ValoriFiniti DEF Fuzzy!Range
  <2> QED
    BY <2>1, FS_Subset
<1> HIDE DEF scelti
<1>6. PICK n \in Nat : DOMAIN emesse = 1 .. n
  BY <1>5, CrescenteFuzzy, FilaCrescente
<1> HIDE DEF emesse
<1>7. Fuzzy!Prodotte(c, riga) =
        IF emesse = <<>> /\ c.how = "left" THEN << <<riga, Nulla>> >>
        ELSE [k \in DOMAIN emesse |-> <<riga, emesse[k]>>]
  BY DEF Fuzzy!Prodotte, emesse, scelti, candidati
<1>8. CASE emesse = <<>> /\ c.how = "left"
  <2>1. Fuzzy!Prodotte(c, riga) = << <<riga, Nulla>> >>
    BY <1>7, <1>8
  <2>2. << <<riga, Nulla>> >> = [k \in 1 .. 1 |-> << <<riga, Nulla>> >>[k]]
    OBVIOUS
  <2> QED
    BY <2>1, <2>2
<1>9. CASE ~ (emesse = <<>> /\ c.how = "left")
  <2>1. Fuzzy!Prodotte(c, riga) = [k \in 1 .. n |-> <<riga, emesse[k]>>]
    BY <1>6, <1>7, <1>9
  <2> QED
    BY <2>1
<1> QED
  BY <1>8, <1>9

LEMMA IntervalliDelFuzzy ==
    ASSUME NEW c \in CasiFuzzy
    PROVE  \E n \in Nat : /\ DOMAIN Fuzzy!Intervalli(c) = 1 .. n
                          /\ \A k \in 1 .. n : Fuzzy!Intervalli(c)[k].da \in Int
<1>1. c.sinistra \in Seq(Chiavi) /\ c.chunk \in Nat \ {0}
  BY CasiAssunti
<1>2. Len(c.sinistra) \in Nat
  BY <1>1, LenProperties
<1> DEFINE d == c.chunk
           n == (Len(c.sinistra) + d - 1) \div d
<1>3. n \in Nat
  <2>1. Len(c.sinistra) + d - 1 \in Nat
    BY <1>1, <1>2
  <2> HIDE DEF d
  <2> QED
    BY <1>1, <2>1, Divisione DEF d
<1>4. \A k \in Int : (k - 1) * d + 1 \in Int
  BY <1>1
<1>5. Fuzzy!Intervalli(c) =
        [ k \in 1 .. n |-> [ da |-> (k - 1) * d + 1,
                             a  |-> IF k * d < Len(c.sinistra) THEN k * d ELSE Len(c.sinistra) ] ]
  BY DEF Fuzzy!Intervalli
<1> HIDE DEF n, d
<1>6. DOMAIN Fuzzy!Intervalli(c) = 1 .. n
  BY <1>5
<1>7. ASSUME NEW k \in 1 .. n PROVE Fuzzy!Intervalli(c)[k].da \in Int
  <2>1. k \in Int
    BY <1>3
  <2>2. Fuzzy!Intervalli(c)[k].da = (k - 1) * d + 1
    BY <1>5
  <2> QED
    BY <1>4, <2>1, <2>2
<1> QED
  BY <1>3, <1>6, <1>7

LEMMA InitFuzzy_Inv ==
    ASSUME NEW c \in CasiFuzzy, Fuzzy!InitFuzzy(c)
    PROVE  InvFuzzy
<1>1. PICK n \in Nat : /\ DOMAIN Fuzzy!Intervalli(c) = 1 .. n
                       /\ \A k \in 1 .. n : Fuzzy!Intervalli(c)[k].da \in Int
  BY IntervalliDelFuzzy
<1>2. /\ caso = c /\ c.max_rows \in Nat
      /\ condiviso = [prodotte |-> 0, superato |-> FALSE]
      /\ lavori = [ k \in 1 .. n |->
                      [riga |-> Fuzzy!Intervalli(c)[k].da, uscita |-> <<>>, in_corso |-> 0, passo |-> "riga"] ]
  BY <1>1, CasiAssunti, LimitiAssunti DEF Fuzzy!InitFuzzy
<1>3. <<>> \in Seq({}) /\ Len(<<>>) = 0
  OBVIOUS
<1>4. lavori \in [1 .. n -> [riga : Int, uscita : Seq({}), in_corso : Nat, passo : PassiFuzzy]]
  <2>1. ASSUME NEW k \in 1 .. n
        PROVE  [riga |-> Fuzzy!Intervalli(c)[k].da, uscita |-> <<>>, in_corso |-> 0, passo |-> "riga"]
                 \in [riga : Int, uscita : Seq({}), in_corso : Nat, passo : PassiFuzzy]
    <3> DEFINE r == Fuzzy!Intervalli(c)[k].da
               U == Seq({})
               s == <<>>
    <3>1. r \in Int /\ s \in U
      BY <1>1, <1>3
    <3> HIDE DEF r, U, s
    <3>2. [riga |-> r, uscita |-> s, in_corso |-> 0, passo |-> "riga"]
             \in [riga : Int, uscita : U, in_corso : Nat, passo : PassiFuzzy]
      BY <3>1 DEF PassiFuzzy
    <3> QED
      BY <3>2 DEF r, U, s
  <2> QED
    BY <1>2, <2>1
<1>5. \A k \in DOMAIN lavori : /\ lavori[k].in_corso = 0 /\ lavori[k].uscita = <<>>
  BY <1>2
<1>6. Fuzzy!RigheContate = {}
  <2>1. \A k \in DOMAIN lavori : 1 .. Len(lavori[k].uscita) - lavori[k].in_corso = {}
    BY <1>3, <1>5
  <2> QED
    BY <2>1 DEF Fuzzy!RigheContate
<1>7. IsFiniteSet({}) /\ Cardinality({}) = 0
  BY FS_EmptySet
<1>8. \A k \in DOMAIN lavori : /\ lavori[k].in_corso <= Len(lavori[k].uscita)
                               /\ lavori[k].passo = "riga" => lavori[k].in_corso = 0
  BY <1>3, <1>5
<1>9. condiviso \in [prodotte : Nat, superato : BOOLEAN] /\ condiviso.prodotte = 0
  BY <1>2
<1>10. /\ IsFiniteSet(Fuzzy!RigheContate)
       /\ Cardinality(Fuzzy!RigheContate) <= condiviso.prodotte
       /\ Cardinality(Fuzzy!RigheContate) <= caso.max_rows
  BY <1>2, <1>6, <1>7, <1>9
<1> QED
  BY <1>1, <1>2, <1>4, <1>8, <1>9, <1>10 DEF InvFuzzy

ChunkFuzzy(V) == [riga : Int, uscita : Seq(V), in_corso : Nat, passo : PassiFuzzy]
ContateDi(l) == Len(l.uscita) - l.in_corso

\* A step of one chunk: the rows it counts more have to be within the counter and
\* within the limit.
LEMMA PassoDiUnChunk ==
    ASSUME InvFuzzy, caso' = caso,
           NEW V, lavori \in [DOMAIN Fuzzy!Intervalli(caso) -> ChunkFuzzy(V)],
           NEW chunk \in DOMAIN lavori, NEW nuovo \in ChunkFuzzy(V),
           lavori' = [lavori EXCEPT ![chunk] = nuovo],
           nuovo.in_corso <= Len(nuovo.uscita), nuovo.passo = "riga" => nuovo.in_corso = 0,
           ContateDi(lavori[chunk]) <= ContateDi(nuovo),
           condiviso' \in [prodotte : Nat, superato : BOOLEAN],
           LET cresce == ContateDi(nuovo) - ContateDi(lavori[chunk])
           IN  /\ Cardinality(Fuzzy!RigheContate) + cresce <= condiviso'.prodotte
               /\ Cardinality(Fuzzy!RigheContate) + cresce <= caso.max_rows
    PROVE  InvFuzzy'
<1> DEFINE l == lavori[chunk]
           a == ContateDi(l)
           b == ContateDi(nuovo)
           X == Fuzzy!RigheContate
<1>1. lavori' \in [DOMAIN Fuzzy!Intervalli(caso) -> ChunkFuzzy(V)] /\ DOMAIN lavori' = DOMAIN lavori
  OBVIOUS
<1>2. \A k \in DOMAIN lavori : lavori'[k] = IF k = chunk THEN nuovo ELSE lavori[k]
  OBVIOUS
<1>3. \A k \in DOMAIN lavori' : /\ lavori'[k].in_corso <= Len(lavori'[k].uscita)
                                /\ lavori'[k].passo = "riga" => lavori'[k].in_corso = 0
  BY <1>1, <1>2 DEF InvFuzzy
<1>4. /\ l \in ChunkFuzzy(V) /\ l.in_corso \in Nat /\ nuovo.in_corso \in Nat
      /\ l.uscita \in Seq(V) /\ nuovo.uscita \in Seq(V)
  BY DEF ChunkFuzzy
<1>5. Len(l.uscita) \in Nat /\ Len(nuovo.uscita) \in Nat
  BY <1>4, LenProperties
<1>6. a \in Int /\ b \in Int /\ a <= b
  BY <1>4, <1>5 DEF ContateDi
<1>7. X' \subseteq X \cup ({chunk} \X ((a + 1) .. b))
  <2>1. X = UNION {{k} \X (1 .. ContateDi(lavori[k])) : k \in DOMAIN lavori}
    BY DEF Fuzzy!RigheContate, ContateDi
  <2>2. X' = UNION {{k} \X (1 .. ContateDi(lavori'[k])) : k \in DOMAIN lavori'}
    BY DEF Fuzzy!RigheContate, ContateDi
  <2>3. SUFFICES ASSUME NEW p \in X'
                 PROVE  p \in X \cup ({chunk} \X ((a + 1) .. b))
    OBVIOUS
  <2> HIDE DEF X
  <2>4. PICK k \in DOMAIN lavori' : p \in {k} \X (1 .. ContateDi(lavori'[k]))
    BY <2>2, <2>3
  <2>5. CASE k # chunk
    BY <1>1, <1>2, <2>1, <2>4, <2>5
  <2>6. CASE k = chunk
    <3>1. ContateDi(lavori'[k]) = b
      BY <1>1, <1>2, <2>6
    <3>2. PICK j \in 1 .. b : p = <<chunk, j>>
      BY <2>4, <2>6, <3>1
    <3> HIDE DEF a, b
    <3>3. CASE j <= a
      <4>1. p \in {chunk} \X (1 .. a)
        BY <1>6, <3>2, <3>3
      <4> QED
        BY <2>1, <4>1 DEF a
    <3>4. CASE ~ (j <= a)
      <4>1. j \in (a + 1) .. b
        BY <1>6, <3>2, <3>4
      <4> QED
        BY <3>2, <4>1
    <3> QED
      BY <3>3, <3>4
  <2> QED
    BY <2>5, <2>6
<1> HIDE DEF a, b
<1>8. IsFiniteSet(X) /\ Cardinality(X) \in Nat
  BY FS_CardinalityType DEF InvFuzzy
<1>9. /\ IsFiniteSet(X') /\ Cardinality(X') \in Nat
      /\ Cardinality(X') <= Cardinality(X) + (b - a)
  <2> DEFINE Y == X'
  <2>1. Y \subseteq X \cup ({chunk} \X ((a + 1) .. b))
    BY <1>7
  <2> HIDE DEF Y, X
  <2>2. /\ IsFiniteSet(Y) /\ Cardinality(Y) \in Nat
        /\ Cardinality(Y) <= Cardinality(X) + (b - a)
    BY <1>6, <1>8, <2>1, RigaPiuLunga
  <2> QED
    BY <2>2 DEF Y
<1>10. condiviso'.prodotte \in Nat /\ caso.max_rows \in Nat
  BY CasiAssunti, LimitiAssunti DEF InvFuzzy
<1>11. /\ Cardinality(X') <= condiviso'.prodotte
       /\ Cardinality(X') <= caso.max_rows
  <2>1. /\ Cardinality(X) + (b - a) <= condiviso'.prodotte
        /\ Cardinality(X) + (b - a) <= caso.max_rows
    BY DEF a, b
  <2> HIDE DEF X
  <2> QED
    BY <1>6, <1>8, <1>9, <1>10, <2>1
<1>12. caso \in CasiFuzzy
  BY DEF InvFuzzy
<1>13. lavori' \in [DOMAIN Fuzzy!Intervalli(caso)
                      -> [riga : Int, uscita : Seq(V), in_corso : Nat, passo : PassiFuzzy]]
  BY <1>1 DEF ChunkFuzzy
<1> QED
  BY <1>3, <1>9, <1>11, <1>12, <1>13 DEF InvFuzzy

LEMMA PassoFuzzy ==
    ASSUME InvFuzzy, Fuzzy!NextFuzzy
    PROVE  InvFuzzy'
<1>1. PICK V : lavori \in [DOMAIN Fuzzy!Intervalli(caso) -> ChunkFuzzy(V)]
  BY DEF InvFuzzy, ChunkFuzzy
<1>2. /\ caso \in CasiFuzzy /\ caso.max_rows \in Nat
      /\ condiviso \in [prodotte : Nat, superato : BOOLEAN]
  BY CasiAssunti, LimitiAssunti DEF InvFuzzy
<1> DEFINE N == Cardinality(Fuzzy!RigheContate)
<1>3. N \in Nat /\ N <= condiviso.prodotte /\ N <= caso.max_rows
  BY FS_CardinalityType DEF InvFuzzy
<1> HIDE DEF N
<1>4. CASE Fuzzy!VerificaBlocchi \/ Fuzzy!Concatena
  <2>1. UNCHANGED <<caso, lavori, condiviso>>
    BY <1>4 DEF Fuzzy!VerificaBlocchi, Fuzzy!Concatena
  <2>2. Fuzzy!RigheContate' = Fuzzy!RigheContate
    BY <2>1 DEF Fuzzy!RigheContate
  <2> QED
    BY <2>1, <2>2 DEF InvFuzzy
<1>5. ASSUME NEW chunk \in DOMAIN lavori
      PROVE  LET l == lavori[chunk]
             IN  /\ l \in ChunkFuzzy(V) /\ l.in_corso \in Nat /\ Len(l.uscita) \in Nat
                 /\ l.in_corso <= Len(l.uscita) /\ l.uscita \in Seq(V) /\ l.riga \in Int
                 /\ l.passo = "riga" => l.in_corso = 0
                 /\ ContateDi(l) = Len(l.uscita) - l.in_corso /\ ContateDi(l) \in Int
  <2> DEFINE l == lavori[chunk]
  <2>1. l \in ChunkFuzzy(V)
    BY <1>1, <1>5
  <2>2. l.in_corso \in Nat /\ l.uscita \in Seq(V) /\ l.riga \in Int
    BY <2>1 DEF ChunkFuzzy
  <2>3. Len(l.uscita) \in Nat
    BY <2>2, LenProperties
  <2>4. l.in_corso <= Len(l.uscita) /\ (l.passo = "riga" => l.in_corso = 0)
    BY <1>5 DEF InvFuzzy
  <2>5. ContateDi(l) = Len(l.uscita) - l.in_corso /\ ContateDi(l) \in Int
    BY <2>2, <2>3 DEF ContateDi
  <2> QED
    BY <2>1, <2>2, <2>3, <2>4, <2>5
<1>6. ASSUME NEW chunk \in DOMAIN lavori, Fuzzy!Riga(chunk) PROVE InvFuzzy'
  <2> DEFINE l == lavori[chunk]
             nuove == Fuzzy!Prodotte(caso, l.riga)
  <2>1. PICK m \in Nat : nuove = [k \in 1 .. m |-> nuove[k]]
    BY <1>2, ProdotteDellaRiga
  <2> HIDE DEF nuove
  <2> DEFINE W == V \cup {nuove[k] : k \in 1 .. m}
  <2>2. nuove \in Seq(W) /\ Len(nuove) = m
    <3> DEFINE U == {nuove[k] : k \in 1 .. m}
    <3>1. nuove \in Seq(U) /\ Len(nuove) = m
      BY <2>1, FilaDi
    <3> HIDE DEF U
    <3>2. U \subseteq W
      BY DEF U
    <3> HIDE DEF W
    <3> QED
      BY <3>1, <3>2, SeqMonotonic
  <2>3. Seq(V) \subseteq Seq(W)
    <3>1. V \subseteq W
      OBVIOUS
    <3> HIDE DEF W
    <3> QED
      BY <3>1, SeqMonotonic
  <2> HIDE DEF W
  <2>4. lavori \in [DOMAIN Fuzzy!Intervalli(caso) -> ChunkFuzzy(W)]
    <3>1. ChunkFuzzy(V) \subseteq ChunkFuzzy(W)
      BY <2>3 DEF ChunkFuzzy
    <3> QED
      BY <1>1, <3>1
  <2>5. l \in ChunkFuzzy(W) /\ l.passo = "riga" /\ l.in_corso = 0
    BY <1>5, <1>6, <2>4 DEF Fuzzy!Riga
  <2>6. UNCHANGED <<caso, condiviso>>
    BY <1>6 DEF Fuzzy!Riga
  <2>7. CASE condiviso.superato
    <3> DEFINE nuovo == [l EXCEPT !.passo = "fermo"]
    <3>1. lavori' = [lavori EXCEPT ![chunk] = nuovo]
      BY <1>6, <2>7 DEF Fuzzy!Riga
    <3>2. nuovo \in ChunkFuzzy(W) /\ nuovo.uscita = l.uscita /\ nuovo.in_corso = l.in_corso /\ nuovo.passo = "fermo"
      BY <2>5 DEF ChunkFuzzy, PassiFuzzy
    <3> HIDE DEF nuovo
    <3>3. ContateDi(nuovo) = ContateDi(l)
      BY <3>2 DEF ContateDi
    <3>4. /\ nuovo.in_corso <= Len(nuovo.uscita) /\ (nuovo.passo = "riga" => nuovo.in_corso = 0)
          /\ ContateDi(l) <= ContateDi(nuovo) /\ ContateDi(nuovo) - ContateDi(l) = 0
      BY <1>5, <3>2, <3>3
    <3>5. /\ N + (ContateDi(nuovo) - ContateDi(l)) <= condiviso'.prodotte
          /\ N + (ContateDi(nuovo) - ContateDi(l)) <= caso.max_rows
          /\ condiviso' \in [prodotte : Nat, superato : BOOLEAN]
      BY <1>2, <1>3, <2>6, <3>4
    <3> QED
      BY <2>4, <2>6, <3>1, <3>2, <3>4, <3>5, PassoDiUnChunk DEF N
  <2>8. CASE ~ condiviso.superato
    <3> DEFINE uscita == l.uscita \o nuove
               dopo == l.riga + 1
               passo == IF nuove = <<>> THEN "riga" ELSE "conta"
               nuovo == [l EXCEPT !.uscita = uscita, !.in_corso = Len(nuove), !.riga = dopo, !.passo = passo]
    <3>1. lavori' = [lavori EXCEPT ![chunk] = nuovo]
      BY <1>6, <2>8 DEF Fuzzy!Riga, nuove
    <3>2. uscita \in Seq(W) /\ Len(uscita) = Len(l.uscita) + m
      <4>1. l.uscita \in Seq(W)
        BY <2>5 DEF ChunkFuzzy
      <4> QED
        BY <2>2, <4>1, ConcatProperties
    <3>3. dopo \in Int /\ passo \in PassiFuzzy
      BY <1>5 DEF PassiFuzzy
    <3>4. passo = "riga" => m = 0
      <4>1. Len(<<>>) = 0
        OBVIOUS
      <4> QED
        BY <2>2, <4>1
    <3> HIDE DEF uscita, dopo, passo
    <3>5. nuovo \in ChunkFuzzy(W) /\ nuovo.uscita = uscita /\ nuovo.in_corso = m /\ nuovo.passo = passo
      BY <2>2, <2>5, <3>2, <3>3 DEF ChunkFuzzy
    <3> HIDE DEF nuovo
    <3>6. ContateDi(nuovo) = ContateDi(l)
      <4>1. Len(l.uscita) \in Nat
        BY <1>5
      <4>2. ContateDi(nuovo) = Len(l.uscita) + m - m
        BY <3>2, <3>5 DEF ContateDi
      <4>3. ContateDi(l) = Len(l.uscita) - 0
        BY <2>5 DEF ContateDi
      <4> QED
        BY <4>1, <4>2, <4>3
    <3>7. /\ nuovo.in_corso <= Len(nuovo.uscita) /\ (nuovo.passo = "riga" => nuovo.in_corso = 0)
          /\ ContateDi(l) <= ContateDi(nuovo) /\ ContateDi(nuovo) - ContateDi(l) = 0
      BY <1>5, <3>2, <3>4, <3>5, <3>6
    <3>8. /\ N + (ContateDi(nuovo) - ContateDi(l)) <= condiviso'.prodotte
          /\ N + (ContateDi(nuovo) - ContateDi(l)) <= caso.max_rows
          /\ condiviso' \in [prodotte : Nat, superato : BOOLEAN]
      BY <1>2, <1>3, <2>6, <3>7
    <3> QED
      BY <2>4, <2>6, <3>1, <3>5, <3>7, <3>8, PassoDiUnChunk DEF N
  <2> QED
    BY <2>7, <2>8
<1>7. ASSUME NEW chunk \in DOMAIN lavori, Fuzzy!Aggiungi(chunk) PROVE InvFuzzy'
  <2> DEFINE l == lavori[chunk]
             insieme == condiviso.prodotte + l.in_corso
  <2>1. /\ caso' = caso /\ l.passo = "conta"
        /\ condiviso' = [condiviso EXCEPT !.prodotte = IF insieme <= MaxUsize THEN insieme ELSE condiviso.prodotte]
    BY <1>7 DEF Fuzzy!Aggiungi
  <2>2. /\ condiviso' \in [prodotte : Nat, superato : BOOLEAN] /\ insieme \in Nat
        /\ condiviso.prodotte <= condiviso'.prodotte
        /\ insieme <= MaxUsize => condiviso'.prodotte = insieme
    BY <1>2, <1>5, <2>1, LimitiAssunti
  <2>3. condiviso'.prodotte \in Nat /\ condiviso.prodotte \in Nat
    BY <1>2, <2>2
  <2>4. CASE insieme <= MaxUsize /\ insieme <= caso.max_rows
    <3> DEFINE nuovo == [l EXCEPT !.passo = "riga", !.in_corso = 0]
    <3>1. lavori' = [lavori EXCEPT ![chunk] = nuovo]
      BY <1>7, <2>4 DEF Fuzzy!Aggiungi
    <3>2. nuovo \in ChunkFuzzy(V) /\ nuovo.uscita = l.uscita /\ nuovo.in_corso = 0
      BY <1>5 DEF ChunkFuzzy, PassiFuzzy
    <3> HIDE DEF nuovo
    <3>3. ContateDi(nuovo) = Len(l.uscita)
      BY <1>5, <3>2 DEF ContateDi
    <3>4. /\ nuovo.in_corso <= Len(nuovo.uscita) /\ (nuovo.passo = "riga" => nuovo.in_corso = 0)
          /\ ContateDi(l) <= ContateDi(nuovo) /\ ContateDi(nuovo) - ContateDi(l) = l.in_corso
      BY <1>5, <3>2, <3>3
    <3>5. N + l.in_corso <= insieme
      BY <1>3, <1>5, <2>3
    <3>6. /\ N + (ContateDi(nuovo) - ContateDi(l)) <= condiviso'.prodotte
          /\ N + (ContateDi(nuovo) - ContateDi(l)) <= caso.max_rows
      <4> HIDE DEF insieme
      <4> QED
        BY <1>2, <1>3, <1>5, <2>2, <2>4, <3>4, <3>5
    <3> QED
      BY <1>1, <2>1, <2>2, <3>1, <3>2, <3>4, <3>6, PassoDiUnChunk DEF N
  <2>5. CASE ~ (insieme <= MaxUsize /\ insieme <= caso.max_rows)
    <3> DEFINE nuovo == [l EXCEPT !.passo = "segnala"]
    <3>1. lavori' = [lavori EXCEPT ![chunk] = nuovo]
      BY <1>7, <2>5 DEF Fuzzy!Aggiungi
    <3>2. nuovo \in ChunkFuzzy(V) /\ nuovo.uscita = l.uscita /\ nuovo.in_corso = l.in_corso /\ nuovo.passo = "segnala"
      BY <1>5 DEF ChunkFuzzy, PassiFuzzy
    <3> HIDE DEF nuovo
    <3>3. ContateDi(nuovo) = ContateDi(l)
      BY <3>2 DEF ContateDi
    <3>4. /\ nuovo.in_corso <= Len(nuovo.uscita) /\ (nuovo.passo = "riga" => nuovo.in_corso = 0)
          /\ ContateDi(l) <= ContateDi(nuovo) /\ ContateDi(nuovo) - ContateDi(l) = 0
      BY <1>5, <3>2, <3>3
    <3>5. /\ N + (ContateDi(nuovo) - ContateDi(l)) <= condiviso'.prodotte
          /\ N + (ContateDi(nuovo) - ContateDi(l)) <= caso.max_rows
      BY <1>2, <1>3, <2>2, <2>3, <3>4
    <3> QED
      BY <1>1, <2>1, <2>2, <3>1, <3>2, <3>4, <3>5, PassoDiUnChunk DEF N
  <2> QED
    BY <2>4, <2>5
<1>8. ASSUME NEW chunk \in DOMAIN lavori, Fuzzy!Segnala(chunk) PROVE InvFuzzy'
  <2> DEFINE l == lavori[chunk]
             nuovo == [l EXCEPT !.passo = "fermo"]
  <2>1. /\ lavori' = [lavori EXCEPT ![chunk] = nuovo]
        /\ caso' = caso
        /\ condiviso' = [condiviso EXCEPT !.superato = TRUE]
    BY <1>8 DEF Fuzzy!Segnala
  <2>2. nuovo \in ChunkFuzzy(V) /\ nuovo.uscita = l.uscita /\ nuovo.in_corso = l.in_corso /\ nuovo.passo = "fermo"
    BY <1>5 DEF ChunkFuzzy, PassiFuzzy
  <2> HIDE DEF nuovo
  <2>3. ContateDi(nuovo) = ContateDi(l)
    BY <2>2 DEF ContateDi
  <2>4. /\ nuovo.in_corso <= Len(nuovo.uscita) /\ (nuovo.passo = "riga" => nuovo.in_corso = 0)
        /\ ContateDi(l) <= ContateDi(nuovo) /\ ContateDi(nuovo) - ContateDi(l) = 0
    BY <1>5, <2>2, <2>3
  <2>5. condiviso' \in [prodotte : Nat, superato : BOOLEAN] /\ condiviso'.prodotte = condiviso.prodotte
    BY <1>2, <2>1
  <2>6. /\ N + (ContateDi(nuovo) - ContateDi(l)) <= condiviso'.prodotte
        /\ N + (ContateDi(nuovo) - ContateDi(l)) <= caso.max_rows
    BY <1>2, <1>3, <2>4, <2>5
  <2> QED
    BY <1>1, <2>1, <2>2, <2>4, <2>5, <2>6, PassoDiUnChunk DEF N
<1> QED
  BY <1>4, <1>6, <1>7, <1>8 DEF Fuzzy!NextFuzzy

-----------------------------------------------------------------------------
(* The cap of the geometry kernels *)

\* Products of natural numbers, as the provers need them stated.
LEMMA ProdottoMonotono ==
    ASSUME NEW n \in Nat, NEW q \in Nat, NEW per \in Nat, n <= q
    PROVE  n * per \in Nat /\ n * per <= q * per
<1>1. PICK d \in Nat : q = n + d
  <2>1. q - n \in Nat /\ q = n + (q - n)
    OBVIOUS
  <2> QED
    BY <2>1
<1>2. q * per = n * per + d * per
  BY <1>1
<1>3. n * per \in Nat /\ d * per \in Nat
  OBVIOUS
<1> QED
  BY <1>2, <1>3

\* As many results as the cap are within the kernel's limit and, unless there is no
\* margin, their bytes are within the margin, where the sum saturates too.
LEMMA TettoEntroIlMargine ==
    ASSUME NEW limite \in 0 .. MaxByte, NEW m \in Margini, NEW nel \in Nat,
           NEW n \in Nat, n <= tetto(limite, m, nel)
    PROVE  /\ n <= limite
           /\ n * (nel + m.uscita_per_risultato) <= m.byte \/ m.byte = MaxByte
<1> DEFINE u == m.uscita_per_risultato
           B == m.byte
           insieme == nel + u
           per == byte_per_risultato(m, nel)
           massimi == risultati_massimi(m, nel)
<1>1. MaxByte \in Nat \ {0} /\ u \in Nat /\ B \in Nat /\ B <= MaxByte /\ limite \in Nat /\ limite <= MaxByte
  BY MargineAssumption DEF Margini
<1>2. per = IF insieme > MaxByte THEN MaxByte ELSE insieme
  BY DEF byte_per_risultato, SaturaByte
<1>3. massimi = IF per = 0 \/ B = MaxByte THEN MaxByte ELSE B \div per
  BY DEF risultati_massimi
<1>4. tetto(limite, m, nel) = IF limite < massimi THEN limite ELSE massimi
  BY DEF tetto
<1> HIDE DEF per, massimi, u, B
<1>5. insieme \in Nat /\ per \in Nat
  BY <1>1, <1>2
<1> HIDE DEF insieme
<1>6. massimi \in Nat
  <2>1. CASE per = 0 \/ B = MaxByte
    BY <1>1, <1>3, <2>1
  <2>2. CASE ~ (per = 0 \/ B = MaxByte)
    <3>1. per \in Nat \ {0}
      BY <1>5, <2>2
    <3>2. B \div per \in Nat
      BY <1>1, <3>1, Divisione
    <3> QED
      BY <1>3, <2>2, <3>2
  <2> QED
    BY <2>1, <2>2
<1>7. n <= limite /\ n <= massimi
  BY <1>1, <1>4, <1>6
<1>8. n * insieme <= B \/ B = MaxByte
  <2>1. CASE B = MaxByte
    BY <2>1
  <2>2. CASE B # MaxByte /\ per = 0
    <3>1. insieme = 0
      BY <1>1, <1>2, <1>5, <2>2
    <3>2. n * 0 = 0
      OBVIOUS
    <3> QED
      BY <1>1, <3>1, <3>2
  <2>3. CASE B # MaxByte /\ per # 0
    <3>1. per \in Nat \ {0} /\ massimi = B \div per
      BY <1>3, <1>5, <2>3
    <3>2. B \div per \in Nat /\ (B \div per) * per <= B
      BY <1>1, <3>1, Divisione
    <3> DEFINE q == B \div per
    <3> HIDE DEF q
    <3>3. n <= q /\ q \in Nat /\ q * per <= B
      BY <1>7, <3>1, <3>2 DEF q
    <3>4. n * per \in Nat /\ n * per <= q * per
      BY <1>5, <3>3, ProdottoMonotono
    <3>5. q * per \in Nat
      BY <1>5, <3>3
    <3>6. n * per <= B
      BY <1>1, <3>3, <3>4, <3>5
    <3>7. CASE insieme <= MaxByte
      <4>1. per = insieme
        BY <1>1, <1>2, <1>5, <3>7
      <4> QED
        BY <3>6, <4>1
    <3>8. CASE ~ (insieme <= MaxByte)
      <4>1. per = MaxByte
        BY <1>1, <1>2, <1>5, <3>8
      <4>2. n = 0
        <5>1. SUFFICES ASSUME 1 <= n PROVE FALSE
          OBVIOUS
        <5>2. 1 * per <= n * per
          BY <1>5, <5>1, ProdottoMonotono
        <5>3. 1 * per = per
          BY <1>5
        <5> QED
          BY <1>1, <1>5, <2>3, <3>4, <3>6, <4>1, <5>2, <5>3
      <4>3. 0 * insieme = 0
        BY <1>5
      <4> QED
        BY <1>1, <4>2, <4>3
    <3> QED
      BY <1>1, <1>5, <3>7, <3>8
  <2> QED
    BY <2>1, <2>2, <2>3
<1> QED
  BY <1>7, <1>8 DEF insieme, u, B

\* The places of every task, told apart.
PostiDi(D, g) == UNION {{k} \X g[k] : k \in D}

\* The pairs that tasks hold, after a step of one of them.
LEMMA CoppieDopo ==
    ASSUME NEW D, NEW g, NEW h, NEW i \in D, NEW a \in Int, NEW b \in Int, a <= b,
           IsFiniteSet(PostiDi(D, g)),
           \A k \in D \ {i} : h[k] = g[k],
           h[i] \subseteq g[i] \cup ((a + 1) .. b)
    PROVE  /\ IsFiniteSet(PostiDi(D, h)) /\ Cardinality(PostiDi(D, h)) \in Nat
           /\ Cardinality(PostiDi(D, h)) <= Cardinality(PostiDi(D, g)) + (b - a)
<1> DEFINE Z == (a + 1) .. b
           X == PostiDi(D, g)
           Y == PostiDi(D, h)
<1>1. h[i] \subseteq g[i] \cup Z
  OBVIOUS
<1> HIDE DEF Z
<1>2. Y \subseteq X \cup ({i} \X Z)
  <2>1. SUFFICES ASSUME NEW p \in Y PROVE p \in X \cup ({i} \X Z)
    OBVIOUS
  <2>2. PICK k \in D : p \in {k} \X h[k]
    BY <2>1 DEF PostiDi
  <2>3. CASE k # i
    BY <2>2, <2>3 DEF PostiDi
  <2>4. CASE k = i
    BY <1>1, <2>2, <2>4 DEF PostiDi
  <2> QED
    BY <2>3, <2>4
<1> HIDE DEF X, Y
<1>3. IsFiniteSet(X)
  BY DEF X
<1>4. /\ IsFiniteSet(Y) /\ Cardinality(Y) \in Nat
      /\ Cardinality(Y) <= Cardinality(X) + (b - a)
  BY <1>2, <1>3, RigaPiuLunga DEF Z
<1> QED
  BY <1>4 DEF X, Y

-----------------------------------------------------------------------------
(* The spatial join *)

RigaInCorso(R) == [prossimo : Nat \ {0}, tenuti : Seq(Nat), oltre : BOOLEAN, reso : R]

\* A call of the spatial join: the pairs held are among those counted, and the
\* count never passes the cap.
InvSpaziale ==
    /\ caso \in CasiSpaziali
    /\ \E R : lavori \in [DOMAIN caso.righe -> RigaInCorso(R)]
    /\ condiviso \in [conto : Nat]
    /\ condiviso.conto <= Spaz!Tetto(caso)
    /\ IsFiniteSet(Spaz!CoppieTenute)
    /\ Cardinality(Spaz!CoppieTenute) <= condiviso.conto

LEMMA CrescenteSpaziale == \A S : Spaz!Crescente(S) = Crescente(S)
<1>1. ASSUME NEW S PROVE Spaz!Cardinality(S) = Cardinality(S)
  BY DEF Cardinality, Spaz!Cardinality
<1>2. ASSUME NEW S, NEW R, NEW k PROVE Spaz!AlPosto(S, R, k) = AlPosto(S, R, k)
  BY <1>1 DEF AlPosto, Spaz!AlPosto
<1> QED
  BY <1>1, <1>2 DEF Crescente, Spaz!Crescente, PerRelazione, Spaz!PerRelazione

LEMMA TettoNaturale ==
    ASSUME NEW limite \in 0 .. MaxByte, NEW m \in Margini, NEW nel \in Nat
    PROVE  tetto(limite, m, nel) \in Nat
<1>1. MaxByte \in Nat /\ limite \in Nat /\ m.byte \in Nat /\ m.uscita_per_risultato \in Nat
  BY MargineAssumption DEF Margini
<1> DEFINE per == byte_per_risultato(m, nel)
<1>2. per \in Nat
  BY <1>1 DEF byte_per_risultato, SaturaByte
<1> HIDE DEF per
<1>3. per # 0 => m.byte \div per \in Nat
  BY <1>1, <1>2, Divisione
<1>4. risultati_massimi(m, nel) \in Nat
  BY <1>1, <1>3 DEF risultati_massimi, per
<1> QED
  BY <1>1, <1>4 DEF tetto

LEMMA TettoSpaziale ==
    ASSUME NEW c \in CasiSpaziali
    PROVE  /\ Spaz!Tetto(c) = tetto(c.max_pairs, c.margine, BytePerCoppia)
           /\ Spaz!Tetto(c) \in Nat
<1>1. c.max_pairs \in 0 .. MaxByte /\ c.margine \in Margini /\ BytePerCoppia \in Nat
  BY CasiAssunti, LimitiAssunti
<1>2. Spaz!Tetto(c) = tetto(c.max_pairs, c.margine, BytePerCoppia)
  BY DEF Spaz!Tetto, Spaz!tetto, Spaz!risultati_massimi, Spaz!byte_per_risultato, Spaz!SaturaByte,
         tetto, risultati_massimi, byte_per_risultato, SaturaByte
<1> QED
  BY <1>1, <1>2, TettoNaturale

\* A step of one row: the places it takes more have to be counted.
LEMMA PassoDiUnaRiga ==
    ASSUME InvSpaziale, caso' = caso,
           NEW R, lavori \in [DOMAIN caso.righe -> RigaInCorso(R)],
           NEW i \in DOMAIN lavori, NEW nuovo \in RigaInCorso(R),
           lavori' = [lavori EXCEPT ![i] = nuovo],
           NEW a \in Int, NEW b \in Int, a <= b,
           Spaz!Tenute(nuovo) \subseteq Spaz!Tenute(lavori[i]) \cup ((a + 1) .. b),
           condiviso' \in [conto : Nat],
           condiviso'.conto = condiviso.conto + (b - a), condiviso'.conto <= Spaz!Tetto(caso)
    PROVE  InvSpaziale'
<1> DEFINE D == DOMAIN lavori
           g == [k \in D |-> Spaz!Tenute(lavori[k])]
           h == [k \in D |-> Spaz!Tenute(lavori'[k])]
           X == PostiDi(D, g)
           Y == PostiDi(D, h)
           Z == (a + 1) .. b
<1>1. lavori' \in [DOMAIN caso.righe -> RigaInCorso(R)] /\ DOMAIN lavori' = D
  OBVIOUS
<1>2. lavori'[i] = nuovo /\ \A k \in D \ {i} : lavori'[k] = lavori[k]
  OBVIOUS
<1>3. Spaz!CoppieTenute = X
  BY DEF Spaz!CoppieTenute, PostiDi
<1>4. Spaz!CoppieTenute' = Y
  <2>1. Spaz!CoppieTenute' = UNION {{k} \X Spaz!Tenute(lavori'[k]) : k \in DOMAIN lavori'}
    BY DEF Spaz!CoppieTenute, Spaz!Tenute
  <2> QED
    BY <1>1, <2>1 DEF PostiDi
<1>5. \A k \in D \ {i} : h[k] = g[k]
  BY <1>2
<1>6. h[i] \subseteq g[i] \cup Z
  BY <1>2
<1>7. IsFiniteSet(X) /\ Cardinality(X) <= condiviso.conto
  BY <1>3 DEF InvSpaziale
<1>8. i \in D
  OBVIOUS
<1> HIDE DEF g, h, D
<1>11. /\ IsFiniteSet(Y) /\ Cardinality(Y) \in Nat
       /\ Cardinality(Y) <= Cardinality(X) + (b - a)
  BY <1>5, <1>6, <1>7, <1>8, CoppieDopo DEF Z
<1> HIDE DEF X, Y
<1>12. Cardinality(X) \in Nat
  BY <1>7, FS_CardinalityType
<1>13. condiviso.conto \in Nat /\ condiviso'.conto \in Nat
  BY DEF InvSpaziale
<1>14. Cardinality(Y) <= condiviso'.conto
  BY <1>7, <1>11, <1>12, <1>13
<1>16. Spaz!Tetto(caso)' = Spaz!Tetto(caso)
  BY DEF Spaz!Tetto, Spaz!tetto, Spaz!risultati_massimi, Spaz!byte_per_risultato, Spaz!SaturaByte
<1>17. caso \in CasiSpaziali
  BY DEF InvSpaziale
<1> QED
  BY <1>1, <1>4, <1>11, <1>14, <1>16, <1>17 DEF InvSpaziale

LEMMA InitSpaziale_Inv ==
    ASSUME NEW c \in CasiSpaziali, Spaz!InitSpaziale(c)
    PROVE  InvSpaziale
<1>1. /\ caso = c /\ condiviso = [conto |-> 0]
      /\ lavori = [i \in DOMAIN c.righe |-> [prossimo |-> 1, tenuti |-> <<>>, oltre |-> FALSE, reso |-> Nulla]]
  BY DEF Spaz!InitSpaziale
<1>2. lavori \in [DOMAIN caso.righe -> RigaInCorso({Nulla})]
  <2>1. <<>> \in Seq(Nat)
    OBVIOUS
  <2>2. [prossimo |-> 1, tenuti |-> <<>>, oltre |-> FALSE, reso |-> Nulla] \in RigaInCorso({Nulla})
    BY <2>1 DEF RigaInCorso
  <2> QED
    BY <1>1, <2>2
<1>3. \A i \in DOMAIN lavori : Spaz!Tenute(lavori[i]) = {}
  <2>1. DOMAIN <<>> = {}
    OBVIOUS
  <2> QED
    BY <1>1, <2>1 DEF Spaz!Tenute
<1>4. Spaz!CoppieTenute = {}
  BY <1>3 DEF Spaz!CoppieTenute
<1>5. IsFiniteSet({}) /\ Cardinality({}) = 0
  BY FS_EmptySet
<1>6. condiviso \in [conto : Nat] /\ condiviso.conto = 0
  BY <1>1
<1>7. Spaz!Tetto(caso) \in Nat
  BY <1>1, TettoSpaziale
<1>8. condiviso.conto <= Spaz!Tetto(caso)
  BY <1>6, <1>7
<1>9. IsFiniteSet(Spaz!CoppieTenute) /\ Cardinality(Spaz!CoppieTenute) <= condiviso.conto
  BY <1>4, <1>5, <1>6
<1> QED
  BY <1>1, <1>2, <1>6, <1>8, <1>9 DEF InvSpaziale

LEMMA PassoSpaziale ==
    ASSUME InvSpaziale, Spaz!NextSpaziale
    PROVE  InvSpaziale'
<1>1. PICK R0 : lavori \in [DOMAIN caso.righe -> RigaInCorso(R0)]
  BY DEF InvSpaziale
<1>2. /\ caso \in CasiSpaziali /\ condiviso \in [conto : Nat] /\ condiviso.conto \in Nat
      /\ condiviso.conto <= Spaz!Tetto(caso) /\ Spaz!Tetto(caso) \in Nat
  BY TettoSpaziale DEF InvSpaziale
<1>3. CASE Spaz!Indice \/ Spaz!Raccoglie
  <2>1. UNCHANGED <<caso, lavori, condiviso>>
    BY <1>3 DEF Spaz!Indice, Spaz!Raccoglie
  <2>2. Spaz!CoppieTenute' = Spaz!CoppieTenute
    BY <2>1 DEF Spaz!CoppieTenute, Spaz!Tenute
  <2>3. Spaz!Tetto(caso)' = Spaz!Tetto(caso)
    BY <2>1 DEF Spaz!Tetto, Spaz!tetto, Spaz!risultati_massimi, Spaz!byte_per_risultato, Spaz!SaturaByte
  <2> QED
    BY <2>1, <2>2, <2>3 DEF InvSpaziale
\* A larger set of what a row may return.
<1>4. ASSUME NEW R, R0 \subseteq R
      PROVE  /\ lavori \in [DOMAIN caso.righe -> RigaInCorso(R)]
             /\ \A i \in DOMAIN lavori : lavori[i] \in RigaInCorso(R)
  <2>1. RigaInCorso(R0) \subseteq RigaInCorso(R)
    BY <1>4 DEF RigaInCorso
  <2> HIDE DEF RigaInCorso
  <2> QED
    BY <1>1, <2>1
\* A step of a row that takes no pair more.
<1>5. ASSUME NEW i \in DOMAIN lavori, NEW R, R0 \subseteq R, NEW nuovo \in RigaInCorso(R),
             lavori' = [lavori EXCEPT ![i] = nuovo], UNCHANGED <<caso, condiviso>>,
             Spaz!Tenute(nuovo) \subseteq Spaz!Tenute(lavori[i])
      PROVE  InvSpaziale'
  <2>1. 0 \in Int /\ 0 <= 0 /\ condiviso.conto + (0 - 0) = condiviso.conto
    BY <1>2
  <2>2. Spaz!Tenute(nuovo) \subseteq Spaz!Tenute(lavori[i]) \cup ((0 + 1) .. 0)
    BY <1>5
  <2>3. lavori \in [DOMAIN caso.righe -> RigaInCorso(R)]
    BY <1>4, <1>5
  <2>4. /\ condiviso' \in [conto : Nat] /\ condiviso'.conto = condiviso.conto + (0 - 0)
        /\ condiviso'.conto <= Spaz!Tetto(caso)
    BY <1>2, <1>5, <2>1
  <2> QED
    BY <1>5, <2>1, <2>2, <2>3, <2>4, PassoDiUnaRiga
<1>6. ASSUME NEW i \in DOMAIN lavori, lavori[i].reso = Nulla
      PROVE  /\ Spaz!Tenute(lavori[i]) = DOMAIN lavori[i].tenuti
             /\ lavori[i].tenuti \in Seq(Nat) /\ Len(lavori[i].tenuti) \in Nat
             /\ DOMAIN lavori[i].tenuti = 1 .. Len(lavori[i].tenuti)
             /\ lavori[i].prossimo \in Nat \ {0} /\ lavori[i].oltre \in BOOLEAN
  <2>1. lavori[i] \in RigaInCorso(R0)
    BY <1>1
  <2>2. lavori[i].tenuti \in Seq(Nat) /\ lavori[i].prossimo \in Nat \ {0} /\ lavori[i].oltre \in BOOLEAN
    BY <2>1 DEF RigaInCorso
  <2>3. /\ Len(lavori[i].tenuti) \in Nat
        /\ DOMAIN lavori[i].tenuti = 1 .. Len(lavori[i].tenuti)
    BY <2>2, LenProperties
  <2> QED
    BY <1>6, <2>2, <2>3 DEF Spaz!Tenute
\* What a row returns with a new record in the place of Nulla.
<1>7. ASSUME NEW i \in DOMAIN lavori, NEW reso,
             lavori' = [lavori EXCEPT ![i] = [lavori[i] EXCEPT !.reso = reso]],
             UNCHANGED <<caso, condiviso>>, lavori[i].reso = Nulla,
             \/ reso.tipo # "righe"
             \/ DOMAIN reso.righe \subseteq DOMAIN lavori[i].tenuti
      PROVE  InvSpaziale'
  <2> DEFINE R == R0 \cup {reso}
             nuovo == [lavori[i] EXCEPT !.reso = reso]
  <2>1. R0 \subseteq R /\ reso \in R
    OBVIOUS
  <2> HIDE DEF R
  <2>2. /\ nuovo \in RigaInCorso(R) /\ nuovo.reso = reso
        /\ nuovo.tenuti = lavori[i].tenuti
    <3>1. lavori[i] \in RigaInCorso(R)
      BY <1>4, <2>1
    <3> QED
      BY <2>1, <3>1 DEF RigaInCorso
  <2>3. lavori' = [lavori EXCEPT ![i] = nuovo]
    BY <1>7
  <2> HIDE DEF nuovo
  <2>4. Spaz!Tenute(nuovo) \subseteq Spaz!Tenute(lavori[i])
    <3>1. Spaz!Tenute(lavori[i]) = DOMAIN lavori[i].tenuti
      BY <1>6, <1>7
    <3>2. Spaz!Tenute(nuovo) = IF reso = Nulla THEN DOMAIN lavori[i].tenuti
                              ELSE IF reso.tipo = "righe" THEN DOMAIN reso.righe ELSE {}
      BY <2>2 DEF Spaz!Tenute
    <3> QED
      BY <1>7, <3>1, <3>2
  <2> QED
    BY <1>5, <1>7, <2>1, <2>2, <2>3, <2>4
<1>8. ASSUME NEW i \in DOMAIN lavori, Spaz!RigaInvalida(i) PROVE InvSpaziale'
  <2> DEFINE reso == Spaz!Errore(i, "invalida")
  <2>1. /\ lavori' = [lavori EXCEPT ![i] = [lavori[i] EXCEPT !.reso = reso]]
        /\ UNCHANGED <<caso, condiviso>> /\ lavori[i].reso = Nulla
    BY <1>8 DEF Spaz!RigaInvalida, Spaz!InCorso
  <2>2. reso.tipo # "righe"
    BY DEF Spaz!Errore
  <2> HIDE DEF reso
  <2> QED
    BY <1>7, <1>8, <2>1, <2>2
<1>9. ASSUME NEW i \in DOMAIN lavori, Spaz!RigaFinita(i) PROVE InvSpaziale'
  <2> DEFINE l == lavori[i]
             S == Spaz!Range(l.tenuti)
             ordinati == Spaz!Crescente(S)
             reso == IF l.oltre THEN Spaz!ErroreDelTetto(caso)
                     ELSE Spaz!Coppie([k \in DOMAIN ordinati |-> <<i, ordinati[k]>>])
  <2>1. /\ lavori' = [lavori EXCEPT ![i] = [lavori[i] EXCEPT !.reso = reso]]
        /\ UNCHANGED <<caso, condiviso>> /\ lavori[i].reso = Nulla
    BY <1>9 DEF Spaz!RigaFinita, Spaz!InCorso
  <2>2. DOMAIN l.tenuti = 1 .. Len(l.tenuti) /\ Len(l.tenuti) \in Nat
    BY <1>6, <1>9, <2>1
  <2>3. IsFiniteSet(S) /\ Cardinality(S) \in Nat /\ Cardinality(S) <= Len(l.tenuti)
    BY <2>2, ValoriFiniti DEF Spaz!Range
  <2> HIDE DEF S
  <2>4. DOMAIN ordinati = 1 .. Cardinality(S)
    BY <2>3, CrescenteSpaziale, FilaCrescente
  <2>5. DOMAIN ordinati \subseteq DOMAIN l.tenuti
    BY <2>2, <2>3, <2>4
  <2> HIDE DEF ordinati
  <2>6. reso.tipo # "righe" \/ DOMAIN reso.righe \subseteq DOMAIN lavori[i].tenuti
    <3>1. CASE l.oltre
      BY <3>1 DEF Spaz!ErroreDelTetto
    <3>2. CASE ~ l.oltre
      <4>1. reso.righe = [k \in DOMAIN ordinati |-> <<i, ordinati[k]>>]
        BY <3>2 DEF Spaz!Coppie
      <4>2. DOMAIN reso.righe = DOMAIN ordinati
        BY <4>1
      <4> QED
        BY <2>5, <4>2
    <3> QED
      BY <3>1, <3>2
  <2> HIDE DEF reso
  <2> QED
    BY <1>7, <1>9, <2>1, <2>6
<1>10. ASSUME NEW i \in DOMAIN lavori, Spaz!Candidato(i) PROVE InvSpaziale'
  <2> DEFINE l == lavori[i]
             candidato == caso.righe[i].candidati[l.prossimo]
             accettata == Spaz!Accettati(condiviso.conto, 1, Spaz!Tetto(caso))
             conferma == candidato.predicato = "si" /\ ~ l.oltre
             conto == condiviso.conto + (IF conferma /\ accettata THEN 1 ELSE 0)
             tenuti == IF ~ conferma THEN l.tenuti
                       ELSE IF accettata THEN Append(l.tenuti, candidato.destra) ELSE <<>>
             nuovo == IF candidato.predicato \notin {"si", "no"}
                        THEN [l EXCEPT !.reso = Spaz!Errore(i, candidato.predicato), !.tenuti = <<>>]
                      ELSE [l EXCEPT !.prossimo = l.prossimo + 1,
                                     !.oltre = l.oltre \/ (conferma /\ ~ accettata), !.tenuti = tenuti]
  <2>1. /\ lavori' = [lavori EXCEPT ![i] = nuovo]
        /\ condiviso' = [condiviso EXCEPT !.conto = conto]
        /\ caso' = caso
    BY <1>10 DEF Spaz!Candidato
  <2>2. l.reso = Nulla /\ l.prossimo <= Len(caso.righe[i].candidati)
    BY <1>10 DEF Spaz!Candidato, Spaz!InCorso
  <2>3. candidato.destra \in Nat
    <3>1. caso.righe \in Seq(RigaSpaziale)
      BY <1>2, CasiAssunti
    <3>2. i \in DOMAIN caso.righe
      BY <1>1
    <3>3. caso.righe[i] \in RigaSpaziale
      BY <3>1, <3>2
    <3>4. caso.righe[i].candidati \in Seq(Candidati)
      BY <3>3 DEF RigaSpaziale
    <3>5. l.prossimo \in 1 .. Len(caso.righe[i].candidati)
      <4>1. Len(caso.righe[i].candidati) \in Nat
        BY <3>4, LenProperties
      <4>2. l.prossimo \in Nat \ {0}
        BY <1>6, <2>2
      <4> QED
        BY <2>2, <4>1, <4>2
    <3>6. candidato \in Candidati
      BY <3>4, <3>5, ElementOfSeq
    <3> QED
      BY <3>6 DEF Candidati
  <2> HIDE DEF candidato
  <2>4. /\ Spaz!Tenute(l) = 1 .. Len(l.tenuti) /\ l.tenuti \in Seq(Nat) /\ Len(l.tenuti) \in Nat
        /\ l.prossimo + 1 \in Nat \ {0} /\ l.oltre \in BOOLEAN
    BY <1>6, <2>2
  <2>5. CASE candidato.predicato \notin {"si", "no"}
    <3> DEFINE E == Spaz!Errore(i, candidato.predicato)
               R == R0 \cup {E}
    <3>1. R0 \subseteq R /\ E \in R /\ E.tipo # "righe"
      BY DEF Spaz!Errore
    <3> HIDE DEF E, R
    <3>2. nuovo = [l EXCEPT !.reso = E, !.tenuti = <<>>] /\ conto = condiviso.conto
      BY <1>2, <2>5 DEF E
    <3>3. l \in RigaInCorso(R)
      BY <1>4, <3>1
    <3>4. nuovo \in RigaInCorso(R) /\ nuovo.reso = E /\ nuovo.tenuti = <<>>
      <4>1. <<>> \in Seq(Nat)
        OBVIOUS
      <4> HIDE DEF nuovo, l
      <4> QED
        BY <3>1, <3>2, <3>3, <4>1 DEF RigaInCorso
    <3>5. UNCHANGED <<caso, condiviso>>
      <4> HIDE DEF conto
      <4> QED
        BY <1>2, <2>1, <3>2
    <3> HIDE DEF nuovo
    <3>6. Spaz!Tenute(nuovo) \subseteq Spaz!Tenute(l)
      <4>1. DOMAIN <<>> = {}
        OBVIOUS
      <4> QED
        BY <3>1, <3>4, <4>1 DEF Spaz!Tenute
    <3> QED
      BY <1>5, <1>10, <2>1, <3>1, <3>4, <3>5, <3>6
  <2>6. CASE candidato.predicato \in {"si", "no"}
    <3> DEFINE oltre == l.oltre \/ (conferma /\ ~ accettata)
               dopo == l.prossimo + 1
    <3>1. nuovo = [l EXCEPT !.prossimo = dopo, !.oltre = oltre, !.tenuti = tenuti]
      BY <2>6
    <3>2. oltre \in BOOLEAN /\ dopo \in Nat \ {0}
      BY <2>4
    <3>3. tenuti \in Seq(Nat)
      <4>1. Append(l.tenuti, candidato.destra) \in Seq(Nat) /\ <<>> \in Seq(Nat)
        BY <2>3, <2>4, AppendProperties
      <4> HIDE DEF accettata, conferma
      <4> QED
        BY <2>4, <4>1
    <3> HIDE DEF oltre, dopo
    <3>4. l \in RigaInCorso(R0)
      BY <1>1
    <3>5. nuovo \in RigaInCorso(R0) /\ nuovo.reso = Nulla /\ nuovo.tenuti = tenuti
      <4> HIDE DEF nuovo, tenuti, l
      <4> QED
        BY <2>2, <3>1, <3>2, <3>3, <3>4 DEF RigaInCorso
    <3>6. Spaz!Tenute(nuovo) = DOMAIN tenuti
      <4> HIDE DEF nuovo, tenuti
      <4> QED
        BY <3>5 DEF Spaz!Tenute
    <3>7. CASE conferma /\ accettata
      <4> DEFINE a == Len(l.tenuti)
      <4>1. DOMAIN tenuti = 1 .. a + 1
        BY <2>3, <2>4, <3>7, AppendProperties
      <4>2. conto = condiviso.conto + 1 /\ conto <= Spaz!Tetto(caso) /\ conto \in Nat
        BY <1>2, <3>7 DEF Spaz!Accettati
      <4>3. a \in Int /\ a + 1 \in Int /\ a <= a + 1 /\ (a + 1) - a = 1
        BY <2>4
      <4> HIDE DEF conto, nuovo, tenuti, accettata, conferma
      <4>4. Spaz!Tenute(nuovo) \subseteq Spaz!Tenute(l) \cup ((a + 1) .. (a + 1))
        BY <2>4, <3>6, <4>1, <4>3
      <4>5. /\ condiviso' \in [conto : Nat] /\ condiviso'.conto = condiviso.conto + ((a + 1) - a)
            /\ condiviso'.conto <= Spaz!Tetto(caso)
        BY <1>2, <2>1, <4>2, <4>3
      <4> QED
        BY <1>1, <1>10, <2>1, <3>5, <4>3, <4>4, <4>5, PassoDiUnaRiga
    <3>8. CASE ~ (conferma /\ accettata)
      <4>1. conto = condiviso.conto
        BY <1>2, <3>8
      <4>2. DOMAIN tenuti \subseteq Spaz!Tenute(l)
        <5>1. DOMAIN <<>> = {}
          OBVIOUS
        <5>2. tenuti = l.tenuti \/ tenuti = <<>>
          BY <3>8
        <5>3. DOMAIN l.tenuti = Spaz!Tenute(l)
          BY <1>6, <2>2
        <5> HIDE DEF tenuti
        <5> QED
          BY <5>1, <5>2, <5>3
      <4> HIDE DEF conto, nuovo, tenuti, accettata, conferma
      <4>3. UNCHANGED <<caso, condiviso>>
        BY <1>2, <2>1, <4>1
      <4> QED
        BY <1>5, <1>10, <2>1, <3>5, <3>6, <4>2, <4>3
    <3> QED
      BY <3>7, <3>8
  <2> QED
    BY <2>5, <2>6
<1> QED
  BY <1>3, <1>8, <1>9, <1>10 DEF Spaz!NextSpaziale

\* The pairs held are within max_pairs, and their bytes within the margin.
LEMMA SpazialeTiene ==
    ASSUME InvSpaziale
    PROVE  LET n == Cardinality(Spaz!CoppieTenute)
           IN  /\ n <= caso.max_pairs
               /\ n * (BytePerCoppia + caso.margine.uscita_per_risultato) <= caso.margine.byte
                  \/ caso.margine.byte = MaxByte
<1> DEFINE n == Cardinality(Spaz!CoppieTenute)
<1>1. /\ n \in Nat /\ n <= condiviso.conto /\ condiviso.conto \in Nat
      /\ condiviso.conto <= Spaz!Tetto(caso) /\ caso \in CasiSpaziali
  BY FS_CardinalityType DEF InvSpaziale
<1>2. /\ Spaz!Tetto(caso) = tetto(caso.max_pairs, caso.margine, BytePerCoppia)
      /\ Spaz!Tetto(caso) \in Nat
  BY <1>1, TettoSpaziale
<1>3. caso.max_pairs \in 0 .. MaxByte /\ caso.margine \in Margini /\ BytePerCoppia \in Nat
  BY <1>1, CasiAssunti, LimitiAssunti
<1> HIDE DEF n
<1>4. n <= tetto(caso.max_pairs, caso.margine, BytePerCoppia)
  BY <1>1, <1>2
<1>5. /\ n <= caso.max_pairs
      /\ n * (BytePerCoppia + caso.margine.uscita_per_risultato) <= caso.margine.byte
         \/ caso.margine.byte = MaxByte
  BY <1>1, <1>3, <1>4, TettoEntroIlMargine
<1> QED
  BY <1>5 DEF n

-----------------------------------------------------------------------------
(* The nearest neighbours *)

\* A call of the nearest neighbours: the rows held are among those counted, and the
\* count never passes the cap.
InvVicini ==
    /\ caso \in CasiVicini
    /\ \E R : lavori \in [DOMAIN caso.sinistra -> [reso : R]]
    /\ condiviso \in [conto : Nat]
    /\ condiviso.conto <= Vic!Tetto(caso)
    /\ IsFiniteSet(Vic!ViciniTenuti)
    /\ Cardinality(Vic!ViciniTenuti) <= condiviso.conto

LEMMA CrescenteVicini == \A S : Vic!Crescente(S) = Crescente(S)
<1>1. ASSUME NEW S PROVE Vic!Cardinality(S) = Cardinality(S)
  BY DEF Cardinality, Vic!Cardinality
<1>2. ASSUME NEW S, NEW R, NEW k PROVE Vic!AlPosto(S, R, k) = AlPosto(S, R, k)
  BY <1>1 DEF AlPosto, Vic!AlPosto
<1> QED
  BY <1>1, <1>2 DEF Crescente, Vic!Crescente, PerRelazione, Vic!PerRelazione

LEMMA TettoVicini ==
    ASSUME NEW c \in CasiVicini
    PROVE  /\ Vic!Tetto(c) = tetto(c.max_results, c.margine, BytePerVicino)
           /\ Vic!Tetto(c) \in Nat
<1>1. c.max_results \in 0 .. MaxByte /\ c.margine \in Margini /\ BytePerVicino \in Nat
  BY CasiAssunti, LimitiAssunti
<1>2. Vic!Tetto(c) = tetto(c.max_results, c.margine, BytePerVicino)
  BY DEF Vic!Tetto, Vic!tetto, Vic!risultati_massimi, Vic!byte_per_risultato, Vic!SaturaByte,
         tetto, risultati_massimi, byte_per_risultato, SaturaByte
<1> QED
  BY <1>1, <1>2, TettoNaturale

\* Sequences of numbers chosen from a finite set.
LEMMA FilaVicini ==
    ASSUME NEW S, IsFiniteSet(S)
    PROVE  /\ Cardinality(S) \in Nat
           /\ DOMAIN Vic!Crescente(S) = 1 .. Cardinality(S)
           /\ Len(Vic!Crescente(S)) = Cardinality(S)
           /\ \E V : Vic!Crescente(S) \in Seq(V)
           /\ IsFiniteSet(Vic!Range(Vic!Crescente(S)))
<1> DEFINE f == Vic!Crescente(S)
<1>1. f = Crescente(S)
  BY CrescenteVicini
<1>2. /\ Cardinality(S) \in Nat /\ DOMAIN f = 1 .. Cardinality(S)
      /\ Len(f) = Cardinality(S) /\ \E V : f \in Seq(V)
  <2> HIDE DEF f
  <2> QED
    BY <1>1, FilaCrescente
<1> HIDE DEF f
<1>3. IsFiniteSet(Vic!Range(f))
  BY <1>2, ValoriFiniti DEF Vic!Range
<1> QED
  BY <1>2, <1>3 DEF f

\* Joined sequences are a sequence.
LEMMA FileUnite ==
    ASSUME NEW U, NEW s \in Seq(U), NEW V, NEW t \in Seq(V), NEW W, NEW u \in Seq(W)
    PROVE  \E X : s \o t \o u \in Seq(X)
<1> DEFINE X == U \cup V \cup W
<1>1. U \subseteq X /\ V \subseteq X /\ W \subseteq X
  OBVIOUS
<1> HIDE DEF X
<1>2. s \in Seq(X) /\ t \in Seq(X) /\ u \in Seq(X)
  BY <1>1, SeqMonotonic
<1>3. s \o t \in Seq(X)
  BY <1>2, ConcatProperties
<1>4. (s \o t) \o u \in Seq(X)
  BY <1>2, <1>3, ConcatProperties
<1> QED
  BY <1>4

\* The rows a left row is compared with are finitely many.
LEMMA VisitaFinita ==
    ASSUME NEW c \in CasiVicini, NEW i, Vic!visita_candidati(c, i) # Panico
    PROVE  \E X : Vic!visita_candidati(c, i) \in Seq(X)
<1>1. c.destra \in Seq(Geometria)
  BY CasiAssunti
<1>2. Len(c.destra) \in Nat /\ DOMAIN c.destra = 1 .. Len(c.destra)
  BY <1>1, LenProperties
<1>3. IsFiniteSet(DOMAIN c.destra)
  BY <1>2, FS_Interval
<1> DEFINE tutti == Vic!usable_right(c)
           Albero == {j \in Vic!Range(tutti) : c.destra[j].regolare}
           Sempre == {j \in Vic!Range(tutti) : ~ c.destra[j].regolare}
           albero == Vic!Crescente(Albero)
           sempre == Vic!Crescente(Sempre)
<1>4. (\E X : tutti \in Seq(X)) /\ IsFiniteSet(Vic!Range(tutti))
  <2> DEFINE S == {j \in DOMAIN c.destra : c.destra[j].punti # {}}
  <2>1. IsFiniteSet(S)
    BY <1>3, FS_Subset
  <2>2. tutti = Vic!Crescente(S)
    BY DEF Vic!usable_right
  <2> HIDE DEF S
  <2> QED
    BY <2>1, <2>2, FilaVicini
<1> HIDE DEF tutti
<1>5. IsFiniteSet(Albero) /\ IsFiniteSet(Sempre)
  BY <1>4, FS_Subset
<1> HIDE DEF Albero, Sempre
<1>6. IsFiniteSet(Vic!Range(albero)) /\ \E V : sempre \in Seq(V)
  BY <1>5, FilaVicini
<1> HIDE DEF albero, sempre
<1>7. \E P, F : Vic!visita_candidati(c, i) \in
           {tutti, Panico,
            Vic!Crescente({j \in Vic!Range(albero) : F[j]}) \o sempre \o <<>>,
            Vic!Crescente({j \in Vic!Range(albero) : F[j]}) \o sempre \o <<P>>}
  <2> DEFINE a == Vic!Involucro(c.sinistra[i].punti)
             DaQui(j) == Vic!DalCentro(a, Vic!Involucro(c.destra[j].punti))
             primo == CHOOSE j \in Vic!Range(albero) : \A k \in Vic!Range(albero) : DaQui(j) <= DaQui(k)
             limite == Vic!distanza_protetta(c, i, primo)
             finestra == [lower |-> a.lower - Vic!Espansione(limite), upper |-> a.upper + Vic!Espansione(limite)]
             F == [j \in Vic!Range(albero) |-> Vic!Interseca(Vic!Involucro(c.destra[j].punti), finestra)]
             trovati == Vic!Crescente({j \in Vic!Range(albero) : Vic!Interseca(Vic!Involucro(c.destra[j].punti), finestra)})
  <2>1. Vic!visita_candidati(c, i) =
          IF ~ c.sinistra[i].regolare \/ albero = <<>> THEN tutti
          ELSE IF limite = Panico THEN Panico
          ELSE IF limite = NaN THEN tutti
          ELSE trovati \o sempre \o (IF primo \in Vic!Range(trovati) THEN <<>> ELSE <<primo>>)
    BY DEF Vic!visita_candidati, albero, sempre, Albero, Sempre, tutti
  <2> HIDE DEF primo, limite
  <2>2. {j \in Vic!Range(albero) : F[j]}
          = {j \in Vic!Range(albero) : Vic!Interseca(Vic!Involucro(c.destra[j].punti), finestra)}
    OBVIOUS
  <2>3. trovati = Vic!Crescente({j \in Vic!Range(albero) : F[j]})
    BY <2>2
  <2> HIDE DEF F, trovati
  <2>4. Vic!visita_candidati(c, i) \in
           {tutti, Panico, trovati \o sempre \o <<>>, trovati \o sempre \o <<primo>>}
    BY <2>1
  <2> QED
    BY <2>3, <2>4
<1>8. PICK P, F : Vic!visita_candidati(c, i) \in
           {tutti, Panico,
            Vic!Crescente({j \in Vic!Range(albero) : F[j]}) \o sempre \o <<>>,
            Vic!Crescente({j \in Vic!Range(albero) : F[j]}) \o sempre \o <<P>>}
  BY <1>7
<1> DEFINE S == {j \in Vic!Range(albero) : F[j]}
           trovati == Vic!Crescente(S)
<1>9. IsFiniteSet(S)
  BY <1>6, FS_Subset
<1> HIDE DEF S
<1>10. PICK U : trovati \in Seq(U)
  BY <1>9, FilaVicini
<1>11. PICK V : sempre \in Seq(V)
  BY <1>6
<1>12. <<>> \in Seq({P}) /\ <<P>> \in Seq({P})
  OBVIOUS
<1> HIDE DEF trovati
<1>13. /\ \E X : trovati \o sempre \o <<>> \in Seq(X)
       /\ \E X : trovati \o sempre \o <<P>> \in Seq(X)
  BY <1>10, <1>11, <1>12, FileUnite
<1>14. Vic!visita_candidati(c, i) \in
         {tutti, Panico, trovati \o sempre \o <<>>, trovati \o sempre \o <<P>>}
  BY <1>8 DEF trovati, S
<1> QED
  BY <1>4, <1>13, <1>14

\* g is the first pass over the first n rows visited.
GiroFino(c, i, viste, g, n) ==
    g = [ k \in 0 .. n |->
            IF k = 0 THEN [minimo |-> Nulla, pari |-> 0, panico |-> FALSE]
            ELSE Vic!DopoLaDistanza(g[k - 1], Vic!distanza_protetta(c, i, viste[k])) ]

LEMMA GiroEsiste ==
    ASSUME NEW c, NEW i, NEW viste, NEW N \in Nat
    PROVE  \E g : GiroFino(c, i, viste, g, N)
<1> DEFINE Base == [minimo |-> Nulla, pari |-> 0, panico |-> FALSE]
           Poi(r, k) == Vic!DopoLaDistanza(r, Vic!distanza_protetta(c, i, viste[k]))
           T == {n \in Nat : ~ \E g : GiroFino(c, i, viste, g, n)}
<1> SUFFICES ASSUME T # {} PROVE FALSE
  OBVIOUS
<1>1. PICK m \in T : \A n \in T : m <= n
  <2> HIDE DEF T
  <2>1. T \subseteq Nat
    BY DEF T
  <2> QED
    BY <2>1, MinimoDi
<1>2. CASE m = 0
  <2> DEFINE g == [k \in 0 .. 0 |-> Base]
  <2>1. g = [k \in 0 .. 0 |-> IF k = 0 THEN Base ELSE Poi(g[k - 1], k)]
    <3> HIDE DEF Base, Poi
    <3> QED
      OBVIOUS
  <2>2. GiroFino(c, i, viste, g, 0)
    BY <2>1 DEF GiroFino
  <2> QED
    BY <1>2, <2>2
<1>3. CASE m # 0
  <2>1. m \in Nat /\ m - 1 \in Nat /\ ~ (m <= m - 1)
    BY <1>3
  <2>2. PICK h : GiroFino(c, i, viste, h, m - 1)
    BY <1>1, <2>1
  <2> DEFINE g == [k \in 0 .. m |-> IF k = m THEN Poi(h[m - 1], m) ELSE h[k]]
  <2>3. ASSUME NEW k \in 0 .. m
        PROVE  g[k] = IF k = 0 THEN Base ELSE Poi(g[k - 1], k)
    <3>1. CASE k = m
      <4>1. g[k - 1] = h[m - 1]
        BY <1>3, <3>1, <2>1
      <4> QED
        BY <1>3, <3>1, <4>1
    <3>2. CASE k # m
      <4>1. k \in 0 .. (m - 1) /\ g[k] = h[k]
        BY <2>1, <3>2
      <4>2. h[k] = IF k = 0 THEN Base ELSE Poi(h[k - 1], k)
        BY <2>2, <4>1 DEF GiroFino
      <4>3. k # 0 => g[k - 1] = h[k - 1]
        BY <2>1, <3>2
      <4> QED
        BY <4>1, <4>2, <4>3
    <3> QED
      BY <3>1, <3>2
  <2>4. GiroFino(c, i, viste, g, m)
    <3>1. g = [k \in 0 .. m |-> g[k]]
      OBVIOUS
    <3> HIDE DEF g
    <3>2. g = [k \in 0 .. m |-> IF k = 0 THEN Base ELSE Poi(g[k - 1], k)]
      BY <2>3, <3>1
    <3> QED
      BY <3>2 DEF GiroFino
  <2> QED
    BY <2>4
<1> QED
  BY <1>2, <1>3

\* The rows at the minimum are counted by a natural number.
LEMMA PariNaturale ==
    ASSUME NEW c, NEW i, NEW viste, Len(viste) \in Nat
    PROVE  Vic!PrimoGiro(c, i, viste).pari \in Nat
<1> DEFINE N == Len(viste)
           G == CHOOSE g : GiroFino(c, i, viste, g, N)
           Tipo(r) == \E A, B : r \in [minimo : A, pari : Nat, panico : B]
<1>1. GiroFino(c, i, viste, G, N)
  BY GiroEsiste
<1>2. Vic!PrimoGiro(c, i, viste) = G[N]
  BY DEF Vic!PrimoGiro, GiroFino
<1> HIDE DEF G
<1>3. /\ G[0] = [minimo |-> Nulla, pari |-> 0, panico |-> FALSE]
      /\ \A k \in 1 .. N : G[k] = Vic!DopoLaDistanza(G[k - 1], Vic!distanza_protetta(c, i, viste[k]))
  <2> DEFINE Base == [minimo |-> Nulla, pari |-> 0, panico |-> FALSE]
             Poi(r, k) == Vic!DopoLaDistanza(r, Vic!distanza_protetta(c, i, viste[k]))
  <2>1. G = [k \in 0 .. N |-> IF k = 0 THEN Base ELSE Poi(G[k - 1], k)]
    BY <1>1 DEF GiroFino
  <2>2. G[0] = Base /\ \A k \in 1 .. N : G[k] = Poi(G[k - 1], k)
    <3> HIDE DEF Base, Poi
    <3> QED
      BY <2>1
  <2> QED
    BY <2>2
<1>4. ASSUME NEW r, NEW d, Tipo(r)
      PROVE  Tipo(Vic!DopoLaDistanza(r, d))
  <2>1. PICK A, B : r \in [minimo : A, pari : Nat, panico : B]
    BY <1>4
  <2> DEFINE nuovo == IF r.minimo = Nulla THEN d ELSE Vic!MinF(r.minimo, d)
             uno == IF Vic!Uguale(d, nuovo) THEN 1 ELSE 0
  <2>3. uno \in Nat /\ r.pari + uno \in Nat
    BY <2>1
  <2> HIDE DEF nuovo, uno
  <2>4. \/ Vic!DopoLaDistanza(r, d) = [r EXCEPT !.panico = TRUE]
        \/ Vic!DopoLaDistanza(r, d) = [r EXCEPT !.minimo = nuovo, !.pari = uno]
        \/ Vic!DopoLaDistanza(r, d) = [r EXCEPT !.pari = r.pari + uno]
    BY DEF Vic!DopoLaDistanza, nuovo, uno
  <2>5. [r EXCEPT !.panico = TRUE] \in [minimo : A, pari : Nat, panico : B \cup {TRUE}]
    BY <2>1
  <2>6. [r EXCEPT !.minimo = nuovo, !.pari = uno] \in [minimo : A \cup {nuovo}, pari : Nat, panico : B]
    BY <2>1, <2>3
  <2>7. [r EXCEPT !.pari = r.pari + uno] \in [minimo : A, pari : Nat, panico : B]
    <3> DEFINE n == r.pari + uno
    <3> HIDE DEF n
    <3>1. n \in Nat
      BY <2>3 DEF n
    <3>2. [r EXCEPT !.pari = n] \in [minimo : A, pari : Nat, panico : B]
      BY <2>1, <3>1
    <3> QED
      BY <3>2 DEF n
  <2> QED
    BY <2>4, <2>5, <2>6, <2>7
<1>5. Tipo(G[0])
  <2>1. G[0] \in [minimo : {Nulla}, pari : Nat, panico : {FALSE}]
    BY <1>3
  <2> QED
    BY <2>1
<1> DEFINE T == {n \in Nat : n <= N /\ ~ Tipo(G[n])}
<1>6. T = {}
  <2>1. SUFFICES ASSUME T # {} PROVE FALSE
    OBVIOUS
  <2>2. PICK m \in T : \A n \in T : m <= n
    <3> HIDE DEF T
    <3>1. T \subseteq Nat
      BY DEF T
    <3> QED
      BY <2>1, <3>1, MinimoDi
  <2> HIDE DEF Tipo
  <2>3. m # 0
    BY <1>5, <2>2
  <2>4. m \in 1 .. N /\ m - 1 \in Nat /\ m - 1 <= N /\ ~ (m <= m - 1)
    BY <2>2, <2>3
  <2>5. Tipo(G[m - 1])
    BY <2>2, <2>4
  <2>6. Tipo(G[m])
    BY <1>3, <1>4, <2>4, <2>5
  <2> QED
    BY <2>2, <2>6
<1>7. Tipo(G[N])
  <2> HIDE DEF Tipo
  <2>1. N \notin T /\ N \in Nat /\ N <= N
    BY <1>6
  <2> QED
    BY <2>1
<1>8. G[N].pari \in Nat
  BY <1>7
<1> QED
  BY <1>2, <1>8

LEMMA InitVicini_Inv ==
    ASSUME NEW c \in CasiVicini, Vic!InitVicini(c)
    PROVE  InvVicini
<1>1. /\ caso = c /\ condiviso = [conto |-> 0]
      /\ lavori = [i \in DOMAIN c.sinistra |-> [reso |-> Nulla]]
  BY DEF Vic!InitVicini
<1>2. lavori \in [DOMAIN caso.sinistra -> [reso : {Nulla}]]
  BY <1>1
<1>3. \A i \in DOMAIN lavori : Vic!Tenuti(lavori[i]) = {}
  BY <1>1 DEF Vic!Tenuti
<1>4. Vic!ViciniTenuti = {}
  BY <1>3 DEF Vic!ViciniTenuti
<1>5. IsFiniteSet({}) /\ Cardinality({}) = 0
  BY FS_EmptySet
<1>6. condiviso \in [conto : Nat] /\ condiviso.conto = 0
  BY <1>1
<1>7. Vic!Tetto(caso) \in Nat
  BY <1>1, TettoVicini
<1>8. condiviso.conto <= Vic!Tetto(caso)
  BY <1>6, <1>7
<1>9. IsFiniteSet(Vic!ViciniTenuti) /\ Cardinality(Vic!ViciniTenuti) <= condiviso.conto
  BY <1>4, <1>5, <1>6
<1> QED
  BY <1>1, <1>2, <1>6, <1>8, <1>9 DEF InvVicini

\* A left row that ends: it holds at most the places it took from the counter.
LEMMA FineDiUnaRiga ==
    ASSUME InvVicini, caso' = caso,
           NEW i \in DOMAIN lavori, NEW reso, NEW p \in Nat,
           lavori' = [lavori EXCEPT ![i] = [lavori[i] EXCEPT !.reso = reso]],
           Vic!Tenuti([reso |-> reso]) \subseteq 1 .. p,
           condiviso' \in [conto : Nat],
           condiviso'.conto = condiviso.conto + p, condiviso'.conto <= Vic!Tetto(caso)
    PROVE  InvVicini'
<1>1. PICK R0 : lavori \in [DOMAIN caso.sinistra -> [reso : R0]]
  BY DEF InvVicini
<1> DEFINE R == R0 \cup {reso}
           nuovo == [lavori[i] EXCEPT !.reso = reso]
           D == DOMAIN lavori
           g == [k \in D |-> Vic!Tenuti(lavori[k])]
           h == [k \in D |-> Vic!Tenuti(lavori'[k])]
           X == PostiDi(D, g)
           Y == PostiDi(D, h)
<1>2. nuovo = [reso |-> reso]
  <2>1. lavori[i] \in [reso : R0]
    BY <1>1
  <2> QED
    BY <2>1
<1>3. lavori' \in [DOMAIN caso.sinistra -> [reso : R]] /\ DOMAIN lavori' = D
  <2>1. [reso : R0] \subseteq [reso : R] /\ [reso |-> reso] \in [reso : R]
    OBVIOUS
  <2>2. lavori' = [lavori EXCEPT ![i] = [reso |-> reso]]
    BY <1>2
  <2> HIDE DEF R
  <2> QED
    BY <1>1, <2>1, <2>2
<1>4. lavori'[i] = [reso |-> reso] /\ \A k \in D \ {i} : lavori'[k] = lavori[k]
  BY <1>2
<1>5. Vic!ViciniTenuti = X
  BY DEF Vic!ViciniTenuti, PostiDi
<1>6. Vic!ViciniTenuti' = Y
  <2>1. Vic!ViciniTenuti' = UNION {{k} \X Vic!Tenuti(lavori'[k]) : k \in DOMAIN lavori'}
    BY DEF Vic!ViciniTenuti, Vic!Tenuti
  <2> QED
    BY <1>3, <2>1 DEF PostiDi
<1>7. \A k \in D \ {i} : h[k] = g[k]
  BY <1>4
<1>8. h[i] \subseteq g[i] \cup ((0 + 1) .. p)
  BY <1>4
<1>9. IsFiniteSet(X) /\ Cardinality(X) <= condiviso.conto
  BY <1>5 DEF InvVicini
<1>10. i \in D /\ 0 \in Int /\ p \in Int /\ 0 <= p
  OBVIOUS
<1> HIDE DEF g, h, D
<1>11. /\ IsFiniteSet(Y) /\ Cardinality(Y) \in Nat
       /\ Cardinality(Y) <= Cardinality(X) + (p - 0)
  BY <1>7, <1>8, <1>9, <1>10, CoppieDopo
<1> HIDE DEF X, Y
<1>12. Cardinality(X) \in Nat
  BY <1>9, FS_CardinalityType
<1>13. condiviso.conto \in Nat /\ condiviso'.conto \in Nat
  BY DEF InvVicini
<1>14. Cardinality(Y) <= condiviso'.conto
  BY <1>9, <1>11, <1>12, <1>13
<1>15. Vic!Tetto(caso)' = Vic!Tetto(caso)
  BY DEF Vic!Tetto, Vic!tetto, Vic!risultati_massimi, Vic!byte_per_risultato, Vic!SaturaByte
<1>16. caso \in CasiVicini
  BY DEF InvVicini
<1> QED
  BY <1>3, <1>6, <1>11, <1>14, <1>15, <1>16 DEF InvVicini

LEMMA PassoVicini ==
    ASSUME InvVicini, Vic!NextVicini
    PROVE  InvVicini'
<1>1. /\ caso \in CasiVicini /\ condiviso \in [conto : Nat] /\ condiviso.conto \in Nat
      /\ condiviso.conto <= Vic!Tetto(caso) /\ Vic!Tetto(caso) \in Nat
  BY TettoVicini DEF InvVicini
<1>2. CASE Vic!Confronti \/ Vic!Raccoglie
  <2>1. UNCHANGED <<caso, lavori, condiviso>>
    BY <1>2 DEF Vic!Confronti, Vic!Raccoglie
  <2>2. Vic!ViciniTenuti' = Vic!ViciniTenuti
    BY <2>1 DEF Vic!ViciniTenuti, Vic!Tenuti
  <2>3. Vic!Tetto(caso)' = Vic!Tetto(caso)
    BY <2>1 DEF Vic!Tetto, Vic!tetto, Vic!risultati_massimi, Vic!byte_per_risultato, Vic!SaturaByte
  <2> QED
    BY <2>1, <2>2, <2>3 DEF InvVicini
<1>3. ASSUME NEW i \in DOMAIN lavori, Vic!Riga(i) PROVE InvVicini'
  <2> DEFINE viste == Vic!visita_candidati(caso, i)
             primo == Vic!PrimoGiro(caso, i, viste)
             oltre == caso.max_distance # Nulla /\ Vic!Sotto(caso.max_distance, primo.minimo)
             accettati == Vic!Accettati(condiviso.conto, primo.pari, Vic!Tetto(caso))
             trovati == Vic!SecondoGiro(caso, i, viste, primo.minimo, primo.pari)
             righe == [k \in DOMAIN trovati |->
                         <<i, trovati[k], Vic!distanza_protetta(caso, i, trovati[k])>>]
             dispari == [Vic!NonConcluso(i) EXCEPT !.causa = "pari"]
             reso == IF ~ Vic!UtileSinistra(caso, i) THEN Vic!Vicini(<<>>)
                     ELSE IF viste = Panico THEN Vic!NonConcluso(i)
                     ELSE IF primo.panico THEN Vic!NonConcluso(i)
                     ELSE IF primo.minimo = Nulla \/ oltre THEN Vic!Vicini(<<>>)
                     ELSE IF ~ accettati THEN Vic!ErroreDelTetto(caso)
                     ELSE IF Len(trovati) # primo.pari THEN dispari
                     ELSE Vic!Vicini(righe)
             conto == IF reso.tipo = "righe" THEN condiviso.conto + Len(reso.righe)
                      ELSE IF reso = dispari THEN condiviso.conto + primo.pari
                      ELSE condiviso.conto
  <2>1. /\ lavori' = [lavori EXCEPT ![i] = [lavori[i] EXCEPT !.reso = reso]]
        /\ condiviso' = [condiviso EXCEPT !.conto = conto]
        /\ caso' = caso
    BY <1>3 DEF Vic!Riga
  <2>2. ASSUME viste # Panico
        PROVE  /\ primo.pari \in Nat /\ Len(viste) \in Nat
               /\ DOMAIN viste = 1 .. Len(viste)
    <3> HIDE DEF viste
    <3>1. PICK X : viste \in Seq(X)
      BY <1>1, <2>2, VisitaFinita DEF viste
    <3>2. Len(viste) \in Nat /\ DOMAIN viste = 1 .. Len(viste)
      BY <3>1, LenProperties
    <3> QED
      BY <3>2, PariNaturale
  <2> HIDE DEF viste, primo
  <2>3. \/ reso = Vic!Vicini(<<>>) \/ reso = Vic!NonConcluso(i) \/ reso = Vic!ErroreDelTetto(caso)
        \/ reso = dispari /\ accettati /\ viste # Panico
        \/ reso = Vic!Vicini(righe) /\ accettati /\ viste # Panico /\ Len(trovati) = primo.pari
    <3> HIDE DEF accettati, righe, trovati, dispari, oltre
    <3> QED
      OBVIOUS
  <2>4. ASSUME viste # Panico
        PROVE  DOMAIN trovati = 1 .. Len(trovati) /\ Len(trovati) \in Nat
    <3> DEFINE alMinimo == {k \in DOMAIN viste :
                              Vic!Uguale(Vic!distanza_protetta(caso, i, viste[k]), primo.minimo)}
               primi == {k \in alMinimo : Vic!Cardinality({h \in alMinimo : h <= k}) <= primo.pari}
               S == {viste[k] : k \in primi}
               V == {viste[k] : k \in DOMAIN viste}
    <3>1. trovati = Vic!Crescente(S)
      BY DEF Vic!SecondoGiro
    <3>2. S \subseteq V
      OBVIOUS
    <3>3. IsFiniteSet(V)
      BY <2>2, <2>4, ValoriFiniti
    <3> HIDE DEF S, V, trovati
    <3>4. IsFiniteSet(S)
      BY <3>2, <3>3, FS_Subset
    <3> QED
      BY <3>1, <3>4, FilaVicini
  <2> HIDE DEF reso, trovati
  <2>5. ASSUME NEW p \in Nat, Vic!Tenuti([reso |-> reso]) \subseteq 1 .. p,
               conto = condiviso.conto + p, condiviso.conto + p <= Vic!Tetto(caso)
        PROVE  InvVicini'
    <3> HIDE DEF conto
    <3>1. condiviso.conto + p \in Nat
      BY <1>1
    <3>2. condiviso' \in [conto : Nat] /\ condiviso'.conto = condiviso.conto + p
      BY <1>1, <2>1, <2>5, <3>1
    <3> QED
      BY <1>3, <2>1, <2>5, <3>2, FineDiUnaRiga
  \* The three outcomes that take no place.
  <2>6. ASSUME Vic!Tenuti([reso |-> reso]) = {}, conto = condiviso.conto
        PROVE  InvVicini'
    <3>1. Vic!Tenuti([reso |-> reso]) \subseteq 1 .. 0 /\ 0 \in Nat
      BY <2>6
    <3>2. conto = condiviso.conto + 0 /\ condiviso.conto + 0 <= Vic!Tetto(caso)
      BY <1>1, <2>6
    <3> HIDE DEF conto
    <3> QED
      BY <2>5, <3>1, <3>2
  <2>7. CASE reso = Vic!Vicini(<<>>)
    <3>1. reso.tipo = "righe" /\ reso.righe = <<>>
      BY <2>7 DEF Vic!Vicini
    <3>2. Len(<<>>) = 0 /\ DOMAIN <<>> = {}
      OBVIOUS
    <3>3. Vic!Tenuti([reso |-> reso]) = {}
      BY <3>1, <3>2 DEF Vic!Tenuti
    <3>4. conto = condiviso.conto
      BY <1>1, <3>1, <3>2
    <3> QED
      BY <2>6, <3>3, <3>4
  <2>8. CASE reso = Vic!NonConcluso(i)
    <3>1. reso = [tipo |-> "errore", riga |-> i, causa |-> "panico"]
      BY <2>8 DEF Vic!NonConcluso
    <3>2. reso.tipo = "errore" /\ reso.causa = "panico" /\ dispari.causa = "pari"
      BY <3>1 DEF Vic!NonConcluso
    <3>3. Vic!Tenuti([reso |-> reso]) = {}
      BY <3>2 DEF Vic!Tenuti
    <3>4. conto = condiviso.conto
      <4> HIDE DEF dispari
      <4> QED
        BY <3>2
    <3> QED
      BY <2>6, <3>3, <3>4
  <2>9. CASE reso = Vic!ErroreDelTetto(caso)
    <3>1. reso.tipo # "righe" /\ reso.tipo # "errore" /\ dispari.tipo = "errore"
      BY <2>9 DEF Vic!ErroreDelTetto, Vic!NonConcluso
    <3>2. Vic!Tenuti([reso |-> reso]) = {}
      BY <3>1 DEF Vic!Tenuti
    <3>3. conto = condiviso.conto
      <4> HIDE DEF dispari
      <4> QED
        BY <3>1
    <3> QED
      BY <2>6, <3>2, <3>3
  <2>10. ASSUME accettati, viste # Panico
         PROVE  primo.pari \in Nat /\ condiviso.conto + primo.pari <= Vic!Tetto(caso)
    BY <2>2, <2>10 DEF Vic!Accettati
  <2>11. CASE reso = dispari /\ accettati /\ viste # Panico
    <3>1. reso.tipo = "errore"
      BY <2>11 DEF Vic!NonConcluso
    <3>2. Vic!Tenuti([reso |-> reso]) \subseteq 1 .. primo.pari
      BY <3>1 DEF Vic!Tenuti
    <3>3. conto = condiviso.conto + primo.pari
      <4> HIDE DEF dispari
      <4> QED
        BY <2>11, <3>1
    <3> HIDE DEF conto, accettati, dispari
    <3> QED
      BY <2>5, <2>10, <2>11, <3>2, <3>3
  <2>12. CASE reso = Vic!Vicini(righe) /\ accettati /\ viste # Panico /\ Len(trovati) = primo.pari
    <3>1. reso.tipo = "righe" /\ reso.righe = righe
      BY <2>12 DEF Vic!Vicini
    <3>2. righe = [k \in 1 .. primo.pari |-> righe[k]] /\ DOMAIN righe = 1 .. primo.pari
      BY <2>4, <2>12
    <3>3. primo.pari \in Nat /\ condiviso.conto + primo.pari <= Vic!Tetto(caso)
      BY <2>10, <2>12
    <3> HIDE DEF righe, accettati
    <3>4. Len(righe) = primo.pari
      BY <3>2, <3>3, FilaDi
    <3>5. Vic!Tenuti([reso |-> reso]) \subseteq 1 .. primo.pari
      BY <3>1, <3>2 DEF Vic!Tenuti
    <3>6. conto = condiviso.conto + primo.pari
      BY <3>1, <3>4
    <3> HIDE DEF conto
    <3> QED
      BY <2>5, <3>3, <3>5, <3>6
  <2> HIDE DEF accettati, righe, dispari
  <2> QED
    BY <2>3, <2>7, <2>8, <2>9, <2>11, <2>12
<1> QED
  BY <1>2, <1>3 DEF Vic!NextVicini

\* The rows held are within max_results, and their bytes within the margin.
LEMMA ViciniTiene ==
    ASSUME InvVicini
    PROVE  LET n == Cardinality(Vic!ViciniTenuti)
           IN  /\ n <= caso.max_results
               /\ n * (BytePerVicino + caso.margine.uscita_per_risultato) <= caso.margine.byte
                  \/ caso.margine.byte = MaxByte
<1> DEFINE n == Cardinality(Vic!ViciniTenuti)
<1>1. /\ n \in Nat /\ n <= condiviso.conto /\ condiviso.conto \in Nat
      /\ condiviso.conto <= Vic!Tetto(caso) /\ caso \in CasiVicini
  BY FS_CardinalityType DEF InvVicini
<1>2. /\ Vic!Tetto(caso) = tetto(caso.max_results, caso.margine, BytePerVicino)
      /\ Vic!Tetto(caso) \in Nat
  BY <1>1, TettoVicini
<1>3. caso.max_results \in 0 .. MaxByte /\ caso.margine \in Margini /\ BytePerVicino \in Nat
  BY <1>1, CasiAssunti, LimitiAssunti
<1> HIDE DEF n
<1>4. n <= tetto(caso.max_results, caso.margine, BytePerVicino)
  BY <1>1, <1>2
<1>5. /\ n <= caso.max_results
      /\ n * (BytePerVicino + caso.margine.uscita_per_risultato) <= caso.margine.byte
         \/ caso.margine.byte = MaxByte
  BY <1>1, <1>3, <1>4, TettoEntroIlMargine
<1> QED
  BY <1>5 DEF n

-----------------------------------------------------------------------------
\* The inductive invariant of the parallel kernels: that of the call in progress.
InvKernel ==
    \/ caso.kernel = "join" /\ InvJoin
    \/ caso.kernel = "fuzzy" /\ InvFuzzy
    \/ caso.kernel = "spaziale" /\ InvSpaziale
    \/ caso.kernel = "vicini" /\ InvVicini
    \/ caso.kernel = "dbscan"

LEMMA NomiDeiKernel ==
    /\ \A c \in CasiJoin : c.kernel = "join"
    /\ \A c \in CasiFuzzy : c.kernel = "fuzzy"
    /\ \A c \in CasiSpaziali : c.kernel = "spaziale"
    /\ \A c \in CasiVicini : c.kernel = "vicini"
    /\ \A c \in CasiDbscan : c.kernel = "dbscan"
BY CasiAssunti

LEMMA InitKernel_Inv == InitKernel => InvKernel
<1> SUFFICES ASSUME InitKernel PROVE InvKernel
  OBVIOUS
<1>1. ASSUME NEW c \in CasiJoin, Join!InitJoin(c) PROVE InvKernel
  BY <1>1, NomiDeiKernel, InitJoin_Inv DEF InvKernel, InvJoin
<1>2. ASSUME NEW c \in CasiFuzzy, Fuzzy!InitFuzzy(c) PROVE InvKernel
  BY <1>2, NomiDeiKernel, InitFuzzy_Inv DEF InvKernel, Fuzzy!InitFuzzy
<1>3. ASSUME NEW c \in CasiSpaziali, Spaz!InitSpaziale(c) PROVE InvKernel
  BY <1>3, NomiDeiKernel, InitSpaziale_Inv DEF InvKernel, Spaz!InitSpaziale
<1>4. ASSUME NEW c \in CasiVicini, Vic!InitVicini(c) PROVE InvKernel
  BY <1>4, NomiDeiKernel, InitVicini_Inv DEF InvKernel, Vic!InitVicini
<1>5. ASSUME NEW c \in CasiDbscan, Dbs!InitDbscan(c) PROVE InvKernel
  BY <1>5, NomiDeiKernel DEF InvKernel, Dbs!InitDbscan
<1> QED
  BY <1>1, <1>2, <1>3, <1>4, <1>5 DEF InitKernel

LEMMA NextKernel_Inv == InvKernel /\ [NextKernel]_varsKernel => InvKernel'
<1> SUFFICES ASSUME InvKernel, [NextKernel]_varsKernel PROVE InvKernel'
  OBVIOUS
<1>1. CASE UNCHANGED varsKernel
  <2>1. UNCHANGED <<caso, lavori, condiviso>>
    BY <1>1 DEF varsKernel
  <2>2. Fuzzy!RigheContate' = Fuzzy!RigheContate
    BY <2>1 DEF Fuzzy!RigheContate
  <2>3. Spaz!CoppieTenute' = Spaz!CoppieTenute /\ Spaz!Tetto(caso)' = Spaz!Tetto(caso)
    BY <2>1 DEF Spaz!CoppieTenute, Spaz!Tenute, Spaz!Tetto, Spaz!tetto, Spaz!risultati_massimi,
                Spaz!byte_per_risultato, Spaz!SaturaByte
  <2>4. Vic!ViciniTenuti' = Vic!ViciniTenuti /\ Vic!Tetto(caso)' = Vic!Tetto(caso)
    BY <2>1 DEF Vic!ViciniTenuti, Vic!Tenuti, Vic!Tetto, Vic!tetto, Vic!risultati_massimi,
                Vic!byte_per_risultato, Vic!SaturaByte
  <2>5. InvJoin => InvJoin'
    BY <2>1 DEF InvJoin
  <2>6. InvFuzzy => InvFuzzy'
    BY <2>1, <2>2 DEF InvFuzzy
  <2>7. InvSpaziale => InvSpaziale'
    BY <2>1, <2>3 DEF InvSpaziale
  <2>8. InvVicini => InvVicini'
    BY <2>1, <2>4 DEF InvVicini
  <2> QED
    BY <2>1, <2>5, <2>6, <2>7, <2>8 DEF InvKernel
<1>2. CASE caso.kernel = "join" /\ Join!NextJoin
  <2>1. InvJoin'
    BY <1>2, PassoJoin DEF InvKernel
  <2> QED
    BY <2>1, NomiDeiKernel DEF InvKernel, InvJoin
<1>3. CASE caso.kernel = "fuzzy" /\ Fuzzy!NextFuzzy
  <2>1. InvFuzzy'
    BY <1>3, PassoFuzzy DEF InvKernel
  <2> QED
    BY <2>1, NomiDeiKernel DEF InvKernel, InvFuzzy
<1>4. CASE caso.kernel = "spaziale" /\ Spaz!NextSpaziale
  <2>1. InvSpaziale'
    BY <1>4, PassoSpaziale DEF InvKernel
  <2> QED
    BY <2>1, NomiDeiKernel DEF InvKernel, InvSpaziale
<1>5. CASE caso.kernel = "vicini" /\ Vic!NextVicini
  <2>1. InvVicini'
    BY <1>5, PassoVicini DEF InvKernel
  <2> QED
    BY <2>1, NomiDeiKernel DEF InvKernel, InvVicini
<1>6. CASE caso.kernel = "dbscan" /\ Dbs!NextDbscan
  <2>1. caso' = caso
    BY <1>6 DEF Dbs!NextDbscan, Dbs!Prepara, Dbs!Visita, Dbs!Espande, Dbs!Riporta
  <2> QED
    BY <1>6, <2>1 DEF InvKernel
<1> QED
  BY <1>1, <1>2, <1>3, <1>4, <1>5, <1>6 DEF NextKernel

\* At no moment do the tasks of a parallel kernel hold more than the limit of the
\* call, or more bytes than its memory margin, whatever the chunks, the limits and
\* the interleaving of the threads.
THEOREM TenutoSempre == SpecKernel => []TenutoEntroIlLimite
<1>1. InvKernel => TenutoEntroIlLimite
  <2> SUFFICES ASSUME InvKernel PROVE TenutoEntroIlLimite
    OBVIOUS
  <2>1. CASE caso.kernel = "join" /\ InvJoin
    BY <2>1, JoinTiene DEF TenutoEntroIlLimite
  <2>2. CASE caso.kernel = "fuzzy" /\ InvFuzzy
    BY <2>2 DEF TenutoEntroIlLimite, InvFuzzy
  <2>3. CASE caso.kernel = "spaziale" /\ InvSpaziale
    BY <2>3, SpazialeTiene DEF TenutoEntroIlLimite
  <2>4. CASE caso.kernel = "vicini" /\ InvVicini
    BY <2>4, ViciniTiene DEF TenutoEntroIlLimite
  <2>5. CASE caso.kernel = "dbscan"
    BY <2>5 DEF TenutoEntroIlLimite
  <2> QED
    BY <2>1, <2>2, <2>3, <2>4, <2>5 DEF InvKernel
<1> QED
  BY <1>1, InitKernel_Inv, NextKernel_Inv, PTL DEF SpecKernel

-----------------------------------------------------------------------------
(* Sequences laid end to end *)

\* f gives the first i sequences of s, one after the other.
Unite(s, f, n) == f = [i \in 1 .. n |-> IF i = 1 THEN s[i] ELSE f[i - 1] \o s[i]]
Tratto(s) == CHOOSE f : Unite(s, f, Len(s))

\* How many elements come before those of each sequence of s.
Inizi(s) == [k \in 0 .. Len(s) |-> IF k = 0 THEN 0 ELSE Len(Tratto(s)[k])]

LEMMA UniteEsiste ==
    ASSUME NEW s, NEW N \in Nat
    PROVE  \E f : Unite(s, f, N)
<1> DEFINE T == {n \in Nat : ~ \E f : Unite(s, f, n)}
<1> SUFFICES ASSUME T # {} PROVE FALSE
  OBVIOUS
<1>1. PICK m \in T : \A n \in T : m <= n
  <2> HIDE DEF T
  <2>1. T \subseteq Nat
    BY DEF T
  <2> QED
    BY <2>1, MinimoDi
<1>2. CASE m = 0
  <2> DEFINE g == [i \in 1 .. 0 |-> s[i]]
  <2>1. g = [i \in 1 .. 0 |-> IF i = 1 THEN s[i] ELSE g[i - 1] \o s[i]]
    OBVIOUS
  <2>2. Unite(s, g, 0)
    BY <2>1 DEF Unite
  <2> QED
    BY <1>2, <2>2
<1>3. CASE m # 0
  <2>1. m \in Nat /\ m - 1 \in Nat /\ ~ (m <= m - 1)
    BY <1>3
  <2>2. PICK h : Unite(s, h, m - 1)
    BY <1>1, <2>1
  <2> DEFINE g == [i \in 1 .. m |-> IF i = 1 THEN s[i] ELSE IF i = m THEN h[m - 1] \o s[m] ELSE h[i]]
  <2>3. ASSUME NEW i \in 1 .. m
        PROVE  g[i] = IF i = 1 THEN s[i] ELSE g[i - 1] \o s[i]
    <3>1. CASE i = 1
      BY <3>1
    <3>2. CASE i # 1
      <4>1. i - 1 \in 1 .. (m - 1) /\ i - 1 # m /\ i - 1 \in 1 .. m
        BY <2>1, <3>2
      <4>2. h[i - 1] = IF i - 1 = 1 THEN s[i - 1] ELSE h[(i - 1) - 1] \o s[i - 1]
        BY <2>2, <4>1 DEF Unite
      <4>3. g[i - 1] = h[i - 1]
        <5>1. CASE i - 1 = 1
          BY <4>1, <4>2, <5>1
        <5>2. CASE i - 1 # 1
          BY <4>1, <5>2
        <5> QED
          BY <5>1, <5>2
      <4>4. CASE i = m
        BY <3>2, <4>3, <4>4
      <4>5. CASE i # m
        <5>1. i \in 1 .. (m - 1) /\ g[i] = h[i]
          BY <3>2, <4>5, <2>1
        <5>2. h[i] = h[i - 1] \o s[i]
          BY <2>2, <3>2, <5>1 DEF Unite
        <5> QED
          BY <3>2, <4>3, <5>1, <5>2
      <4> QED
        BY <4>4, <4>5
    <3> QED
      BY <3>1, <3>2
  <2>4. Unite(s, g, m)
    <3>1. g = [i \in 1 .. m |-> g[i]]
      OBVIOUS
    <3> HIDE DEF g
    <3>2. g = [i \in 1 .. m |-> IF i = 1 THEN s[i] ELSE g[i - 1] \o s[i]]
      BY <2>3, <3>1
    <3> QED
      BY <3>2 DEF Unite
  <2> QED
    BY <2>4
<1> QED
  BY <1>2, <1>3

\* The places of the elements when sequences are laid end to end.
Distese(s, n, L, t) ==
    /\ L \in [0 .. n -> Nat] /\ L[0] = 0
    /\ \A k \in 1 .. n : L[k] = L[k - 1] + Len(s[k])
    /\ Len(t) = L[n]
    /\ \A k \in 1 .. n, j \in Nat : 1 <= j /\ j <= Len(s[k]) => t[L[k - 1] + j] = s[k][j]

LEMMA Concatenate ==
    ASSUME NEW V, NEW a \in Seq(V), NEW b \in Seq(V)
    PROVE  /\ a \o b \in Seq(V) /\ Len(a \o b) = Len(a) + Len(b)
           /\ Len(a) \in Nat /\ Len(b) \in Nat
           /\ \A j \in Nat : 1 <= j /\ j <= Len(a) => (a \o b)[j] = a[j]
           /\ \A j \in Nat : 1 <= j /\ j <= Len(b) => (a \o b)[Len(a) + j] = b[j]
<1>1. a \o b \in Seq(V) /\ Len(a) \in Nat /\ Len(b) \in Nat
  BY ConcatProperties, LenProperties
<1>2. Len(a \o b) = Len(a) + Len(b)
  BY ConcatProperties
<1>3. \A i \in 1 .. Len(a) + Len(b) :
          (a \o b)[i] = IF i <= Len(a) THEN a[i] ELSE b[i - Len(a)]
  BY ConcatProperties
<1>4. ASSUME NEW j \in Nat, 1 <= j, j <= Len(a) PROVE (a \o b)[j] = a[j]
  BY <1>1, <1>3, <1>4
<1>5. ASSUME NEW j \in Nat, 1 <= j, j <= Len(b) PROVE (a \o b)[Len(a) + j] = b[j]
  <2>1. /\ Len(a) + j \in 1 .. Len(a) + Len(b) /\ ~ (Len(a) + j <= Len(a))
        /\ (Len(a) + j) - Len(a) = j
    BY <1>1, <1>5
  <2> QED
    BY <1>3, <2>1
<1> QED
  BY <1>1, <1>2, <1>4, <1>5

\* FlattenSeq is what lays them.
LEMMA FlattenDistese ==
    ASSUME NEW V, NEW n \in Nat, NEW s \in [1 .. n -> Seq(V)]
    PROVE  /\ FlattenSeq(s) \in Seq(V)
           /\ Distese(s, n, Inizi(s), FlattenSeq(s))
<1> DEFINE f == Tratto(s)
           L == Inizi(s)
<1>1. Len(s) = n /\ DOMAIN s = 1 .. n /\ s = [k \in 1 .. n |-> s[k]]
  BY FilaDi
<1>2. Unite(s, f, n)
  BY <1>1, UniteEsiste DEF Tratto
<1>3. L = [k \in 0 .. n |-> IF k = 0 THEN 0 ELSE Len(f[k])]
  BY <1>1 DEF Inizi
<1>4. n # 0 => FlattenSeq(s) = f[n]
  BY <1>1 DEF FlattenSeq, Tratto, Unite
<1> HIDE DEF f, L
<1>5. f = [i \in 1 .. n |-> IF i = 1 THEN s[i] ELSE f[i - 1] \o s[i]]
  BY <1>2 DEF Unite
<1> DEFINE Bene(m) ==
      /\ f[m] \in Seq(V)
      /\ L[m] = L[m - 1] + Len(s[m])
      /\ \A k \in 1 .. m, j \in Nat : 1 <= j /\ j <= Len(s[k]) => f[m][L[k - 1] + j] = s[k][j]
<1>6. \A k \in 1 .. n : s[k] \in Seq(V) /\ Len(s[k]) \in Nat
  BY LenProperties
<1>7. L[0] = 0 /\ \A k \in 1 .. n : L[k] = Len(f[k])
  BY <1>3
<1>8. ASSUME NEW m \in 1 .. n, m # 1 => f[m - 1] \in Seq(V),
             \A k \in 1 .. (m - 1) : L[k - 1] \in Nat /\ L[k] = L[k - 1] + Len(s[k]),
             \A k \in 1 .. (m - 1), j \in Nat :
                 1 <= j /\ j <= Len(s[k]) => L[k - 1] + j <= L[m - 1] /\ f[m - 1][L[k - 1] + j] = s[k][j]
      PROVE  Bene(m)
  <2>1. CASE m = 1
    <3>1. f[1] = s[1] /\ L[1] = Len(s[1]) /\ L[1 - 1] = 0 /\ Len(s[1]) \in Nat
      BY <1>5, <1>6, <1>7, <2>1
    <3>2. ASSUME NEW k \in 1 .. m, NEW j \in Nat, 1 <= j, j <= Len(s[k])
          PROVE  f[m][L[k - 1] + j] = s[k][j]
      BY <3>1, <3>2, <2>1
    <3> QED
      BY <1>6, <2>1, <3>1, <3>2
  <2>2. CASE m # 1
    <3>1. m - 1 \in 1 .. n /\ f[m] = f[m - 1] \o s[m] /\ f[m - 1] \in Seq(V) /\ s[m] \in Seq(V)
      <4>1. f[m] = f[m - 1] \o s[m]
        BY <1>5, <2>2
      <4>2. f[m - 1] \in Seq(V)
        BY <1>8, <2>2
      <4>3. m - 1 \in 1 .. n
        BY <2>2
      <4> QED
        BY <1>6, <4>1, <4>2, <4>3
    <3>2. /\ f[m] \in Seq(V) /\ Len(f[m]) = Len(f[m - 1]) + Len(s[m])
          /\ Len(f[m - 1]) \in Nat /\ Len(s[m]) \in Nat
          /\ \A j \in Nat : 1 <= j /\ j <= Len(f[m - 1]) => f[m][j] = f[m - 1][j]
          /\ \A j \in Nat : 1 <= j /\ j <= Len(s[m]) => f[m][Len(f[m - 1]) + j] = s[m][j]
      <4> DEFINE a == f[m - 1]
                 b == s[m]
                 c == f[m]
      <4>1. a \in Seq(V)
        BY <3>1
      <4>2. b \in Seq(V)
        BY <3>1
      <4>3. c = a \o b
        BY <3>1
      <4> HIDE DEF a, b, c
      <4>4. c \in Seq(V) /\ Len(c) = Len(a) + Len(b) /\ Len(a) \in Nat /\ Len(b) \in Nat
        BY <4>1, <4>2, <4>3, Concatenate
      <4>5. \A j \in Nat : 1 <= j /\ j <= Len(a) => c[j] = a[j]
        BY <4>1, <4>2, <4>3, Concatenate
      <4>6. \A j \in Nat : 1 <= j /\ j <= Len(b) => c[Len(a) + j] = b[j]
        BY <4>1, <4>2, <4>3, Concatenate
      <4> QED
        BY <4>4, <4>5, <4>6 DEF a, b, c
    <3>3. L[m - 1] = Len(f[m - 1]) /\ L[m] = Len(f[m])
      BY <1>7, <3>1
    <3>4. ASSUME NEW k \in 1 .. m, NEW j \in Nat, 1 <= j, j <= Len(s[k])
          PROVE  f[m][L[k - 1] + j] = s[k][j]
      <4>1. CASE k = m
        BY <3>2, <3>3, <3>4, <4>1
      <4>2. CASE k # m
        <5>1. k \in 1 .. (m - 1)
          BY <4>2
        <5>2. L[k - 1] + j \in Nat /\ 1 <= L[k - 1] + j /\ L[k - 1] + j <= L[m - 1]
          BY <1>8, <3>4, <5>1
        <5>3. f[m - 1][L[k - 1] + j] = s[k][j]
          BY <1>8, <3>4, <5>1
        <5> QED
          BY <3>2, <3>3, <5>2, <5>3
      <4> QED
        BY <4>1, <4>2
    <3> QED
      BY <3>2, <3>3, <3>4
  <2> QED
    BY <2>1, <2>2
<1>9. \A m \in 1 .. n : Bene(m) /\ \A k \in 1 .. m : L[k] <= L[m]
  <2> DEFINE Tutto(m) == Bene(m) /\ \A k \in 1 .. m : L[k] <= L[m]
             X == {m \in 1 .. n : ~ Tutto(m)}
  <2> HIDE DEF Tutto
  <2>1. SUFFICES ASSUME X # {} PROVE FALSE
    BY DEF Tutto
  <2>2. PICK m \in X : \A x \in X : m <= x
    <3> HIDE DEF X
    <3>1. X \subseteq Nat
      BY DEF X
    <3> QED
      BY <2>1, <3>1, MinimoDi
  <2>3. m \in 1 .. n /\ \A k \in 1 .. (m - 1) : k \in 1 .. n /\ Tutto(k)
    BY <2>2
  <2>4. \A k \in 1 .. (m - 1) : f[k] \in Seq(V) /\ L[k] \in Nat /\ L[k] = L[k - 1] + Len(s[k])
    <3>1. ASSUME NEW k \in 1 .. (m - 1) PROVE f[k] \in Seq(V) /\ L[k] \in Nat /\ L[k] = L[k - 1] + Len(s[k])
      <4>1. k \in 1 .. n /\ Bene(k)
        BY <2>3 DEF Tutto
      <4>2. Len(f[k]) \in Nat
        BY <4>1, LenProperties
      <4> QED
        BY <1>7, <4>1, <4>2
    <3> QED
      BY <3>1
  <2>5. \A k \in 0 .. (m - 1) : L[k] \in Nat
    BY <1>7, <2>4, <2>3
  <2>6. m # 1 => f[m - 1] \in Seq(V)
    BY <2>3, <2>4
  <2>7. ASSUME NEW k \in 1 .. (m - 1), NEW j \in Nat, 1 <= j, j <= Len(s[k])
        PROVE  L[k - 1] + j <= L[m - 1] /\ f[m - 1][L[k - 1] + j] = s[k][j]
    <3>1. m - 1 \in 1 .. (m - 1) /\ k - 1 \in 0 .. (m - 1)
      BY <2>3
    <3>2. Tutto(m - 1)
      BY <2>3, <3>1
    <3>3. L[k] <= L[m - 1] /\ f[m - 1][L[k - 1] + j] = s[k][j]
      BY <3>2, <2>7 DEF Tutto
    <3>4. L[k] = L[k - 1] + Len(s[k]) /\ L[k - 1] \in Nat /\ Len(s[k]) \in Nat /\ L[m - 1] \in Nat
      BY <1>6, <2>3, <2>4, <2>5, <3>1
    <3> QED
      BY <2>7, <3>3, <3>4
  <2>8. \A k \in 1 .. (m - 1) : L[k - 1] \in Nat /\ L[k] = L[k - 1] + Len(s[k])
    BY <2>3, <2>4, <2>5
  <2>9. Bene(m)
    BY <1>8, <2>3, <2>6, <2>7, <2>8
  <2>10. ASSUME NEW k \in 1 .. m PROVE L[k] <= L[m]
    <3>1. L[m] = L[m - 1] + Len(s[m]) /\ Len(s[m]) \in Nat /\ L[m - 1] \in Nat
      BY <1>6, <2>3, <2>5, <2>9
    <3>2. CASE k = m
      BY <3>1, <3>2
    <3>3. CASE k # m
      <4>1. k \in 1 .. (m - 1) /\ m - 1 \in 1 .. (m - 1)
        BY <2>3, <3>3
      <4>2. L[k] <= L[m - 1] /\ L[k] \in Nat
        BY <2>3, <2>5, <4>1 DEF Tutto
      <4> QED
        BY <3>1, <4>2
    <3> QED
      BY <3>2, <3>3
  <2> QED
    BY <2>2, <2>9, <2>10 DEF Tutto
<1>10. \A k \in 1 .. n : f[k] \in Seq(V) /\ L[k] \in Nat /\ L[k] = L[k - 1] + Len(s[k])
  <2>1. ASSUME NEW k \in 1 .. n PROVE f[k] \in Seq(V) /\ L[k] \in Nat /\ L[k] = L[k - 1] + Len(s[k])
    <3>1. Bene(k)
      BY <1>9
    <3>2. Len(f[k]) \in Nat
      BY <3>1, LenProperties
    <3> QED
      BY <1>7, <3>1, <3>2
  <2> QED
    BY <2>1
<1>11. L \in [0 .. n -> Nat]
  BY <1>3, <1>7, <1>10
<1>12. CASE n = 0
  <2>1. s = <<>> /\ FlattenSeq(s) = s
    <3>1. s \in Seq(Seq(V))
      BY <1>1, <1>12, IsASeq
    <3>2. s = <<>>
      BY <1>1, <1>12, <3>1, EmptySeq
    <3> QED
      BY <1>1, <1>12, <3>2 DEF FlattenSeq
  <2>2. FlattenSeq(s) \in Seq(V) /\ Len(FlattenSeq(s)) = 0
    <3>1. <<>> \in Seq(V) /\ Len(<<>>) = 0
      OBVIOUS
    <3> HIDE DEF L
    <3> QED
      BY <2>1, <3>1
  <2> QED
    BY <1>7, <1>11, <1>12, <2>2 DEF Distese, L
<1>13. CASE n # 0
  <2>1. n \in 1 .. n
    BY <1>13
  <2>2. Bene(n)
    BY <1>9, <2>1
  <2>3. FlattenSeq(s) \in Seq(V) /\ Len(FlattenSeq(s)) = L[n]
    BY <1>4, <1>7, <1>13, <2>1, <2>2
  <2>4. \A k \in 1 .. n, j \in Nat : 1 <= j /\ j <= Len(s[k]) => FlattenSeq(s)[L[k - 1] + j] = s[k][j]
    BY <1>4, <1>13, <2>2
  <2> HIDE DEF Bene
  <2> QED
    BY <1>7, <1>10, <1>11, <2>3, <2>4 DEF Distese, L
<1> QED
  BY <1>12, <1>13

LEMMA IniziCrescenti ==
    ASSUME NEW n \in Nat, NEW L \in [0 .. n -> Nat], \A k \in 1 .. n : L[k - 1] <= L[k],
           NEW i \in 0 .. n, NEW j \in 0 .. n, i <= j
    PROVE  L[i] <= L[j]
<1> DEFINE X == {m \in i .. n : ~ (L[i] <= L[m])}
<1>0. j \in i .. n
  OBVIOUS
<1>1. SUFFICES ASSUME X # {} PROVE FALSE
  BY <1>0
<1>2. PICK m \in X : \A x \in X : m <= x
  <2> HIDE DEF X
  <2>1. X \subseteq Nat
    BY DEF X
  <2> QED
    BY <1>1, <2>1, MinimoDi
<1>3. m \in Nat /\ i < m /\ m <= n
  BY <1>2
<1>4. m - 1 \in i .. n /\ m - 1 \notin X
  BY <1>2, <1>3
<1>5. L[i] <= L[m - 1] /\ L[m - 1] <= L[m]
  BY <1>3, <1>4
<1>6. L[i] \in Nat /\ L[m - 1] \in Nat /\ L[m] \in Nat
  BY <1>3, <1>4
<1> QED
  BY <1>2, <1>5, <1>6

\* Every place is of one of the sequences.
LEMMA TrattoDi ==
    ASSUME NEW n \in Nat, NEW L \in [0 .. n -> Nat], L[0] = 0, NEW p \in Nat, 1 <= p, p <= L[n]
    PROVE  \E k \in 1 .. n : L[k - 1] < p /\ p <= L[k]
<1> DEFINE X == {m \in 0 .. n : p <= L[m]}
<1>1. n \in X
  <2>1. n \in 0 .. n
    OBVIOUS
  <2> QED
    BY <2>1
<1>2. PICK m \in X : \A x \in X : m <= x
  <2> HIDE DEF X
  <2>1. X \subseteq Nat
    BY DEF X
  <2> QED
    BY <1>1, <2>1, MinimoDi
<1>3. m \in 1 .. n /\ m - 1 \in 0 .. n /\ m - 1 \notin X
  BY <1>2
<1>4. L[m - 1] \in Nat /\ L[m - 1] < p
  BY <1>3
<1> QED
  BY <1>2, <1>3, <1>4

\* There is one way to lay them.
LEMMA DisteseUniche ==
    ASSUME NEW V, NEW n \in Nat, NEW s \in [1 .. n -> Seq(V)], NEW L,
           NEW t \in Seq(V), Distese(s, n, L, t), NEW W, NEW u \in Seq(W), Distese(s, n, L, u)
    PROVE  u = t
<1>1. L \in [0 .. n -> Nat] /\ L[0] = 0 /\ n \in 0 .. n
  BY DEF Distese
<1>2. ASSUME NEW p \in 1 .. L[n] PROVE u[p] = t[p]
  <2>1. p \in Nat /\ 1 <= p /\ p <= L[n]
    BY <1>1
  <2>2. PICK k \in 1 .. n : L[k - 1] < p /\ p <= L[k]
    BY <1>1, <2>1, TrattoDi
  <2>3. L[k] = L[k - 1] + Len(s[k]) /\ L[k - 1] \in Nat /\ Len(s[k]) \in Nat
    BY <1>1, LenProperties DEF Distese
  <2> DEFINE j == p - L[k - 1]
  <2>4. j \in Nat /\ 1 <= j /\ j <= Len(s[k]) /\ p = L[k - 1] + j
    BY <2>1, <2>2, <2>3
  <2> HIDE DEF j
  <2>5. u[L[k - 1] + j] = s[k][j]
    BY <2>4 DEF Distese
  <2>6. t[L[k - 1] + j] = s[k][j]
    BY <2>4 DEF Distese
  <2> QED
    BY <2>4, <2>5, <2>6
<1>3. Len(t) = L[n] /\ Len(u) = L[n]
  BY DEF Distese
<1> QED
  BY <1>2, <1>3, SeqEqual

-----------------------------------------------------------------------------
(* Chunks of rows *)

\* The k-th of the chunks of d rows that n rows are divided into.
DaRiga(d, k) == (k - 1) * d + 1
ARiga(n, d, k) == IF k * d < n THEN k * d ELSE n
QuantiChunk(n, d) == (n + d - 1) \div d

\* The chunks are not empty, cover the rows and follow one another.
LEMMA ChunkInFila ==
    ASSUME NEW n \in Nat, NEW d \in Nat \ {0}
    PROVE  LET m == QuantiChunk(n, d)
           IN  /\ m \in Nat
               /\ m = 0 <=> n = 0
               /\ \A k \in 1 .. m : /\ DaRiga(d, k) \in Nat /\ ARiga(n, d, k) \in Nat
                                    /\ 1 <= DaRiga(d, k) /\ DaRiga(d, k) <= ARiga(n, d, k)
                                    /\ ARiga(n, d, k) <= n
               /\ DaRiga(d, 1) = 1
               /\ m # 0 => ARiga(n, d, m) = n
               /\ \A k \in 1 .. m : k # 1 => k - 1 \in 1 .. m /\ DaRiga(d, k) = ARiga(n, d, k - 1) + 1
<1> DEFINE m == QuantiChunk(n, d)
<1>1. n + d - 1 \in Nat
  OBVIOUS
<1>2. m \in Nat /\ m * d <= n + d - 1 /\ n + d - 1 < m * d + d
  <2> DEFINE x == n + d - 1
  <2>1. x \in Nat
    BY <1>1
  <2> HIDE DEF x
  <2>2. x \div d \in Nat /\ (x \div d) * d <= x /\ x < (x \div d) * d + d
    BY <2>1, Divisione
  <2> QED
    BY <2>2 DEF x, QuantiChunk
<1> HIDE DEF m
<1>3. n <= m * d /\ m * d < n + d /\ m * d \in Nat
  <2>1. m * d \in Nat
    BY <1>2
  <2> QED
    BY <1>2, <2>1
<1>4. m = 0 <=> n = 0
  <2>1. CASE m = 0
    BY <1>3, <2>1
  <2>2. CASE m # 0
    <3>1. 1 * d <= m * d
      BY <1>2, <2>2, ProdottoMonotono
    <3>2. d <= m * d
      BY <3>1
    <3> QED
      BY <1>3, <2>2, <3>2
  <2> QED
    BY <2>1, <2>2
<1>5. ASSUME NEW k \in 1 .. m
      PROVE  /\ k \in Nat /\ k - 1 \in Nat /\ (k - 1) * d \in Nat /\ k * d \in Nat
             /\ k * d = (k - 1) * d + d
             /\ (k - 1) * d + 1 <= n
             /\ k # m => k * d < n
  <2>1. k \in Nat /\ k - 1 \in Nat /\ k <= m
    BY <1>2
  <2>2. (k - 1) * d \in Nat /\ k * d \in Nat
    BY <2>1
  <2>3. k * d = (k - 1) * d + d
    BY <2>1
  <2>4. k * d <= m * d
    BY <1>2, <2>1, ProdottoMonotono
  <2>5. (k - 1) * d + 1 <= n
    BY <1>3, <2>2, <2>3, <2>4
  <2>6. ASSUME k # m PROVE k * d < n
    <3>1. k + 1 \in Nat /\ k + 1 <= m
      BY <1>2, <2>1, <2>6
    <3>2. (k + 1) * d <= m * d
      BY <1>2, <3>1, ProdottoMonotono
    <3>3. (k + 1) * d = k * d + d
      BY <2>1
    <3> QED
      BY <1>3, <2>2, <3>2, <3>3
  <2> QED
    BY <2>1, <2>2, <2>3, <2>5, <2>6
<1>6. ASSUME NEW k \in 1 .. m
      PROVE  /\ DaRiga(d, k) \in Nat /\ ARiga(n, d, k) \in Nat
             /\ 1 <= DaRiga(d, k) /\ DaRiga(d, k) <= ARiga(n, d, k)
             /\ ARiga(n, d, k) <= n
  BY <1>5 DEF DaRiga, ARiga
<1>7. DaRiga(d, 1) = 1
  BY DEF DaRiga
<1>8. m # 0 => ARiga(n, d, m) = n
  BY <1>3 DEF ARiga
<1>9. ASSUME NEW k \in 1 .. m, k # 1
      PROVE  k - 1 \in 1 .. m /\ DaRiga(d, k) = ARiga(n, d, k - 1) + 1
  <2>1. k - 1 \in 1 .. m /\ k - 1 # m
    BY <1>2, <1>9
  <2>2. (k - 1) * d < n
    BY <1>5, <2>1
  <2> QED
    BY <2>1, <2>2 DEF DaRiga, ARiga
<1> QED
  BY <1>2, <1>4, <1>6, <1>7, <1>8, <1>9 DEF m

\* Chunks further on begin after.
LEMMA ChunkDisgiunti ==
    ASSUME NEW n \in Nat, NEW d \in Nat \ {0},
           NEW k \in 1 .. QuantiChunk(n, d), NEW h \in 1 .. QuantiChunk(n, d), k < h
    PROVE  ARiga(n, d, k) <= DaRiga(d, h) - 1
<1>1. QuantiChunk(n, d) \in Nat
  BY ChunkInFila
<1>2. k \in Nat /\ h - 1 \in Nat /\ k <= h - 1
  BY <1>1
<1>3. k * d <= (h - 1) * d /\ k * d \in Nat /\ (h - 1) * d \in Nat
  BY <1>2, ProdottoMonotono
<1> QED
  BY <1>3 DEF ARiga, DaRiga

-----------------------------------------------------------------------------
(* Places taken by several tasks *)

\* Of the places lo[k] + 1 .. hi[k] that each task k has.
Presi(D, lo, hi) == UNION {(lo[k] + 1) .. hi[k] : k \in D}

LEMMA PresiDopo ==
    ASSUME NEW D, NEW lo \in [D -> Int], NEW hi \in [D -> Int], NEW dopo \in [D -> Int], NEW i \in D,
           lo[i] <= hi[i], hi[i] <= dopo[i],
           \A k \in D \ {i} : dopo[k] = hi[k] /\ (hi[k] <= lo[i] \/ dopo[i] <= lo[k]),
           IsFiniteSet(Presi(D, lo, hi))
    PROVE  /\ IsFiniteSet(Presi(D, lo, dopo))
           /\ Cardinality(Presi(D, lo, hi)) \in Nat
           /\ Cardinality(Presi(D, lo, dopo)) = Cardinality(Presi(D, lo, hi)) + (dopo[i] - hi[i])
<1> DEFINE A == Presi(D, lo, hi)
           B == (hi[i] + 1) .. dopo[i]
<1>1. Presi(D, lo, dopo) = A \cup B
  <2>1. ASSUME NEW x \in Presi(D, lo, dopo) PROVE x \in A \cup B
    <3>1. PICK k \in D : x \in (lo[k] + 1) .. dopo[k]
      BY DEF Presi
    <3>2. CASE k = i
      <4>1. x \in (lo[i] + 1) .. hi[i] \/ x \in B
        BY <3>1, <3>2
      <4> QED
        BY <4>1 DEF Presi
    <3>3. CASE k # i
      <4>1. x \in (lo[k] + 1) .. hi[k]
        BY <3>1, <3>3
      <4> QED
        BY <4>1 DEF Presi
    <3> QED
      BY <3>2, <3>3
  <2>2. ASSUME NEW x \in A PROVE x \in Presi(D, lo, dopo)
    <3>1. PICK k \in D : x \in (lo[k] + 1) .. hi[k]
      BY DEF Presi
    <3>2. hi[k] <= dopo[k]
      <4>1. k = i \/ dopo[k] = hi[k]
        OBVIOUS
      <4> QED
        BY <4>1
    <3>3. x \in (lo[k] + 1) .. dopo[k]
      BY <3>1, <3>2
    <3> QED
      BY <3>3 DEF Presi
  <2>3. ASSUME NEW x \in B PROVE x \in Presi(D, lo, dopo)
    <3>1. x \in (lo[i] + 1) .. dopo[i]
      OBVIOUS
    <3> QED
      BY <3>1 DEF Presi
  <2> HIDE DEF A, B
  <2> QED
    BY <2>1, <2>2, <2>3
<1>2. A \cap B = {}
  <2>1. ASSUME NEW x \in A, x \in B PROVE FALSE
    <3>1. PICK k \in D : x \in (lo[k] + 1) .. hi[k]
      BY DEF Presi
    <3>2. k # i
      BY <2>1, <3>1
    <3>3. hi[k] <= lo[i] \/ dopo[i] <= lo[k]
      BY <3>2
    <3> QED
      BY <2>1, <3>1, <3>3
  <2> HIDE DEF A, B
  <2> QED
    BY <2>1
<1>3. IsFiniteSet(B) /\ Cardinality(B) = dopo[i] - hi[i]
  <2>1. hi[i] + 1 \in Int /\ dopo[i] \in Int
    OBVIOUS
  <2>2. IsFiniteSet(B) /\ Cardinality(B) = IF hi[i] + 1 > dopo[i] THEN 0 ELSE dopo[i] - (hi[i] + 1) + 1
    BY <2>1, FS_Interval
  <2> HIDE DEF B
  <2> QED
    BY <2>1, <2>2
<1> HIDE DEF A, B
<1>4. IsFiniteSet(A) /\ Cardinality(A) \in Nat /\ Cardinality(B) \in Nat
  BY <1>3, FS_CardinalityType DEF A
<1>5. IsFiniteSet(A \cup B) /\ Cardinality(A \cup B) = Cardinality(A) + Cardinality(B) - Cardinality({})
  BY <1>2, <1>3, <1>4, FS_Union
<1>6. Cardinality({}) = 0
  BY FS_EmptySet
<1>7. Cardinality(A \cup B) = Cardinality(A) + Cardinality(B)
  BY <1>4, <1>5, <1>6
<1> QED
  BY <1>1, <1>3, <1>4, <1>5, <1>7 DEF A

-----------------------------------------------------------------------------
(* The fuzzy join gives what one thread gives *)

\* The rows of the output, by left row and all of them, and where those of a left
\* row begin.
PerRiga(c) == [i \in DOMAIN c.sinistra |-> Fuzzy!Prodotte(c, i)]
Tutte(c) == FlattenSeq(PerRiga(c))
Prima(c, i) == Inizi(PerRiga(c))[i]
DaDi(c, k) == DaRiga(c.chunk, k)
ADi(c, k) == ARiga(Len(c.sinistra), c.chunk, k)

LEMMA FuzzyDistesa ==
    ASSUME NEW c \in CasiFuzzy
    PROVE  LET n == Len(c.sinistra)
           IN  /\ n \in Nat /\ DOMAIN c.sinistra = 1 .. n
               /\ \E V : PerRiga(c) \in [1 .. n -> Seq(V)] /\ Tutte(c) \in Seq(V)
               /\ Distese(PerRiga(c), n, Inizi(PerRiga(c)), Tutte(c))
<1> DEFINE n == Len(c.sinistra)
           V == UNION {{Fuzzy!Prodotte(c, i)[k] : k \in DOMAIN Fuzzy!Prodotte(c, i)} : i \in 1 .. n}
           s == PerRiga(c)
<1>1. c.sinistra \in Seq(Chiavi)
  BY CasiAssunti
<1>2. n \in Nat /\ DOMAIN c.sinistra = 1 .. n
  BY <1>1, LenProperties
<1>3. ASSUME NEW i \in 1 .. n PROVE Fuzzy!Prodotte(c, i) \in Seq(V)
  <2> DEFINE f == Fuzzy!Prodotte(c, i)
  <2>1. PICK m \in Nat : f = [k \in 1 .. m |-> f[k]]
    BY ProdotteDellaRiga
  <2>2. \A k \in 1 .. m : f[k] \in V
    <3>1. DOMAIN f = 1 .. m
      BY <2>1
    <3> QED
      BY <1>3, <3>1
  <2> HIDE DEF f, V
  <2>3. f \in [1 .. m -> V]
    BY <2>1, <2>2
  <2> QED
    BY <2>3, IsASeq DEF f
<1> HIDE DEF V
<1>4. s \in [1 .. n -> Seq(V)]
  BY <1>2, <1>3 DEF PerRiga
<1> HIDE DEF s, n
<1>5. FlattenSeq(s) \in Seq(V) /\ Distese(s, n, Inizi(s), FlattenSeq(s))
  BY <1>2, <1>4, FlattenDistese
<1> QED
  BY <1>2, <1>4, <1>5 DEF s, n, Tutte

\* Where the rows begin, as numbers.
LEMMA PrimaDelleRighe ==
    ASSUME NEW c \in CasiFuzzy
    PROVE  LET n == Len(c.sinistra)
           IN  /\ Prima(c, 0) = 0 /\ Prima(c, n) = Len(Tutte(c)) /\ Len(Tutte(c)) \in Nat
               /\ \A i \in 0 .. n : Prima(c, i) \in Nat
               /\ \A i \in 1 .. n : /\ Len(Fuzzy!Prodotte(c, i)) \in Nat
                                    /\ Prima(c, i) = Prima(c, i - 1) + Len(Fuzzy!Prodotte(c, i))
                                    /\ \A j \in Nat : 1 <= j /\ j <= Len(Fuzzy!Prodotte(c, i)) =>
                                          Tutte(c)[Prima(c, i - 1) + j] = Fuzzy!Prodotte(c, i)[j]
               /\ \A i, j \in 0 .. n : i <= j => Prima(c, i) <= Prima(c, j)
<1> DEFINE n == Len(c.sinistra)
           s == PerRiga(c)
           L == Inizi(s)
<1>1. /\ n \in Nat /\ DOMAIN c.sinistra = 1 .. n /\ Distese(s, n, L, Tutte(c))
      /\ \E V : s \in [1 .. n -> Seq(V)]
  BY FuzzyDistesa
<1>2. \A i \in 1 .. n : s[i] = Fuzzy!Prodotte(c, i)
  BY <1>1 DEF PerRiga
<1>3. \A i \in 1 .. n : Len(s[i]) \in Nat
  BY <1>1, LenProperties
<1> HIDE DEF n, s
<1>4. /\ L \in [0 .. n -> Nat] /\ L[0] = 0 /\ Len(Tutte(c)) = L[n]
      /\ \A k \in 1 .. n : L[k] = L[k - 1] + Len(s[k])
  BY <1>1 DEF Distese
<1>5. \A k \in 1 .. n, j \in Nat : 1 <= j /\ j <= Len(s[k]) => Tutte(c)[L[k - 1] + j] = s[k][j]
  BY <1>1 DEF Distese
<1>6. \A i : Prima(c, i) = L[i]
  BY DEF Prima, s
<1> HIDE DEF L
<1>7. \A k \in 1 .. n : L[k - 1] <= L[k]
  <2>1. ASSUME NEW k \in 1 .. n PROVE L[k - 1] <= L[k]
    <3>1. k - 1 \in 0 .. n
      BY <1>1
    <3>2. L[k - 1] \in Nat
      BY <1>4, <3>1
    <3> QED
      BY <1>3, <1>4, <3>2
  <2> QED
    BY <2>1
<1>8. \A i, j \in 0 .. n : i <= j => L[i] <= L[j]
  BY <1>1, <1>4, <1>7, IniziCrescenti
<1>9. 0 \in 0 .. n /\ n \in 0 .. n
  BY <1>1
<1>10. L[n] \in Nat /\ \A i \in 0 .. n : L[i] \in Nat
  BY <1>4, <1>9
<1>11. ASSUME NEW i \in 1 .. n
       PROVE  /\ Len(Fuzzy!Prodotte(c, i)) \in Nat
              /\ Prima(c, i) = Prima(c, i - 1) + Len(Fuzzy!Prodotte(c, i))
              /\ \A j \in Nat : 1 <= j /\ j <= Len(Fuzzy!Prodotte(c, i)) =>
                    Tutte(c)[Prima(c, i - 1) + j] = Fuzzy!Prodotte(c, i)[j]
  BY <1>2, <1>3, <1>4, <1>5, <1>6
<1> QED
  BY <1>4, <1>6, <1>8, <1>10, <1>11 DEF n

\* The chunks of a call.
LEMMA ChunkFuzzyInFila ==
    ASSUME NEW c \in CasiFuzzy
    PROVE  LET n == Len(c.sinistra)
               m == QuantiChunk(n, c.chunk)
           IN  /\ n \in Nat /\ c.chunk \in Nat \ {0}
               /\ DOMAIN Fuzzy!Intervalli(c) = 1 .. m
               /\ \A k \in 1 .. m : /\ Fuzzy!Intervalli(c)[k].da = DaDi(c, k)
                                    /\ Fuzzy!Intervalli(c)[k].a = ADi(c, k)
<1>1. c.sinistra \in Seq(Chiavi) /\ c.chunk \in Nat \ {0}
  BY CasiAssunti
<1>2. Len(c.sinistra) \in Nat
  BY <1>1, LenProperties
<1> DEFINE d == c.chunk
           n == Len(c.sinistra)
           m == QuantiChunk(n, d)
<1>5. Fuzzy!Intervalli(c) =
        [ k \in 1 .. m |-> [ da |-> (k - 1) * d + 1, a  |-> IF k * d < n THEN k * d ELSE n ] ]
  BY DEF Fuzzy!Intervalli, QuantiChunk
<1> HIDE DEF n, d, m
<1>6. ASSUME NEW k \in 1 .. m
      PROVE  /\ Fuzzy!Intervalli(c)[k].da = (k - 1) * d + 1
             /\ Fuzzy!Intervalli(c)[k].a = IF k * d < n THEN k * d ELSE n
  BY <1>5
<1>7. DOMAIN Fuzzy!Intervalli(c) = 1 .. m
  BY <1>5
<1> QED
  BY <1>1, <1>2, <1>6, <1>7 DEF n, d, m, DaDi, ADi, DaRiga, ARiga

\* What a chunk has is the part of the output of the rows it has done.
ChunkFedele(c, k, l) ==
    /\ DaDi(c, k) <= l.riga /\ l.riga <= ADi(c, k) + 1
    /\ Len(l.uscita) = Prima(c, l.riga - 1) - Prima(c, DaDi(c, k) - 1)
    /\ \A j \in Nat : 1 <= j /\ j <= Len(l.uscita) => l.uscita[j] = Tutte(c)[Prima(c, DaDi(c, k) - 1) + j]

\* The places of the output that were counted.
InSospeso(l) == IF l.passo = "conta" THEN l.in_corso ELSE 0
PrimaDiOgni == [k \in DOMAIN lavori |-> Prima(caso, DaDi(caso, k) - 1)]
ContateDiOgni ==
    [k \in DOMAIN lavori |-> Prima(caso, DaDi(caso, k) - 1) + Len(lavori[k].uscita) - InSospeso(lavori[k])]
PostiContati == Presi(DOMAIN lavori, PrimaDiOgni, ContateDiOgni)

\* With InvFuzzy: the chunks have parts of the output, the counter counts places of
\* it, and the flag is raised only if it has more rows than the limit.
InvScansione ==
    /\ \A k \in DOMAIN lavori :
          /\ ChunkFedele(caso, k, lavori[k])
          /\ lavori[k].passo = "fermo" => condiviso.superato
          /\ lavori[k].passo = "segnala" => Len(Tutte(caso)) > caso.max_rows
    /\ condiviso.superato => Len(Tutte(caso)) > caso.max_rows
    /\ condiviso.prodotte <= Cardinality(PostiContati)
    /\ fase \in {"blocchi", "probe", "fine"}
    /\ fase = "probe" => ~ Fuzzy!TroppoGrande(caso)
    /\ fase = "fine" => esito = Fuzzy!Scansione(caso)

\* The check of the blocks looks at the same candidates as the definition.
LEMMA BlocchiGuardati ==
    ASSUME NEW c \in CasiFuzzy
    PROVE  Fuzzy!TroppoGrande(c) <=>
             \E b \in Fuzzy!Range(Blocco) :
                Cardinality({j \in DOMAIN c.destra : c.destra[j] # Nulla /\ Blocco[c.destra[j]] = b})
                  > c.max_candidates
<1> DEFINE S(b) == {j \in DOMAIN c.destra : c.destra[j] # Nulla /\ Blocco[c.destra[j]] = b}
           D == {Blocco[v] : v \in Fuzzy!Range(c.destra) \ {Nulla}}
<1>1. c.destra \in Seq(Chiavi) /\ c.max_candidates \in Nat
  BY CasiAssunti
<1>2. Len(c.destra) \in Nat /\ DOMAIN c.destra = 1 .. Len(c.destra)
  BY <1>1, LenProperties
<1>3. IsFiniteSet(DOMAIN c.destra)
  BY <1>2, FS_Interval
<1>4. \A b : IsFiniteSet(S(b))
  BY <1>3, FS_Subset
<1>5. Fuzzy!blocks(c) = [b \in D |-> Fuzzy!Crescente(S(b))]
  BY DEF Fuzzy!blocks
<1> HIDE DEF D
<1>6. \A b \in D : Len(Fuzzy!blocks(c)[b]) = Cardinality(S(b))
  <2>1. ASSUME NEW b \in D PROVE Len(Fuzzy!blocks(c)[b]) = Cardinality(S(b))
    <3>1. Fuzzy!blocks(c)[b] = Fuzzy!Crescente(S(b))
      BY <1>5
    <3>2. IsFiniteSet(S(b))
      BY <1>4
    <3> HIDE DEF S
    <3>3. Len(Crescente(S(b))) = Cardinality(S(b))
      BY <3>2, FilaCrescente
    <3> QED
      BY <3>1, <3>3, CrescenteFuzzy
  <2> QED
    BY <2>1
<1>7. DOMAIN Fuzzy!blocks(c) = D
  BY <1>5
<1>8. ASSUME NEW b \in D PROVE b \in Fuzzy!Range(Blocco)
  <2>1. PICK v \in Fuzzy!Range(c.destra) \ {Nulla} : b = Blocco[v]
    BY DEF D
  <2>2. v \in Chiavi \ {Nulla}
    <3>1. PICK j \in DOMAIN c.destra : v = c.destra[j]
      BY <2>1 DEF Fuzzy!Range
    <3>2. c.destra[j] \in Chiavi
      BY <1>1, <1>2, <3>1, ElementOfSeq
    <3> QED
      BY <2>1, <3>1, <3>2
  <2> QED
    BY <2>1, <2>2, BlocchiAssunti DEF Fuzzy!Range
<1>9. ASSUME NEW b, Cardinality(S(b)) > c.max_candidates PROVE b \in D
  <2>1. S(b) # {}
    <3>1. ASSUME S(b) = {} PROVE FALSE
      <4>1. Cardinality(S(b)) = 0
        BY <3>1, FS_EmptySet
      <4> HIDE DEF S
      <4> QED
        BY <1>1, <1>9, <4>1
    <3> QED
      BY <3>1
  <2>2. PICK j \in DOMAIN c.destra : c.destra[j] # Nulla /\ Blocco[c.destra[j]] = b
    BY <2>1
  <2>3. c.destra[j] \in Fuzzy!Range(c.destra)
    BY DEF Fuzzy!Range
  <2> QED
    BY <2>2, <2>3 DEF D
<1> HIDE DEF S
<1>10. Fuzzy!TroppoGrande(c) <=> \E b \in D : Cardinality(S(b)) > c.max_candidates
  BY <1>6, <1>7 DEF Fuzzy!TroppoGrande
<1>11. Fuzzy!TroppoGrande(c) <=> \E b \in Fuzzy!Range(Blocco) : Cardinality(S(b)) > c.max_candidates
  BY <1>8, <1>9, <1>10
<1> QED
  BY <1>11 DEF S

LEMMA ScansioneDi ==
    ASSUME NEW c \in CasiFuzzy
    PROVE  Fuzzy!Scansione(c) =
             IF Fuzzy!TroppoGrande(c) THEN Fuzzy!TroppiCandidati
             ELSE IF Len(Tutte(c)) > c.max_rows THEN Fuzzy!Limite
             ELSE Fuzzy!Righe(Tutte(c))
<1>1. Fuzzy!FlattenSeq(PerRiga(c)) = FlattenSeq(PerRiga(c))
  BY DEF Fuzzy!FlattenSeq, FlattenSeq
<1> DEFINE S(b) == {j \in DOMAIN c.destra : c.destra[j] # Nulla /\ Blocco[c.destra[j]] = b}
           troppi == \E b \in Fuzzy!Range(Blocco) : Cardinality(S(b)) > c.max_candidates
           troppiF == \E b \in Fuzzy!Range(Blocco) : Fuzzy!Cardinality(S(b)) > c.max_candidates
<1>2. Fuzzy!TroppoGrande(c) <=> troppi
  BY BlocchiGuardati
<1>3. \A X : Fuzzy!Cardinality(X) = Cardinality(X)
  BY DEF Fuzzy!Cardinality, Cardinality
<1>4. troppi <=> troppiF
  <2> HIDE DEF S
  <2> QED
    BY <1>3
<1>5. Fuzzy!Scansione(c) =
        IF troppiF THEN Fuzzy!TroppiCandidati
        ELSE IF Len(Fuzzy!FlattenSeq(PerRiga(c))) > c.max_rows THEN Fuzzy!Limite
        ELSE Fuzzy!Righe(Fuzzy!FlattenSeq(PerRiga(c)))
  BY DEF Fuzzy!Scansione, PerRiga
<1> HIDE DEF troppi, troppiF
<1> QED
  BY <1>1, <1>2, <1>4, <1>5 DEF Tutte

\* The first and the last row of a chunk.
LEMMA EstremiDelChunk ==
    ASSUME NEW c \in CasiFuzzy, NEW k \in DOMAIN Fuzzy!Intervalli(c)
    PROVE  /\ DaDi(c, k) \in Nat /\ ADi(c, k) \in Nat /\ Len(c.sinistra) \in Nat
           /\ 1 <= DaDi(c, k) /\ DaDi(c, k) <= ADi(c, k) /\ ADi(c, k) <= Len(c.sinistra)
           /\ DaDi(c, k) - 1 \in 0 .. Len(c.sinistra)
           /\ Fuzzy!Intervalli(c)[k].da = DaDi(c, k) /\ Fuzzy!Intervalli(c)[k].a = ADi(c, k)
           /\ \A h \in DOMAIN Fuzzy!Intervalli(c) : k < h => ADi(c, k) <= DaDi(c, h) - 1
           /\ k \in Nat
<1> DEFINE n == Len(c.sinistra)
           m == QuantiChunk(n, c.chunk)
<1>1. /\ n \in Nat /\ c.chunk \in Nat \ {0} /\ DOMAIN Fuzzy!Intervalli(c) = 1 .. m
      /\ \A h \in 1 .. m : /\ Fuzzy!Intervalli(c)[h].da = DaDi(c, h)
                           /\ Fuzzy!Intervalli(c)[h].a = ADi(c, h)
  BY ChunkFuzzyInFila
<1>2. k \in 1 .. m
  BY <1>1
<1>3. /\ m \in Nat /\ DaRiga(c.chunk, k) \in Nat /\ ARiga(n, c.chunk, k) \in Nat
      /\ 1 <= DaRiga(c.chunk, k) /\ DaRiga(c.chunk, k) <= ARiga(n, c.chunk, k)
      /\ ARiga(n, c.chunk, k) <= n
  BY <1>1, <1>2, ChunkInFila
<1>4. ASSUME NEW h \in 1 .. m, k < h PROVE ADi(c, k) <= DaDi(c, h) - 1
  BY <1>1, <1>2, <1>4, ChunkDisgiunti DEF ADi, DaDi
<1> HIDE DEF m
<1>5. DaDi(c, k) - 1 \in 0 .. n /\ k \in Nat
  BY <1>1, <1>2, <1>3 DEF DaDi
<1> QED
  BY <1>1, <1>2, <1>3, <1>4, <1>5 DEF DaDi, ADi

LEMMA InitFuzzy_Scansione ==
    ASSUME NEW c \in CasiFuzzy, Fuzzy!InitFuzzy(c)
    PROVE  InvScansione
<1>1. /\ caso = c /\ fase = "blocchi" /\ condiviso = [prodotte |-> 0, superato |-> FALSE]
      /\ lavori = [ k \in DOMAIN Fuzzy!Intervalli(c) |->
                      [riga |-> Fuzzy!Intervalli(c)[k].da, uscita |-> <<>>, in_corso |-> 0, passo |-> "riga"] ]
  BY DEF Fuzzy!InitFuzzy
<1>2. ASSUME NEW k \in DOMAIN lavori
      PROVE  ChunkFedele(caso, k, lavori[k]) /\ lavori[k].passo = "riga"
  <2>1. k \in DOMAIN Fuzzy!Intervalli(c)
    BY <1>1
  <2>2. lavori[k].riga = DaDi(c, k) /\ lavori[k].uscita = <<>> /\ lavori[k].passo = "riga"
    BY <1>1, <2>1, EstremiDelChunk
  <2>3. DaDi(c, k) \in Nat /\ DaDi(c, k) <= ADi(c, k) /\ ADi(c, k) \in Nat /\ Prima(c, DaDi(c, k) - 1) \in Nat
    BY <2>1, EstremiDelChunk, PrimaDelleRighe
  <2>4. Len(lavori[k].uscita) = 0
    BY <2>2
  <2> QED
    BY <1>1, <2>2, <2>3, <2>4 DEF ChunkFedele
<1>3. PostiContati = {}
  <2>1. ASSUME NEW k \in DOMAIN lavori PROVE (PrimaDiOgni[k] + 1) .. ContateDiOgni[k] = {}
    <3>1. k \in DOMAIN Fuzzy!Intervalli(c)
      BY <1>1
    <3>2. lavori[k].uscita = <<>> /\ lavori[k].passo = "riga"
      BY <1>1, <3>1
    <3>3. Len(lavori[k].uscita) = 0 /\ InSospeso(lavori[k]) = 0
      BY <3>2 DEF InSospeso
    <3>4. Prima(c, DaDi(c, k) - 1) \in Nat
      BY <3>1, EstremiDelChunk, PrimaDelleRighe
    <3>5. PrimaDiOgni[k] = Prima(c, DaDi(c, k) - 1) /\ ContateDiOgni[k] = Prima(c, DaDi(c, k) - 1)
      BY <1>1, <3>3, <3>4 DEF PrimaDiOgni, ContateDiOgni
    <3> QED
      BY <3>4, <3>5
  <2> QED
    BY <2>1 DEF PostiContati, Presi
<1>4. Cardinality(PostiContati) = 0
  BY <1>3, FS_EmptySet
<1>5. condiviso.prodotte = 0 /\ condiviso.superato = FALSE
  BY <1>1
<1> QED
  BY <1>1, <1>2, <1>4, <1>5 DEF InvScansione

\* The places counted are places of the output, and each is of one chunk.
LEMMA PostiDellUscita ==
    ASSUME InvFuzzy, InvScansione
    PROVE  LET D == DOMAIN lavori
           IN  /\ PrimaDiOgni \in [D -> Int] /\ ContateDiOgni \in [D -> Int]
               /\ \A k \in D :
                    /\ k \in DOMAIN Fuzzy!Intervalli(caso)
                    /\ Len(lavori[k].uscita) \in Nat /\ lavori[k].in_corso \in Nat
                    /\ PrimaDiOgni[k] = Prima(caso, DaDi(caso, k) - 1)
                    /\ 0 <= PrimaDiOgni[k] /\ PrimaDiOgni[k] <= ContateDiOgni[k]
                    /\ ContateDiOgni[k] = PrimaDiOgni[k] + Len(lavori[k].uscita) - InSospeso(lavori[k])
                    /\ PrimaDiOgni[k] + Len(lavori[k].uscita) = Prima(caso, lavori[k].riga - 1)
                    /\ lavori[k].riga \in Int /\ lavori[k].riga - 1 \in 0 .. Len(caso.sinistra)
                    /\ Prima(caso, lavori[k].riga - 1) <= Prima(caso, ADi(caso, k))
                    /\ Prima(caso, ADi(caso, k)) \in Nat
                    /\ Prima(caso, ADi(caso, k)) <= Len(Tutte(caso))
                    /\ ContateDiOgni[k] <= Prima(caso, ADi(caso, k))
               /\ \A k, h \in D : k # h => \/ Prima(caso, ADi(caso, k)) <= PrimaDiOgni[h]
                                           \/ Prima(caso, ADi(caso, h)) <= PrimaDiOgni[k]
               /\ PostiContati \subseteq 1 .. Len(Tutte(caso))
               /\ IsFiniteSet(PostiContati) /\ Len(Tutte(caso)) \in Nat
<1> DEFINE D == DOMAIN lavori
<1>1. caso \in CasiFuzzy
  BY DEF InvFuzzy
<1>2. PICK V : lavori \in [DOMAIN Fuzzy!Intervalli(caso) -> ChunkFuzzy(V)]
  BY DEF InvFuzzy, ChunkFuzzy
<1>p. /\ Prima(caso, 0) = 0 /\ Prima(caso, Len(caso.sinistra)) = Len(Tutte(caso)) /\ Len(Tutte(caso)) \in Nat
      /\ \A i \in 0 .. Len(caso.sinistra) : Prima(caso, i) \in Nat
      /\ \A i, j \in 0 .. Len(caso.sinistra) : i <= j => Prima(caso, i) <= Prima(caso, j)
  BY <1>1, PrimaDelleRighe
<1>3. ASSUME NEW k \in D
      PROVE  /\ k \in DOMAIN Fuzzy!Intervalli(caso)
             /\ Len(lavori[k].uscita) \in Nat /\ lavori[k].in_corso \in Nat
             /\ PrimaDiOgni[k] = Prima(caso, DaDi(caso, k) - 1)
             /\ 0 <= PrimaDiOgni[k] /\ PrimaDiOgni[k] <= ContateDiOgni[k]
             /\ PrimaDiOgni[k] \in Int /\ ContateDiOgni[k] \in Int
             /\ ContateDiOgni[k] = PrimaDiOgni[k] + Len(lavori[k].uscita) - InSospeso(lavori[k])
             /\ PrimaDiOgni[k] + Len(lavori[k].uscita) = Prima(caso, lavori[k].riga - 1)
             /\ lavori[k].riga \in Int /\ lavori[k].riga - 1 \in 0 .. Len(caso.sinistra)
             /\ Prima(caso, lavori[k].riga - 1) <= Prima(caso, ADi(caso, k))
             /\ Prima(caso, ADi(caso, k)) \in Nat
             /\ Prima(caso, ADi(caso, k)) <= Len(Tutte(caso))
             /\ ContateDiOgni[k] <= Prima(caso, ADi(caso, k))
  <2> DEFINE l == lavori[k]
  <2>1. k \in DOMAIN Fuzzy!Intervalli(caso)
    BY <1>2
  <2>2. l \in ChunkFuzzy(V)
    BY <1>2, <2>1
  <2>3. l.uscita \in Seq(V) /\ l.in_corso \in Nat /\ l.riga \in Int
    BY <2>2 DEF ChunkFuzzy
  <2>4. Len(l.uscita) \in Nat
    BY <2>3, LenProperties
  <2>5. l.in_corso <= Len(l.uscita) /\ ChunkFedele(caso, k, l)
    BY DEF InvFuzzy, InvScansione
  <2>6. InSospeso(l) \in Nat /\ InSospeso(l) <= Len(l.uscita)
    BY <2>3, <2>4, <2>5 DEF InSospeso
  <2>7. /\ DaDi(caso, k) \in Nat /\ ADi(caso, k) \in Nat /\ Len(caso.sinistra) \in Nat
        /\ 1 <= DaDi(caso, k) /\ DaDi(caso, k) <= ADi(caso, k) /\ ADi(caso, k) <= Len(caso.sinistra)
        /\ DaDi(caso, k) - 1 \in 0 .. Len(caso.sinistra)
    BY <1>1, <2>1, EstremiDelChunk
  <2>8. /\ DaDi(caso, k) <= l.riga /\ l.riga <= ADi(caso, k) + 1
        /\ Len(l.uscita) = Prima(caso, l.riga - 1) - Prima(caso, DaDi(caso, k) - 1)
    BY <2>5 DEF ChunkFedele
  <2>9. /\ l.riga - 1 \in 0 .. Len(caso.sinistra) /\ l.riga - 1 <= ADi(caso, k)
        /\ ADi(caso, k) \in 0 .. Len(caso.sinistra) /\ Len(caso.sinistra) \in 0 .. Len(caso.sinistra)
    BY <2>3, <2>7, <2>8
  <2>10. /\ Prima(caso, l.riga - 1) \in Nat /\ Prima(caso, DaDi(caso, k) - 1) \in Nat
         /\ Prima(caso, ADi(caso, k)) \in Nat
         /\ Prima(caso, l.riga - 1) <= Prima(caso, ADi(caso, k))
         /\ Prima(caso, ADi(caso, k)) <= Len(Tutte(caso))
    BY <1>p, <2>7, <2>9
  <2>11. PrimaDiOgni[k] = Prima(caso, DaDi(caso, k) - 1)
    BY DEF PrimaDiOgni
  <2>12. ContateDiOgni[k] = Prima(caso, DaDi(caso, k) - 1) + Len(l.uscita) - InSospeso(l)
    BY DEF ContateDiOgni
  <2> HIDE DEF l
  <2>13. /\ 0 <= PrimaDiOgni[k] /\ PrimaDiOgni[k] <= ContateDiOgni[k]
         /\ PrimaDiOgni[k] \in Int /\ ContateDiOgni[k] \in Int
         /\ PrimaDiOgni[k] + Len(l.uscita) = Prima(caso, l.riga - 1)
         /\ ContateDiOgni[k] <= Prima(caso, ADi(caso, k))
    BY <2>4, <2>6, <2>8, <2>10, <2>11, <2>12
  <2> QED
    BY <2>1, <2>3, <2>4, <2>9, <2>10, <2>11, <2>12, <2>13 DEF l
<1>4. PrimaDiOgni \in [D -> Int] /\ ContateDiOgni \in [D -> Int]
  <2>1. PrimaDiOgni = [k \in D |-> PrimaDiOgni[k]] /\ ContateDiOgni = [k \in D |-> ContateDiOgni[k]]
    BY DEF PrimaDiOgni, ContateDiOgni
  <2>2. \A k \in D : PrimaDiOgni[k] \in Int /\ ContateDiOgni[k] \in Int
    BY <1>3
  <2> QED
    BY <2>1, <2>2
<1>5. ASSUME NEW k \in D, NEW h \in D, k < h
      PROVE  Prima(caso, ADi(caso, k)) <= PrimaDiOgni[h]
  <2>1. k \in DOMAIN Fuzzy!Intervalli(caso) /\ h \in DOMAIN Fuzzy!Intervalli(caso)
    BY <1>3
  <2>2. ADi(caso, k) <= DaDi(caso, h) - 1
    BY <1>1, <1>5, <2>1, EstremiDelChunk
  <2>3. ADi(caso, k) \in 0 .. Len(caso.sinistra) /\ DaDi(caso, h) - 1 \in 0 .. Len(caso.sinistra)
    <3>1. ADi(caso, k) \in Nat /\ ADi(caso, k) <= Len(caso.sinistra) /\ Len(caso.sinistra) \in Nat
      BY <1>1, <2>1, EstremiDelChunk
    <3>2. DaDi(caso, h) - 1 \in 0 .. Len(caso.sinistra)
      BY <1>1, <2>1, EstremiDelChunk
    <3> QED
      BY <3>1, <3>2
  <2>4. PrimaDiOgni[h] = Prima(caso, DaDi(caso, h) - 1)
    BY <1>3
  <2> QED
    BY <1>p, <2>2, <2>3, <2>4
<1>6. \A k, h \in D : k # h => \/ Prima(caso, ADi(caso, k)) <= PrimaDiOgni[h]
                               \/ Prima(caso, ADi(caso, h)) <= PrimaDiOgni[k]
  <2>1. ASSUME NEW k \in D, NEW h \in D, k # h
        PROVE  \/ Prima(caso, ADi(caso, k)) <= PrimaDiOgni[h]
               \/ Prima(caso, ADi(caso, h)) <= PrimaDiOgni[k]
    <3>1. k \in Nat /\ h \in Nat
      BY <1>1, <1>3, EstremiDelChunk
    <3>2. k < h \/ h < k
      BY <2>1, <3>1
    <3> QED
      BY <1>5, <3>2
  <2> QED
    BY <2>1
<1>7. PostiContati \subseteq 1 .. Len(Tutte(caso))
  <2>1. ASSUME NEW x \in PostiContati PROVE x \in 1 .. Len(Tutte(caso))
    <3>1. PICK k \in D : x \in (PrimaDiOgni[k] + 1) .. ContateDiOgni[k]
      BY DEF PostiContati, Presi
    <3>2. /\ 0 <= PrimaDiOgni[k] /\ PrimaDiOgni[k] \in Int /\ ContateDiOgni[k] \in Int
          /\ ContateDiOgni[k] <= Prima(caso, ADi(caso, k)) /\ Prima(caso, ADi(caso, k)) <= Len(Tutte(caso))
          /\ Prima(caso, ADi(caso, k)) \in Nat
      BY <1>3
    <3> QED
      BY <1>p, <3>1, <3>2
  <2> QED
    BY <2>1
<1>8. IsFiniteSet(PostiContati)
  <2>1. IsFiniteSet(1 .. Len(Tutte(caso)))
    BY <1>p, FS_Interval
  <2> QED
    BY <1>7, <2>1, FS_Subset
<1> QED
  BY <1>p, <1>3, <1>4, <1>6, <1>7, <1>8

\* A step of one chunk: what it has is still a part of the output, and the counter
\* grows at most by the places it counts more.
LEMMA ChunkCheAvanza ==
    ASSUME InvFuzzy, InvScansione, fase = "probe", fase' = fase, caso' = caso,
           NEW chunk \in DOMAIN lavori, NEW nuovo, lavori' = [lavori EXCEPT ![chunk] = nuovo],
           nuovo.riga \in Int, Len(nuovo.uscita) \in Nat, InSospeso(nuovo) \in Nat,
           ChunkFedele(caso, chunk, nuovo),
           nuovo.passo = "fermo" => condiviso'.superato,
           nuovo.passo = "segnala" => Len(Tutte(caso)) > caso.max_rows,
           condiviso.superato => condiviso'.superato,
           condiviso'.superato => Len(Tutte(caso)) > caso.max_rows,
           condiviso.prodotte \in Nat, condiviso'.prodotte \in Nat,
           LET prima == Len(lavori[chunk].uscita) - InSospeso(lavori[chunk])
               dopo  == Len(nuovo.uscita) - InSospeso(nuovo)
           IN  /\ prima <= dopo
               /\ condiviso'.prodotte <= condiviso.prodotte + (dopo - prima)
    PROVE  InvScansione'
<1> DEFINE D == DOMAIN lavori
           lo == PrimaDiOgni
           hi == ContateDiOgni
           dopo == [hi EXCEPT ![chunk] = lo[chunk] + Len(nuovo.uscita) - InSospeso(nuovo)]
           n == Len(caso.sinistra)
<1>1. caso \in CasiFuzzy
  BY DEF InvFuzzy
<1>2. /\ lo \in [D -> Int] /\ hi \in [D -> Int] /\ IsFiniteSet(PostiContati)
      /\ chunk \in DOMAIN Fuzzy!Intervalli(caso)
      /\ Len(lavori[chunk].uscita) \in Nat /\ lavori[chunk].in_corso \in Nat
      /\ lo[chunk] = Prima(caso, DaDi(caso, chunk) - 1)
      /\ lo[chunk] <= hi[chunk]
      /\ hi[chunk] = lo[chunk] + Len(lavori[chunk].uscita) - InSospeso(lavori[chunk])
  BY PostiDellUscita
<1>3. InSospeso(lavori[chunk]) \in Nat
  BY <1>2 DEF InSospeso
<1>4. D = DOMAIN lavori' /\ \A k \in D : lavori'[k] = IF k = chunk THEN nuovo ELSE lavori[k]
  OBVIOUS
<1>5. PrimaDiOgni' = lo
  BY <1>4 DEF PrimaDiOgni
<1>6. ContateDiOgni' = dopo
  <2>1. ContateDiOgni' = [k \in D |-> Prima(caso, DaDi(caso, k) - 1) + Len(lavori'[k].uscita) - InSospeso(lavori'[k])]
    BY <1>4 DEF ContateDiOgni, InSospeso
  <2>2. ASSUME NEW k \in D
        PROVE  dopo[k] = Prima(caso, DaDi(caso, k) - 1) + Len(lavori'[k].uscita) - InSospeso(lavori'[k])
    <3>1. CASE k = chunk
      BY <1>2, <1>4, <3>1
    <3>2. CASE k # chunk
      <4>1. dopo[k] = hi[k] /\ lavori'[k] = lavori[k]
        BY <1>2, <1>4, <3>2
      <4> QED
        BY <4>1 DEF ContateDiOgni
    <3> QED
      BY <3>1, <3>2
  <2>3. dopo = [k \in D |-> dopo[k]]
    BY <1>2
  <2> HIDE DEF dopo
  <2> QED
    BY <2>1, <2>2, <2>3
<1>7. /\ dopo \in [D -> Int] /\ dopo[chunk] = lo[chunk] + Len(nuovo.uscita) - InSospeso(nuovo)
      /\ \A k \in D \ {chunk} : dopo[k] = hi[k]
  <2>1. lo[chunk] \in Int /\ lo[chunk] + Len(nuovo.uscita) - InSospeso(nuovo) \in Int
    BY <1>2
  <2> QED
    BY <1>2, <2>1
<1>8. dopo[chunk] <= Prima(caso, ADi(caso, chunk)) /\ dopo[chunk] \in Int
  <2>1. /\ DaDi(caso, chunk) \in Nat /\ ADi(caso, chunk) \in Nat /\ n \in Nat
        /\ 1 <= DaDi(caso, chunk) /\ ADi(caso, chunk) <= n /\ DaDi(caso, chunk) - 1 \in 0 .. n
    BY <1>1, <1>2, EstremiDelChunk
  <2>2. /\ DaDi(caso, chunk) <= nuovo.riga /\ nuovo.riga <= ADi(caso, chunk) + 1
        /\ Len(nuovo.uscita) = Prima(caso, nuovo.riga - 1) - Prima(caso, DaDi(caso, chunk) - 1)
    BY DEF ChunkFedele
  <2>3. nuovo.riga - 1 \in 0 .. n /\ ADi(caso, chunk) \in 0 .. n /\ nuovo.riga - 1 <= ADi(caso, chunk)
    BY <2>1, <2>2
  <2>4. /\ Prima(caso, nuovo.riga - 1) \in Nat /\ Prima(caso, ADi(caso, chunk)) \in Nat
        /\ Prima(caso, DaDi(caso, chunk) - 1) \in Nat
        /\ Prima(caso, nuovo.riga - 1) <= Prima(caso, ADi(caso, chunk))
    BY <1>1, <2>1, <2>3, PrimaDelleRighe
  <2> QED
    BY <1>2, <1>7, <2>2, <2>4
<1> HIDE DEF dopo
<1>9. ASSUME NEW k \in D \ {chunk} PROVE hi[k] <= lo[chunk] \/ dopo[chunk] <= lo[k]
  <2>1. /\ hi[k] <= Prima(caso, ADi(caso, k)) /\ Prima(caso, ADi(caso, k)) \in Nat
        /\ Prima(caso, ADi(caso, chunk)) \in Nat
        /\ hi[k] \in Int /\ lo[k] \in Int /\ lo[chunk] \in Int
    BY <1>2, PostiDellUscita
  <2>2. Prima(caso, ADi(caso, k)) <= lo[chunk] \/ Prima(caso, ADi(caso, chunk)) <= lo[k]
    BY PostiDellUscita
  <2> QED
    BY <1>8, <2>1, <2>2
<1>10. hi[chunk] <= dopo[chunk] /\ dopo[chunk] - hi[chunk]
           = (Len(nuovo.uscita) - InSospeso(nuovo)) - (Len(lavori[chunk].uscita) - InSospeso(lavori[chunk]))
  <2> DEFINE x == Len(nuovo.uscita) - InSospeso(nuovo)
             y == Len(lavori[chunk].uscita) - InSospeso(lavori[chunk])
             z == lo[chunk]
  <2>1. x \in Int /\ y \in Int /\ z \in Int /\ y <= x
    BY <1>2, <1>3
  <2>2. dopo[chunk] = z + x
    BY <1>7, <2>1
  <2>3. hi[chunk] = z + y
    BY <1>2, <1>3, <2>1
  <2> HIDE DEF x, y, z, lo, hi
  <2> QED
    BY <2>1, <2>2, <2>3 DEF x, y
<1>11. PostiContati = Presi(D, lo, hi) /\ PostiContati' = Presi(D, lo, dopo)
  BY <1>4, <1>5, <1>6 DEF PostiContati
<1> HIDE DEF lo, hi, D
<1>12. /\ Cardinality(Presi(D, lo, hi)) \in Nat
       /\ Cardinality(Presi(D, lo, dopo)) = Cardinality(Presi(D, lo, hi)) + (dopo[chunk] - hi[chunk])
  <2>1. chunk \in D
    BY DEF D
  <2>2. IsFiniteSet(Presi(D, lo, hi))
    BY <1>2, <1>11
  <2>3. lo \in [D -> Int] /\ hi \in [D -> Int] /\ dopo \in [D -> Int]
    BY <1>2, <1>7
  <2>4. lo[chunk] <= hi[chunk] /\ hi[chunk] <= dopo[chunk]
    BY <1>2, <1>10
  <2>5. \A k \in D \ {chunk} : dopo[k] = hi[k] /\ (hi[k] <= lo[chunk] \/ dopo[chunk] <= lo[k])
    BY <1>7, <1>9
  <2> QED
    BY <2>1, <2>2, <2>3, <2>4, <2>5, PresiDopo
<1>13. condiviso'.prodotte <= Cardinality(PostiContati')
  <2>1. condiviso.prodotte <= Cardinality(Presi(D, lo, hi))
    BY <1>11 DEF InvScansione
  <2>2. condiviso'.prodotte <= condiviso.prodotte + (dopo[chunk] - hi[chunk])
    BY <1>10
  <2>3. dopo[chunk] - hi[chunk] \in Int
    BY <1>2, <1>8 DEF D
  <2> DEFINE p == Cardinality(Presi(D, lo, hi))
             q == dopo[chunk] - hi[chunk]
  <2>4. p \in Nat /\ q \in Int /\ condiviso.prodotte <= p /\ condiviso'.prodotte <= condiviso.prodotte + q
    BY <1>12, <2>1, <2>2, <2>3
  <2>5. Cardinality(PostiContati') = p + q
    BY <1>11, <1>12
  <2> HIDE DEF p, q
  <2> QED
    BY <2>4, <2>5
<1>14. ASSUME NEW k \in DOMAIN lavori'
       PROVE  /\ ChunkFedele(caso, k, lavori'[k])
              /\ lavori'[k].passo = "fermo" => condiviso'.superato
              /\ lavori'[k].passo = "segnala" => Len(Tutte(caso)) > caso.max_rows
  <2>1. k \in DOMAIN lavori
    BY <1>4 DEF D
  <2>2. CASE k = chunk
    BY <1>4, <2>1, <2>2 DEF D
  <2>3. CASE k # chunk
    <3>1. lavori'[k] = lavori[k]
      BY <1>4, <2>1, <2>3 DEF D
    <3> QED
      BY <2>1, <3>1 DEF InvScansione
  <2> QED
    BY <2>2, <2>3
<1>15. Tutte(caso)' = Tutte(caso) /\ Fuzzy!TroppoGrande(caso)' = Fuzzy!TroppoGrande(caso)
  BY DEF Tutte, PerRiga
<1>16. \A k, l : ChunkFedele(caso', k, l) = ChunkFedele(caso, k, l)
  OBVIOUS
<1>17. \A k \in DOMAIN lavori' :
          /\ ChunkFedele(caso, k, lavori[k])'
          /\ lavori'[k].passo = "fermo" => condiviso'.superato
          /\ lavori'[k].passo = "segnala" => Len(Tutte(caso)) > caso.max_rows
  BY <1>14, <1>16 DEF ChunkFedele
<1> QED
  BY <1>13, <1>15, <1>17 DEF InvScansione

\* The places counted and those a chunk is about to count are different places of
\* the output.
LEMMA SospesiNellUscita ==
    ASSUME InvFuzzy, InvScansione, NEW chunk \in DOMAIN lavori
    PROVE  /\ Cardinality(PostiContati) \in Nat
           /\ Cardinality(PostiContati) + InSospeso(lavori[chunk]) <= Len(Tutte(caso))
<1> DEFINE D == DOMAIN lavori
           lo == PrimaDiOgni
           hi == ContateDiOgni
           fino == lo[chunk] + Len(lavori[chunk].uscita)
           dopo == [hi EXCEPT ![chunk] = fino]
<1>1. /\ lo \in [D -> Int] /\ hi \in [D -> Int] /\ IsFiniteSet(PostiContati)
      /\ PostiContati \subseteq 1 .. Len(Tutte(caso)) /\ Len(Tutte(caso)) \in Nat
      /\ Len(lavori[chunk].uscita) \in Nat /\ lavori[chunk].in_corso \in Nat
      /\ 0 <= lo[chunk] /\ lo[chunk] <= hi[chunk]
      /\ hi[chunk] = lo[chunk] + Len(lavori[chunk].uscita) - InSospeso(lavori[chunk])
      /\ fino = Prima(caso, lavori[chunk].riga - 1)
      /\ Prima(caso, lavori[chunk].riga - 1) <= Prima(caso, ADi(caso, chunk))
      /\ Prima(caso, ADi(caso, chunk)) \in Nat
      /\ Prima(caso, ADi(caso, chunk)) <= Len(Tutte(caso))
  BY PostiDellUscita
<1>2. InSospeso(lavori[chunk]) \in Nat
  BY <1>1 DEF InSospeso
<1>3. lo[chunk] \in Int /\ hi[chunk] \in Int /\ fino \in Int
  BY <1>1
<1> HIDE DEF fino
<1>4. /\ dopo \in [D -> Int] /\ dopo[chunk] = fino /\ \A k \in D \ {chunk} : dopo[k] = hi[k]
  BY <1>1, <1>3
<1> HIDE DEF dopo
<1>5. hi[chunk] <= dopo[chunk] /\ dopo[chunk] - hi[chunk] = InSospeso(lavori[chunk])
  BY <1>1, <1>2, <1>3, <1>4 DEF fino
<1>6. dopo[chunk] <= Prima(caso, ADi(caso, chunk)) /\ dopo[chunk] \in Int
  BY <1>1, <1>3, <1>4
<1>7. ASSUME NEW k \in D \ {chunk} PROVE hi[k] <= lo[chunk] \/ dopo[chunk] <= lo[k]
  <2>1. /\ hi[k] <= Prima(caso, ADi(caso, k)) /\ Prima(caso, ADi(caso, k)) \in Nat
        /\ hi[k] \in Int /\ lo[k] \in Int
    BY <1>1, PostiDellUscita
  <2>2. Prima(caso, ADi(caso, k)) <= lo[chunk] \/ Prima(caso, ADi(caso, chunk)) <= lo[k]
    BY PostiDellUscita
  <2> QED
    BY <1>1, <1>3, <1>6, <2>1, <2>2
<1>8. PostiContati = Presi(D, lo, hi)
  BY DEF PostiContati
<1>9. Presi(D, lo, dopo) \subseteq 1 .. Len(Tutte(caso))
  <2>1. ASSUME NEW x \in Presi(D, lo, dopo) PROVE x \in 1 .. Len(Tutte(caso))
    <3>1. PICK k \in D : x \in (lo[k] + 1) .. dopo[k]
      BY DEF Presi
    <3>2. CASE k = chunk
      BY <1>1, <1>3, <1>6, <3>1, <3>2
    <3>3. CASE k # chunk
      <4>1. x \in (lo[k] + 1) .. hi[k]
        BY <1>4, <3>1, <3>3
      <4> QED
        BY <1>1, <1>8, <4>1 DEF Presi
    <3> QED
      BY <3>2, <3>3
  <2> QED
    BY <2>1
<1> HIDE DEF lo, hi
<1>10. /\ IsFiniteSet(Presi(D, lo, dopo)) /\ Cardinality(Presi(D, lo, hi)) \in Nat
       /\ Cardinality(Presi(D, lo, dopo)) = Cardinality(Presi(D, lo, hi)) + (dopo[chunk] - hi[chunk])
  <2>1. IsFiniteSet(Presi(D, lo, hi))
    BY <1>1, <1>8
  <2>2. lo \in [D -> Int] /\ hi \in [D -> Int] /\ lo[chunk] <= hi[chunk]
    BY <1>1
  <2>3. \A k \in D \ {chunk} : dopo[k] = hi[k] /\ (hi[k] <= lo[chunk] \/ dopo[chunk] <= lo[k])
    BY <1>4, <1>7
  <2>4. chunk \in D
    OBVIOUS
  <2> HIDE DEF D
  <2> QED
    BY <1>4, <1>5, <2>1, <2>2, <2>3, <2>4, PresiDopo
<1>11. Cardinality(Presi(D, lo, dopo)) <= Len(Tutte(caso))
  <2>1. IsFiniteSet(1 .. Len(Tutte(caso))) /\ Cardinality(1 .. Len(Tutte(caso))) = Len(Tutte(caso))
    <3> DEFINE t == Len(Tutte(caso))
    <3>1. t \in Nat
      BY <1>1
    <3> HIDE DEF t
    <3>2. IsFiniteSet(1 .. t) /\ Cardinality(1 .. t) = IF 1 > t THEN 0 ELSE t - 1 + 1
      BY <3>1, FS_Interval
    <3> QED
      BY <3>1, <3>2 DEF t
  <2> DEFINE P == Presi(D, lo, dopo)
             T == 1 .. Len(Tutte(caso))
  <2>2. P \subseteq T
    BY <1>9
  <2>3. IsFiniteSet(T) /\ Cardinality(T) = Len(Tutte(caso))
    BY <2>1
  <2> HIDE DEF P, T
  <2>4. Cardinality(P) <= Cardinality(T)
    BY <2>2, <2>3, FS_Subset
  <2> QED
    BY <2>3, <2>4 DEF P
<1> QED
  BY <1>5, <1>8, <1>10, <1>11

LEMMA PassoScansione ==
    ASSUME InvFuzzy, InvScansione, Fuzzy!VerificaBlocchi
           \/ \E chunk \in DOMAIN lavori : Fuzzy!Riga(chunk) \/ Fuzzy!Aggiungi(chunk) \/ Fuzzy!Segnala(chunk)
    PROVE  InvScansione'
<1>1. PICK V : lavori \in [DOMAIN Fuzzy!Intervalli(caso) -> ChunkFuzzy(V)]
  BY DEF InvFuzzy, ChunkFuzzy
<1>2. /\ caso \in CasiFuzzy /\ caso.max_rows \in Nat /\ caso.max_rows <= MaxUsize
      /\ condiviso \in [prodotte : Nat, superato : BOOLEAN] /\ condiviso.prodotte \in Nat
      /\ MaxUsize \in Nat
  BY CasiAssunti, LimitiAssunti DEF InvFuzzy
<1>3. ASSUME NEW chunk \in DOMAIN lavori
      PROVE  LET l == lavori[chunk]
             IN  /\ l \in ChunkFuzzy(V) /\ l.in_corso \in Nat /\ Len(l.uscita) \in Nat
                 /\ l.in_corso <= Len(l.uscita) /\ l.uscita \in Seq(V) /\ l.riga \in Int
                 /\ l.passo = "riga" => l.in_corso = 0
                 /\ InSospeso(l) \in Nat
                 /\ ChunkFedele(caso, chunk, l)
                 /\ chunk \in DOMAIN Fuzzy!Intervalli(caso)
  <2> DEFINE l == lavori[chunk]
  <2>1. l \in ChunkFuzzy(V) /\ chunk \in DOMAIN Fuzzy!Intervalli(caso)
    BY <1>1, <1>3
  <2>2. l.in_corso \in Nat /\ l.uscita \in Seq(V) /\ l.riga \in Int
    BY <2>1 DEF ChunkFuzzy
  <2>3. Len(l.uscita) \in Nat
    BY <2>2, LenProperties
  <2>4. l.in_corso <= Len(l.uscita) /\ (l.passo = "riga" => l.in_corso = 0)
    BY <1>3 DEF InvFuzzy
  <2>5. ChunkFedele(caso, chunk, l)
    BY <1>3 DEF InvScansione
  <2> QED
    BY <2>1, <2>2, <2>3, <2>4, <2>5 DEF InSospeso
<1>4. CASE Fuzzy!VerificaBlocchi
  <2>1. UNCHANGED <<caso, lavori, condiviso>> /\ fase = "blocchi"
    BY <1>4 DEF Fuzzy!VerificaBlocchi
  <2>2. IF Fuzzy!TroppoGrande(caso) THEN fase' = "fine" /\ esito' = Fuzzy!TroppiCandidati ELSE fase' = "probe"
    BY <1>4 DEF Fuzzy!VerificaBlocchi
  <2>3. PostiContati' = PostiContati
    BY <2>1 DEF PostiContati, PrimaDiOgni, ContateDiOgni, InSospeso
  <2>4. Fuzzy!TroppoGrande(caso) => Fuzzy!Scansione(caso) = Fuzzy!TroppiCandidati
    BY <1>2, ScansioneDi
  <2>5. Tutte(caso)' = Tutte(caso) /\ Fuzzy!TroppoGrande(caso)' = Fuzzy!TroppoGrande(caso)
        /\ Fuzzy!Scansione(caso)' = Fuzzy!Scansione(caso)
    BY <2>1
  <2>6. \A k \in DOMAIN lavori : ChunkFedele(caso, k, lavori[k])' = ChunkFedele(caso, k, lavori[k])
    BY <2>1 DEF ChunkFedele
  <2> QED
    BY <2>1, <2>2, <2>3, <2>4, <2>5, <2>6 DEF InvScansione
<1>5. ASSUME NEW chunk \in DOMAIN lavori, Fuzzy!Riga(chunk) PROVE InvScansione'
  <2> DEFINE l == lavori[chunk]
             nuove == Fuzzy!Prodotte(caso, l.riga)
  <2>1. /\ fase = "probe" /\ fase' = fase /\ caso' = caso /\ condiviso' = condiviso
        /\ l.passo = "riga" /\ l.riga <= Fuzzy!Intervalli(caso)[chunk].a
    BY <1>5 DEF Fuzzy!Riga
  <2>2. InSospeso(l) = 0
    BY <2>1 DEF InSospeso
  <2>s. condiviso'.superato => Len(Tutte(caso)) > caso.max_rows
    BY <2>1 DEF InvScansione
  <2>t. condiviso'.superato = condiviso.superato /\ condiviso'.prodotte \in Nat
    BY <1>2, <2>1
  <2>u. fase = "probe" /\ fase' = fase /\ caso' = caso
    BY <2>1
  <2>3. CASE condiviso.superato
    <3> DEFINE nuovo == [l EXCEPT !.passo = "fermo"]
    <3>1. lavori' = [lavori EXCEPT ![chunk] = nuovo]
      BY <1>5, <2>3 DEF Fuzzy!Riga
    <3>2. nuovo.uscita = l.uscita /\ nuovo.riga = l.riga /\ nuovo.passo = "fermo"
      BY <1>3 DEF ChunkFuzzy
    <3> HIDE DEF nuovo
    <3>3. InSospeso(nuovo) = 0 /\ ChunkFedele(caso, chunk, nuovo)
      BY <1>3, <3>2 DEF InSospeso, ChunkFedele
    <3>4. /\ nuovo.riga \in Int /\ Len(nuovo.uscita) \in Nat /\ InSospeso(nuovo) \in Nat
          /\ Len(l.uscita) - InSospeso(l) <= Len(nuovo.uscita) - InSospeso(nuovo)
          /\ condiviso'.prodotte <= condiviso.prodotte
               + ((Len(nuovo.uscita) - InSospeso(nuovo)) - (Len(l.uscita) - InSospeso(l)))
      BY <1>2, <1>3, <2>1, <2>2, <3>2, <3>3
    <3> QED
      BY <1>2, <2>s, <2>t, <2>u, <2>3, <3>1, <3>2, <3>3, <3>4, ChunkCheAvanza
  <2>4. CASE ~ condiviso.superato
    <3> DEFINE passo == IF nuove = <<>> THEN "riga" ELSE "conta"
               nuovo == [l EXCEPT !.uscita = l.uscita \o nuove, !.in_corso = Len(nuove),
                                  !.riga = l.riga + 1, !.passo = passo]
    <3>1. lavori' = [lavori EXCEPT ![chunk] = nuovo]
      BY <1>5, <2>4 DEF Fuzzy!Riga
    <3>2. PICK W : l.uscita \in Seq(W) /\ nuove \in Seq(W)
      <4>1. PICK m \in Nat : nuove = [k \in 1 .. m |-> nuove[k]]
        BY <1>2, ProdotteDellaRiga
      <4> HIDE DEF nuove
      <4> DEFINE U == {nuove[k] : k \in 1 .. m}
      <4>2. nuove \in Seq(U)
        BY <4>1, FilaDi
      <4> HIDE DEF U
      <4>3. V \subseteq V \cup U /\ U \subseteq V \cup U
        OBVIOUS
      <4>4. l.uscita \in Seq(V \cup U) /\ nuove \in Seq(V \cup U)
        BY <1>3, <4>2, <4>3, SeqMonotonic
      <4> QED
        BY <4>4
    <3>3. /\ Len(l.uscita \o nuove) = Len(l.uscita) + Len(nuove) /\ Len(nuove) \in Nat
          /\ \A j \in Nat : 1 <= j /\ j <= Len(l.uscita) => (l.uscita \o nuove)[j] = l.uscita[j]
          /\ \A j \in Nat : 1 <= j /\ j <= Len(nuove) => (l.uscita \o nuove)[Len(l.uscita) + j] = nuove[j]
      <4> DEFINE u == l.uscita
      <4>1. u \in Seq(W)
        BY <3>2
      <4>2. nuove \in Seq(W)
        BY <3>2
      <4> HIDE DEF u, nuove
      <4>3. Len(nuove) \in Nat
        BY <4>2, LenProperties
      <4>4. Len(u) \in Nat
        BY <4>1, LenProperties
      <4>5. Len(u \o nuove) = Len(u) + Len(nuove)
        BY <4>1, <4>2, Concatenate
      <4>6. \A j \in Nat : 1 <= j /\ j <= Len(u) => (u \o nuove)[j] = u[j]
        BY <4>1, <4>2, Concatenate
      <4>7. \A j \in Nat : 1 <= j /\ j <= Len(nuove) => (u \o nuove)[Len(u) + j] = nuove[j]
        BY <4>1, <4>2, Concatenate
      <4> QED
        BY <4>3, <4>5, <4>6, <4>7 DEF u
    <3>4. /\ nuovo.uscita = l.uscita \o nuove /\ nuovo.riga = l.riga + 1
          /\ nuovo.in_corso = Len(nuove) /\ nuovo.passo = passo
      BY <1>3 DEF ChunkFuzzy
    <3>5. passo \in {"riga", "conta"} /\ (passo = "riga" => Len(nuove) = 0)
      <4>1. Len(<<>>) = 0
        OBVIOUS
      <4> QED
        BY <4>1
    <3> HIDE DEF passo, nuovo
    <3>6. InSospeso(nuovo) = Len(nuove)
      BY <3>4, <3>5 DEF InSospeso
    <3>7. ChunkFedele(caso, chunk, nuovo)
      <4> DEFINE n == Len(caso.sinistra)
                 da == DaDi(caso, chunk)
                 a == ADi(caso, chunk)
      <4>1. /\ da \in Nat /\ a \in Nat /\ n \in Nat /\ 1 <= da /\ a <= n /\ da - 1 \in 0 .. n
            /\ Fuzzy!Intervalli(caso)[chunk].a = a
        BY <1>2, <1>3, EstremiDelChunk
      <4>2. /\ da <= l.riga /\ l.riga <= a + 1
            /\ Len(l.uscita) = Prima(caso, l.riga - 1) - Prima(caso, da - 1)
            /\ \A j \in Nat : 1 <= j /\ j <= Len(l.uscita) => l.uscita[j] = Tutte(caso)[Prima(caso, da - 1) + j]
        BY <1>3 DEF ChunkFedele
      <4>3. l.riga \in 1 .. n /\ l.riga - 1 \in 0 .. n /\ l.riga <= a
        BY <1>3, <2>1, <4>1, <4>2
      <4>4. /\ Prima(caso, l.riga) = Prima(caso, l.riga - 1) + Len(nuove)
            /\ \A j \in Nat : 1 <= j /\ j <= Len(nuove) => Tutte(caso)[Prima(caso, l.riga - 1) + j] = nuove[j]
        BY <1>2, <4>3, PrimaDelleRighe
      <4>5. Prima(caso, l.riga - 1) \in Nat /\ Prima(caso, da - 1) \in Nat
        BY <1>2, <4>1, <4>3, PrimaDelleRighe
      <4> DEFINE p == Prima(caso, da - 1)
                 q == Prima(caso, l.riga - 1)
                 u == l.uscita \o nuove
      <4>6. p \in Nat /\ q \in Nat /\ Len(l.uscita) = q - p /\ Len(l.uscita) \in Nat /\ Len(nuove) \in Nat
        BY <1>3, <3>3, <4>2, <4>5
      <4> HIDE DEF p, q, nuove, u
      <4>7. ASSUME NEW j \in Nat, 1 <= j, j <= Len(l.uscita) + Len(nuove)
            PROVE  u[j] = Tutte(caso)[p + j]
        <5>1. CASE j <= Len(l.uscita)
          BY <3>3, <4>2, <4>7, <5>1 DEF u, p
        <5>2. CASE ~ (j <= Len(l.uscita))
          <6> DEFINE i == j - Len(l.uscita)
          <6>1. i \in Nat /\ 1 <= i /\ i <= Len(nuove) /\ j = Len(l.uscita) + i /\ p + j = q + i
            BY <4>6, <4>7, <5>2
          <6> HIDE DEF i
          <6>2. u[Len(l.uscita) + i] = nuove[i]
            BY <3>3, <6>1 DEF u
          <6>3. Tutte(caso)[q + i] = nuove[i]
            BY <4>4, <6>1 DEF q
          <6> QED
            BY <6>1, <6>2, <6>3
        <5> QED
          BY <5>1, <5>2
      <4>8. nuovo.uscita = u /\ Len(u) = Len(l.uscita) + Len(nuove)
        BY <3>3, <3>4 DEF u
      <4>9. nuovo.riga = l.riga + 1 /\ nuovo.riga - 1 = l.riga
        BY <1>3, <3>4
      <4>10. Len(nuovo.uscita) = Prima(caso, nuovo.riga - 1) - p
        BY <4>4, <4>6, <4>8, <4>9 DEF q
      <4>11. da <= nuovo.riga /\ nuovo.riga <= a + 1
        BY <1>3, <4>1, <4>2, <4>3, <4>9
      <4>12. \A j \in Nat : 1 <= j /\ j <= Len(nuovo.uscita) => nuovo.uscita[j] = Tutte(caso)[p + j]
        BY <4>7, <4>8
      <4> QED
        BY <4>10, <4>11, <4>12 DEF ChunkFedele, p
    <3>8. /\ nuovo.riga \in Int /\ Len(nuovo.uscita) \in Nat /\ InSospeso(nuovo) \in Nat
          /\ Len(l.uscita) - InSospeso(l) <= Len(nuovo.uscita) - InSospeso(nuovo)
          /\ condiviso'.prodotte <= condiviso.prodotte
               + ((Len(nuovo.uscita) - InSospeso(nuovo)) - (Len(l.uscita) - InSospeso(l)))
      <4> DEFINE x == Len(l.uscita)
                 y == Len(nuove)
      <4>1. x \in Nat /\ y \in Nat /\ l.riga \in Int
        BY <1>3, <3>3
      <4>2. Len(nuovo.uscita) = x + y /\ nuovo.riga = l.riga + 1 /\ InSospeso(nuovo) = y
        BY <3>3, <3>4, <3>6
      <4>3. condiviso'.prodotte = condiviso.prodotte /\ condiviso.prodotte \in Nat
        BY <1>2, <2>1
      <4> HIDE DEF x, y
      <4>4. Len(nuovo.uscita) - InSospeso(nuovo) = x
        BY <4>1, <4>2
      <4>5. Len(l.uscita) - InSospeso(l) = x
        BY <4>1, <2>2 DEF x
      <4> QED
        BY <4>1, <4>2, <4>3, <4>4, <4>5
    <3>9. nuovo.passo # "fermo" /\ nuovo.passo # "segnala"
      BY <3>4, <3>5
    <3> QED
      BY <1>2, <2>s, <2>t, <2>u, <3>1, <3>7, <3>8, <3>9, ChunkCheAvanza
  <2> QED
    BY <2>3, <2>4
<1>6. ASSUME NEW chunk \in DOMAIN lavori, Fuzzy!Aggiungi(chunk) PROVE InvScansione'
  <2> DEFINE l == lavori[chunk]
             insieme == condiviso.prodotte + l.in_corso
  <2>1. /\ fase = "probe" /\ fase' = fase /\ caso' = caso /\ l.passo = "conta"
        /\ condiviso' = [condiviso EXCEPT !.prodotte = IF insieme <= MaxUsize THEN insieme ELSE condiviso.prodotte]
    BY <1>6 DEF Fuzzy!Aggiungi
  <2>2. /\ condiviso'.superato = condiviso.superato /\ condiviso'.prodotte \in Nat
        /\ condiviso'.prodotte <= condiviso.prodotte + l.in_corso
    BY <1>2, <1>3, <2>1
  <2>3. InSospeso(l) = l.in_corso
    BY <2>1 DEF InSospeso
  <2>s. condiviso'.superato => Len(Tutte(caso)) > caso.max_rows
    BY <2>2 DEF InvScansione
  <2>4. CASE insieme <= MaxUsize /\ insieme <= caso.max_rows
    <3> DEFINE nuovo == [l EXCEPT !.passo = "riga", !.in_corso = 0]
    <3>1. lavori' = [lavori EXCEPT ![chunk] = nuovo]
      BY <1>6, <2>4 DEF Fuzzy!Aggiungi
    <3>2. nuovo.uscita = l.uscita /\ nuovo.riga = l.riga /\ nuovo.passo = "riga"
      BY <1>3 DEF ChunkFuzzy
    <3> HIDE DEF nuovo
    <3>3. InSospeso(nuovo) = 0 /\ ChunkFedele(caso, chunk, nuovo)
      BY <1>3, <3>2 DEF InSospeso, ChunkFedele
    <3>4. /\ nuovo.riga \in Int /\ Len(nuovo.uscita) \in Nat /\ InSospeso(nuovo) \in Nat
          /\ Len(l.uscita) - InSospeso(l) <= Len(nuovo.uscita) - InSospeso(nuovo)
          /\ condiviso'.prodotte <= condiviso.prodotte
               + ((Len(nuovo.uscita) - InSospeso(nuovo)) - (Len(l.uscita) - InSospeso(l)))
      BY <1>2, <1>3, <2>2, <2>3, <3>2, <3>3
    <3> QED
      BY <1>2, <2>1, <2>2, <2>s, <3>1, <3>2, <3>3, <3>4, ChunkCheAvanza
  <2>5. CASE ~ (insieme <= MaxUsize /\ insieme <= caso.max_rows)
    <3> DEFINE nuovo == [l EXCEPT !.passo = "segnala"]
    <3>1. lavori' = [lavori EXCEPT ![chunk] = nuovo]
      BY <1>6, <2>5 DEF Fuzzy!Aggiungi
    <3>2. nuovo.uscita = l.uscita /\ nuovo.riga = l.riga /\ nuovo.passo = "segnala"
      BY <1>3 DEF ChunkFuzzy
    <3> HIDE DEF nuovo
    <3>3. InSospeso(nuovo) = 0 /\ ChunkFedele(caso, chunk, nuovo)
      BY <1>3, <3>2 DEF InSospeso, ChunkFedele
    <3>4. /\ nuovo.riga \in Int /\ Len(nuovo.uscita) \in Nat /\ InSospeso(nuovo) \in Nat
          /\ Len(l.uscita) - InSospeso(l) <= Len(nuovo.uscita) - InSospeso(nuovo)
          /\ condiviso'.prodotte <= condiviso.prodotte
               + ((Len(nuovo.uscita) - InSospeso(nuovo)) - (Len(l.uscita) - InSospeso(l)))
      BY <1>2, <1>3, <2>2, <2>3, <3>2, <3>3
    <3>5. Len(Tutte(caso)) > caso.max_rows
      <4>1. insieme > caso.max_rows /\ insieme \in Nat
        BY <1>2, <1>3, <2>5
      <4>2. /\ Cardinality(PostiContati) \in Nat
            /\ Cardinality(PostiContati) + InSospeso(l) <= Len(Tutte(caso))
        BY SospesiNellUscita
      <4>3. condiviso.prodotte <= Cardinality(PostiContati)
        BY DEF InvScansione
      <4>4. Len(Tutte(caso)) \in Nat
        BY PostiDellUscita
      <4> QED
        BY <1>2, <1>3, <2>3, <4>1, <4>2, <4>3, <4>4
    <3> QED
      BY <1>2, <2>1, <2>2, <2>s, <3>1, <3>2, <3>3, <3>4, <3>5, ChunkCheAvanza
  <2> QED
    BY <2>4, <2>5
<1>7. ASSUME NEW chunk \in DOMAIN lavori, Fuzzy!Segnala(chunk) PROVE InvScansione'
  <2> DEFINE l == lavori[chunk]
             nuovo == [l EXCEPT !.passo = "fermo"]
  <2>1. /\ lavori' = [lavori EXCEPT ![chunk] = nuovo]
        /\ fase = "probe" /\ fase' = fase /\ caso' = caso /\ l.passo = "segnala"
        /\ condiviso' = [condiviso EXCEPT !.superato = TRUE]
    BY <1>7 DEF Fuzzy!Segnala
  <2>2. nuovo.uscita = l.uscita /\ nuovo.riga = l.riga /\ nuovo.passo = "fermo"
    BY <1>3 DEF ChunkFuzzy
  <2> HIDE DEF nuovo
  <2>3. InSospeso(nuovo) = 0 /\ InSospeso(l) = 0 /\ ChunkFedele(caso, chunk, nuovo)
    BY <1>3, <2>1, <2>2 DEF InSospeso, ChunkFedele
  <2>4. condiviso'.superato /\ condiviso'.prodotte = condiviso.prodotte
    BY <1>2, <2>1
  <2>5. Len(Tutte(caso)) > caso.max_rows
    BY <2>1 DEF InvScansione
  <2>6. /\ nuovo.riga \in Int /\ Len(nuovo.uscita) \in Nat /\ InSospeso(nuovo) \in Nat
        /\ Len(l.uscita) - InSospeso(l) <= Len(nuovo.uscita) - InSospeso(nuovo)
        /\ condiviso'.prodotte <= condiviso.prodotte
             + ((Len(nuovo.uscita) - InSospeso(nuovo)) - (Len(l.uscita) - InSospeso(l)))
    BY <1>2, <1>3, <2>2, <2>3, <2>4
  <2> QED
    BY <1>2, <2>1, <2>2, <2>3, <2>4, <2>5, <2>6, ChunkCheAvanza
<1> QED
  BY <1>4, <1>5, <1>6, <1>7

\* Where sequences begin depends only on their lengths.
LEMMA IniziUnici ==
    ASSUME NEW n \in Nat, NEW L \in [0 .. n -> Nat], NEW T \in [0 .. n -> Nat], L[0] = T[0],
           NEW d, \A k \in 1 .. n : L[k] = L[k - 1] + d[k] /\ T[k] = T[k - 1] + d[k]
    PROVE  L = T
<1> DEFINE X == {k \in 0 .. n : L[k] # T[k]}
<1>1. X = {}
  <2> SUFFICES ASSUME X # {} PROVE FALSE
    OBVIOUS
  <2>1. PICK k \in X : \A y \in X : k <= y
    <3> HIDE DEF X
    <3>1. X \subseteq Nat
      BY DEF X
    <3> QED
      BY <3>1, MinimoDi
  <2>2. k \in 0 .. n /\ k # 0 /\ L[k] # T[k]
    BY <2>1
  <2>3. k \in 1 .. n /\ k - 1 \in 0 .. n /\ k - 1 \notin X
    BY <2>1, <2>2
  <2>4. L[k - 1] = T[k - 1]
    BY <2>3
  <2> QED
    BY <2>2, <2>3, <2>4
<1> QED
  BY <1>1

\* The output is the outputs of the chunks' rows, in the order of the chunks.
TrattiChunk(c) ==
    [k \in 0 .. QuantiChunk(Len(c.sinistra), c.chunk) |-> IF k = 0 THEN 0 ELSE Prima(c, ADi(c, k))]

LEMMA TrattiInFila ==
    ASSUME NEW c \in CasiFuzzy
    PROVE  LET m == QuantiChunk(Len(c.sinistra), c.chunk)
               T == TrattiChunk(c)
           IN  /\ m \in Nat /\ DOMAIN Fuzzy!Intervalli(c) = 1 .. m
               /\ T \in [0 .. m -> Nat] /\ T[0] = 0 /\ T[m] = Len(Tutte(c))
               /\ \A k \in 1 .. m : T[k - 1] = Prima(c, DaDi(c, k) - 1) /\ T[k] = Prima(c, ADi(c, k))
<1> DEFINE n == Len(c.sinistra)
           d == c.chunk
           m == QuantiChunk(n, d)
           T == TrattiChunk(c)
<1>1. n \in Nat /\ d \in Nat \ {0} /\ DOMAIN Fuzzy!Intervalli(c) = 1 .. m
  BY ChunkFuzzyInFila
<1>2. T = [k \in 0 .. m |-> IF k = 0 THEN 0 ELSE Prima(c, ADi(c, k))]
  BY DEF TrattiChunk
<1>3. /\ Prima(c, 0) = 0 /\ Prima(c, n) = Len(Tutte(c)) /\ \A i \in 0 .. n : Prima(c, i) \in Nat
  BY PrimaDelleRighe
<1> HIDE DEF n, d, T
<1>4. /\ m \in Nat /\ (m = 0 <=> n = 0)
      /\ \A k \in 1 .. m : ARiga(n, d, k) \in Nat /\ ARiga(n, d, k) <= n
      /\ DaRiga(d, 1) = 1
      /\ m # 0 => ARiga(n, d, m) = n
      /\ \A k \in 1 .. m : k # 1 => k - 1 \in 1 .. m /\ DaRiga(d, k) = ARiga(n, d, k - 1) + 1
  BY <1>1, ChunkInFila
<1>5. \A k : ADi(c, k) = ARiga(n, d, k) /\ DaDi(c, k) = DaRiga(d, k)
  BY DEF ADi, DaDi, n, d
<1> HIDE DEF m
<1>6. ASSUME NEW k \in 1 .. m PROVE Prima(c, ADi(c, k)) \in Nat
  <2>1. ARiga(n, d, k) \in 0 .. n
    BY <1>1, <1>4
  <2> QED
    BY <1>3, <1>5, <2>1
<1>7. T \in [0 .. m -> Nat]
  <2>1. ASSUME NEW k \in 0 .. m PROVE (IF k = 0 THEN 0 ELSE Prima(c, ADi(c, k))) \in Nat
    <3>1. k = 0 \/ k \in 1 .. m
      BY <1>4
    <3> QED
      BY <1>6, <3>1
  <2> QED
    BY <1>2, <2>1
<1>8. T[0] = 0
  BY <1>2, <1>4
<1>9. \A k \in 1 .. m : T[k] = Prima(c, ADi(c, k))
  <2>1. ASSUME NEW k \in 1 .. m PROVE T[k] = Prima(c, ADi(c, k))
    <3>1. k \in 0 .. m /\ k # 0
      BY <1>4
    <3> QED
      BY <1>2, <3>1
  <2> QED
    BY <2>1
<1>10. T[m] = Len(Tutte(c))
  <2>1. CASE m = 0
    BY <1>3, <1>4, <1>8, <2>1
  <2>2. CASE m # 0
    <3>1. m \in 1 .. m /\ ADi(c, m) = n
      BY <1>4, <1>5, <2>2
    <3> QED
      BY <1>3, <1>9, <3>1
  <2> QED
    BY <2>1, <2>2
<1>11. ASSUME NEW k \in 1 .. m PROVE T[k - 1] = Prima(c, DaDi(c, k) - 1)
  <2>1. CASE k = 1
    <3>1. k - 1 = 0 /\ DaDi(c, k) - 1 = 0
      BY <1>4, <1>5, <2>1
    <3> QED
      BY <1>3, <1>8, <3>1
  <2>2. CASE k # 1
    <3>1. k - 1 \in 1 .. m /\ DaRiga(d, k) = ARiga(n, d, k - 1) + 1
      BY <1>4, <2>2
    <3>2. ARiga(n, d, k - 1) \in Nat
      BY <1>4, <3>1
    <3>3. DaDi(c, k) - 1 = ADi(c, k - 1)
      BY <1>5, <3>1, <3>2
    <3>4. T[k - 1] = Prima(c, ADi(c, k - 1))
      BY <1>9, <3>1
    <3> QED
      BY <3>3, <3>4
  <2> QED
    BY <2>1, <2>2
<1> QED
  BY <1>1, <1>4, <1>7, <1>8, <1>9, <1>10, <1>11 DEF m, n, d, T

\* When the chunks have done all their rows, their outputs in order are the output.
LEMMA ChunkInOrdine ==
    ASSUME InvFuzzy, InvScansione, \A k \in DOMAIN lavori : lavori[k].riga = ADi(caso, k) + 1
    PROVE  FlattenSeq([k \in DOMAIN lavori |-> lavori[k].uscita]) = Tutte(caso)
<1> DEFINE m == QuantiChunk(Len(caso.sinistra), caso.chunk)
           T == TrattiChunk(caso)
           s == [k \in DOMAIN lavori |-> lavori[k].uscita]
           L == Inizi(s)
           t == FlattenSeq(s)
           u == Tutte(caso)
<1>1. caso \in CasiFuzzy
  BY DEF InvFuzzy
<1>2. PICK V : lavori \in [DOMAIN Fuzzy!Intervalli(caso) -> ChunkFuzzy(V)]
  BY DEF InvFuzzy, ChunkFuzzy
<1>3. /\ m \in Nat /\ DOMAIN Fuzzy!Intervalli(caso) = 1 .. m
      /\ T \in [0 .. m -> Nat] /\ T[0] = 0 /\ T[m] = Len(Tutte(caso))
      /\ \A k \in 1 .. m : T[k - 1] = Prima(caso, DaDi(caso, k) - 1) /\ T[k] = Prima(caso, ADi(caso, k))
  BY <1>1, TrattiInFila
<1> HIDE DEF m, T
<1>4. DOMAIN lavori = 1 .. m
  BY <1>2, <1>3
<1>5. s \in [1 .. m -> Seq(V)]
  BY <1>2, <1>3 DEF ChunkFuzzy
<1>6. ASSUME NEW k \in 1 .. m
      PROVE  /\ s[k] = lavori[k].uscita /\ Len(s[k]) \in Nat
             /\ Len(s[k]) = T[k] - T[k - 1]
             /\ \A j \in Nat : 1 <= j /\ j <= Len(s[k]) => u[T[k - 1] + j] = s[k][j]
  <2>1. s[k] = lavori[k].uscita
    BY <1>4
  <2>2. ChunkFedele(caso, k, lavori[k]) /\ lavori[k].riga = ADi(caso, k) + 1
    BY <1>4 DEF InvScansione
  <2>3. ADi(caso, k) \in Nat
    BY <1>1, <1>3, EstremiDelChunk
  <2>4. lavori[k].riga - 1 = ADi(caso, k)
    BY <2>2, <2>3
  <2>5. Len(lavori[k].uscita) = Prima(caso, ADi(caso, k)) - Prima(caso, DaDi(caso, k) - 1)
    BY <2>2, <2>4 DEF ChunkFedele
  <2>6. \A j \in Nat : 1 <= j /\ j <= Len(lavori[k].uscita) =>
           lavori[k].uscita[j] = Tutte(caso)[Prima(caso, DaDi(caso, k) - 1) + j]
    BY <2>2 DEF ChunkFedele
  <2>7. Len(s[k]) \in Nat
    BY <1>5, LenProperties
  <2>8. T[k - 1] = Prima(caso, DaDi(caso, k) - 1) /\ T[k] = Prima(caso, ADi(caso, k))
    BY <1>3
  <2> HIDE DEF s
  <2>9. Len(s[k]) = T[k] - T[k - 1]
    BY <2>1, <2>5, <2>8
  <2>10. \A j \in Nat : 1 <= j /\ j <= Len(s[k]) => u[T[k - 1] + j] = s[k][j]
    BY <2>1, <2>6, <2>8
  <2> QED
    BY <2>1, <2>7, <2>9, <2>10
<1> HIDE DEF s
<1>7. t \in Seq(V) /\ Distese(s, m, L, t)
  BY <1>3, <1>5, FlattenDistese
<1> HIDE DEF t, L
<1>8. L = T
  <2> DEFINE d == [k \in 1 .. m |-> Len(s[k])]
  <2>1. L \in [0 .. m -> Nat] /\ L[0] = 0 /\ \A k \in 1 .. m : L[k] = L[k - 1] + Len(s[k])
    BY <1>7 DEF Distese
  <2>2. ASSUME NEW k \in 1 .. m PROVE T[k] = T[k - 1] + Len(s[k])
    <3>1. k \in 0 .. m /\ k - 1 \in 0 .. m
      BY <1>3
    <3>2. T[k] \in Nat /\ T[k - 1] \in Nat
      BY <1>3, <3>1
    <3> QED
      BY <1>6, <3>2
  <2>3. \A k \in 1 .. m : L[k] = L[k - 1] + d[k] /\ T[k] = T[k - 1] + d[k]
    BY <2>1, <2>2
  <2>4. m \in Nat /\ T \in [0 .. m -> Nat] /\ L[0] = T[0]
    BY <1>3, <2>1
  <2>5. L \in [0 .. m -> Nat]
    BY <2>1
  <2> HIDE DEF d
  <2> QED
    BY <2>3, <2>4, <2>5, IniziUnici
<1>9. PICK W : u \in Seq(W)
  BY <1>1, FuzzyDistesa
<1>10. Len(u) = L[m] /\ m \in Nat
  BY <1>3, <1>8
<1>11. \A k \in 1 .. m, j \in Nat : 1 <= j /\ j <= Len(s[k]) => u[L[k - 1] + j] = s[k][j]
  BY <1>6, <1>8
<1> HIDE DEF u
<1>12. Distese(s, m, L, u)
  BY <1>7, <1>10, <1>11 DEF Distese
<1>13. u = t
  <2>1. m \in Nat
    BY <1>10
  <2>2. t \in Seq(V)
    BY <1>7
  <2>3. Distese(s, m, L, t)
    BY <1>7
  <2> QED
    BY <1>5, <1>9, <1>12, <2>1, <2>2, <2>3, DisteseUniche
<1> QED
  BY <1>13 DEF u, t, s

\* When the chunks have done and counted all their rows, every place of the output
\* is counted.
LEMMA TutteContate ==
    ASSUME InvFuzzy, InvScansione,
           \A k \in DOMAIN lavori : lavori[k].riga = ADi(caso, k) + 1 /\ lavori[k].in_corso = 0
    PROVE  Len(Tutte(caso)) <= caso.max_rows
<1> DEFINE D == DOMAIN lavori
           m == QuantiChunk(Len(caso.sinistra), caso.chunk)
           T == TrattiChunk(caso)
           S == Fuzzy!RigheContate
           N == Len(Tutte(caso))
           R == 1 .. N
           f == [x \in S |-> T[x[1] - 1] + x[2]]
<1>1. caso \in CasiFuzzy /\ N \in Nat
  BY PostiDellUscita DEF InvFuzzy
<1>2. /\ m \in Nat /\ DOMAIN Fuzzy!Intervalli(caso) = 1 .. m
      /\ T \in [0 .. m -> Nat] /\ T[0] = 0 /\ T[m] = N
      /\ \A k \in 1 .. m : T[k - 1] = Prima(caso, DaDi(caso, k) - 1) /\ T[k] = Prima(caso, ADi(caso, k))
  BY <1>1, TrattiInFila
<1>3. D = 1 .. m
  BY <1>2 DEF InvFuzzy
<1> HIDE DEF m, T
<1>4. ASSUME NEW k \in D
      PROVE  /\ k \in 1 .. m /\ T[k - 1] \in Nat /\ T[k] \in Nat /\ T[k] <= N
             /\ Len(lavori[k].uscita) \in Nat /\ T[k] = T[k - 1] + Len(lavori[k].uscita)
             /\ lavori[k].in_corso = 0
  <2>1. k \in 1 .. m /\ k - 1 \in 0 .. m /\ k \in 0 .. m
    BY <1>2, <1>3
  <2>2. T[k - 1] \in Nat /\ T[k] \in Nat
    BY <1>2, <2>1
  <2>3. ADi(caso, k) \in Nat
    BY <1>1, <1>2, <2>1, EstremiDelChunk
  <2>4. lavori[k].riga - 1 = ADi(caso, k) /\ lavori[k].in_corso = 0
    BY <2>3
  <2>5. /\ Len(lavori[k].uscita) \in Nat
        /\ PrimaDiOgni[k] = Prima(caso, DaDi(caso, k) - 1)
        /\ PrimaDiOgni[k] + Len(lavori[k].uscita) = Prima(caso, lavori[k].riga - 1)
        /\ Prima(caso, ADi(caso, k)) <= N
    BY PostiDellUscita
  <2>6. T[k - 1] = Prima(caso, DaDi(caso, k) - 1) /\ T[k] = Prima(caso, ADi(caso, k))
    BY <1>2, <2>1
  <2> QED
    BY <2>1, <2>2, <2>4, <2>5, <2>6
<1>5. ASSUME NEW x \in S PROVE f[x] \in R
  <2>1. PICK k \in D : x \in {k} \X (1 .. Len(lavori[k].uscita) - lavori[k].in_corso)
    BY DEF Fuzzy!RigheContate
  <2>2. x[1] = k /\ x[2] \in 1 .. Len(lavori[k].uscita)
    BY <1>4, <2>1
  <2>3. f[x] = T[k - 1] + x[2]
    BY <2>2
  <2> HIDE DEF f
  <2> QED
    BY <1>1, <1>4, <2>2, <2>3
<1>6. ASSUME NEW p \in R PROVE \E x \in S : f[x] = p
  <2>1. p \in Nat /\ 1 <= p /\ p <= T[m]
    BY <1>1, <1>2
  <2>2. PICK k \in 1 .. m : T[k - 1] < p /\ p <= T[k]
    BY <1>2, <2>1, TrattoDi
  <2>3. k \in D
    BY <1>3
  <2> DEFINE j == p - T[k - 1]
  <2>4. j \in 1 .. Len(lavori[k].uscita) - lavori[k].in_corso /\ T[k - 1] + j = p
    BY <1>4, <2>1, <2>2, <2>3
  <2> HIDE DEF j
  <2>5. <<k, j>> \in S
    BY <2>3, <2>4 DEF Fuzzy!RigheContate
  <2> HIDE DEF S
  <2>6. f[<<k, j>>] = T[k - 1] + j
    BY <2>5
  <2> QED
    BY <2>4, <2>5, <2>6
<1>7. f \in [S -> R]
  <2> HIDE DEF S, R
  <2> QED
    BY <1>5
<1> HIDE DEF f, R
<1>8. f \in Surjection(S, R)
  BY <1>6, <1>7 DEF Surjection
<1>9. IsFiniteSet(S) /\ Cardinality(S) <= caso.max_rows
  BY DEF InvFuzzy
<1> HIDE DEF S
<1>10. Cardinality(R) <= Cardinality(S)
  BY <1>8, <1>9, FS_Surjection
<1>11. Cardinality(R) = N
  <2> HIDE DEF N
  <2>1. Cardinality(1 .. N) = IF 1 > N THEN 0 ELSE N - 1 + 1
    BY <1>1, FS_Interval
  <2> QED
    BY <1>1, <2>1 DEF R
<1>12. Cardinality(S) \in Nat /\ caso.max_rows \in Nat
  BY <1>1, <1>9, FS_CardinalityType, CasiAssunti, LimitiAssunti
<1> HIDE DEF N
<1>13. N <= caso.max_rows
  BY <1>1, <1>9, <1>10, <1>11, <1>12
<1> QED
  BY <1>13 DEF N

LEMMA ConcatenaScansione ==
    ASSUME InvFuzzy, InvScansione, Fuzzy!Concatena
    PROVE  InvScansione'
<1> DEFINE s == [k \in DOMAIN lavori |-> lavori[k].uscita]
<1>1. /\ fase = "probe" /\ fase' = "fine" /\ UNCHANGED <<caso, lavori, condiviso>>
      /\ \A k \in DOMAIN lavori : Fuzzy!Finito(k)
      /\ esito' = IF condiviso.superato THEN Fuzzy!Limite ELSE Fuzzy!Righe(Fuzzy!FlattenSeq(s))
  BY DEF Fuzzy!Concatena
<1>2. caso \in CasiFuzzy /\ caso.max_rows \in Nat /\ Len(Tutte(caso)) \in Nat
  BY CasiAssunti, LimitiAssunti, PostiDellUscita DEF InvFuzzy
<1>3. ~ Fuzzy!TroppoGrande(caso)
  BY <1>1 DEF InvScansione
<1>4. Fuzzy!Scansione(caso) = IF Len(Tutte(caso)) > caso.max_rows THEN Fuzzy!Limite
                              ELSE Fuzzy!Righe(Tutte(caso))
  BY <1>2, <1>3, ScansioneDi
<1>5. esito' = Fuzzy!Scansione(caso)
  <2>1. CASE condiviso.superato
    <3>1. Len(Tutte(caso)) > caso.max_rows
      BY <2>1 DEF InvScansione
    <3> QED
      BY <1>1, <1>4, <2>1, <3>1
  <2>2. CASE ~ condiviso.superato
    <3>1. ASSUME NEW k \in DOMAIN lavori
          PROVE  lavori[k].riga = ADi(caso, k) + 1 /\ lavori[k].in_corso = 0
      <4>1. lavori[k].passo # "fermo" /\ ChunkFedele(caso, k, lavori[k])
        BY <2>2 DEF InvScansione
      <4>2. k \in DOMAIN Fuzzy!Intervalli(caso) /\ lavori[k].riga \in Int
        BY PostiDellUscita
      <4>3. lavori[k].passo = "riga" /\ lavori[k].riga > Fuzzy!Intervalli(caso)[k].a
        BY <1>1, <4>1 DEF Fuzzy!Finito
      <4>4. Fuzzy!Intervalli(caso)[k].a = ADi(caso, k) /\ ADi(caso, k) \in Nat
        BY <1>2, <4>2, EstremiDelChunk
      <4>5. lavori[k].riga <= ADi(caso, k) + 1
        BY <4>1 DEF ChunkFedele
      <4>6. lavori[k].in_corso = 0
        BY <4>3 DEF InvFuzzy
      <4> QED
        BY <4>2, <4>3, <4>4, <4>5, <4>6
    <3>2. Len(Tutte(caso)) <= caso.max_rows
      BY <3>1, TutteContate
    <3>3. FlattenSeq(s) = Tutte(caso)
      BY <3>1, ChunkInOrdine
    <3> HIDE DEF s
    <3>4. Fuzzy!FlattenSeq(s) = FlattenSeq(s)
      BY DEF Fuzzy!FlattenSeq, FlattenSeq
    <3>5. ~ (Len(Tutte(caso)) > caso.max_rows)
      BY <1>2, <3>2
    <3> QED
      BY <1>1, <1>4, <2>2, <3>3, <3>4, <3>5
  <2> QED
    BY <2>1, <2>2
<1>6. PostiContati' = PostiContati
  BY <1>1 DEF PostiContati, PrimaDiOgni, ContateDiOgni, InSospeso
<1>7. Tutte(caso)' = Tutte(caso) /\ Fuzzy!Scansione(caso)' = Fuzzy!Scansione(caso)
  BY <1>1
<1>8. \A k \in DOMAIN lavori : ChunkFedele(caso, k, lavori[k])' = ChunkFedele(caso, k, lavori[k])
  BY <1>1 DEF ChunkFedele
<1> QED
  BY <1>1, <1>5, <1>6, <1>7, <1>8 DEF InvScansione

\* A call of the fuzzy join, with what it has to return.
InvKernelFuzzy == InvKernel /\ (caso.kernel = "fuzzy" => InvScansione)

LEMMA InitKernel_Fuzzy == InitKernel => InvKernelFuzzy
<1> SUFFICES ASSUME InitKernel PROVE InvKernelFuzzy
  OBVIOUS
<1>1. InvKernel
  BY InitKernel_Inv
<1>2. ASSUME caso.kernel = "fuzzy" PROVE InvScansione
  <2>1. ASSUME NEW c \in CasiFuzzy, Fuzzy!InitFuzzy(c) PROVE InvScansione
    BY <2>1, InitFuzzy_Scansione
  <2>2. ASSUME NEW c \in CasiJoin, Join!InitJoin(c) PROVE FALSE
    BY <1>2, <2>2, NomiDeiKernel, InitJoin_Inv DEF InvJoin
  <2>3. ASSUME NEW c \in CasiSpaziali, Spaz!InitSpaziale(c) PROVE FALSE
    BY <1>2, <2>3, NomiDeiKernel DEF Spaz!InitSpaziale
  <2>4. ASSUME NEW c \in CasiVicini, Vic!InitVicini(c) PROVE FALSE
    BY <1>2, <2>4, NomiDeiKernel DEF Vic!InitVicini
  <2>5. ASSUME NEW c \in CasiDbscan, Dbs!InitDbscan(c) PROVE FALSE
    BY <1>2, <2>5, NomiDeiKernel DEF Dbs!InitDbscan
  <2> QED
    BY <2>1, <2>2, <2>3, <2>4, <2>5 DEF InitKernel
<1> QED
  BY <1>1, <1>2 DEF InvKernelFuzzy

LEMMA NextKernel_Fuzzy == InvKernelFuzzy /\ [NextKernel]_varsKernel => InvKernelFuzzy'
<1> SUFFICES ASSUME InvKernelFuzzy, [NextKernel]_varsKernel PROVE InvKernelFuzzy'
  OBVIOUS
<1>1. InvKernel /\ InvKernel'
  BY NextKernel_Inv DEF InvKernelFuzzy
<1>2. ASSUME caso'.kernel = "fuzzy" PROVE InvScansione'
  <2>1. CASE UNCHANGED varsKernel
    <3>1. UNCHANGED <<caso, fase, lavori, condiviso, esito>>
      BY <2>1 DEF varsKernel
    <3>2. InvScansione
      BY <1>2, <3>1 DEF InvKernelFuzzy
    <3>3. PostiContati' = PostiContati
      BY <3>1 DEF PostiContati, PrimaDiOgni, ContateDiOgni, InSospeso
    <3>4. /\ Tutte(caso)' = Tutte(caso) /\ Fuzzy!Scansione(caso)' = Fuzzy!Scansione(caso)
          /\ Fuzzy!TroppoGrande(caso)' = Fuzzy!TroppoGrande(caso)
      BY <3>1
    <3>5. \A k \in DOMAIN lavori : ChunkFedele(caso, k, lavori[k])' = ChunkFedele(caso, k, lavori[k])
      BY <3>1 DEF ChunkFedele
    <3> QED
      BY <3>1, <3>2, <3>3, <3>4, <3>5 DEF InvScansione
  <2>2. CASE caso.kernel = "fuzzy" /\ Fuzzy!NextFuzzy
    <3>1. InvFuzzy /\ InvScansione
      BY <2>2, <1>1 DEF InvKernel, InvKernelFuzzy
    <3> QED
      BY <2>2, <3>1, PassoScansione, ConcatenaScansione DEF Fuzzy!NextFuzzy
  <2>3. CASE caso.kernel = "join" /\ Join!NextJoin
    <3>1. InvJoin'
      BY <2>3, <1>1, PassoJoin DEF InvKernel
    <3> QED
      BY <1>2, <3>1, NomiDeiKernel DEF InvJoin
  <2>4. CASE caso.kernel = "spaziale" /\ Spaz!NextSpaziale
    <3>1. InvSpaziale'
      BY <2>4, <1>1, PassoSpaziale DEF InvKernel
    <3> QED
      BY <1>2, <3>1, NomiDeiKernel DEF InvSpaziale
  <2>5. CASE caso.kernel = "vicini" /\ Vic!NextVicini
    <3>1. InvVicini'
      BY <2>5, <1>1, PassoVicini DEF InvKernel
    <3> QED
      BY <1>2, <3>1, NomiDeiKernel DEF InvVicini
  <2>6. CASE caso.kernel = "dbscan" /\ Dbs!NextDbscan
    <3>1. caso' = caso
      BY <2>6 DEF Dbs!NextDbscan, Dbs!Prepara, Dbs!Visita, Dbs!Espande, Dbs!Riporta
    <3> QED
      BY <1>2, <2>6, <3>1
  <2> QED
    BY <2>1, <2>2, <2>3, <2>4, <2>5, <2>6 DEF NextKernel
<1> QED
  BY <1>1, <1>2 DEF InvKernelFuzzy

\* A fuzzy join returns what one thread would, whatever the chunks, the limits and
\* the interleaving of the threads: the same rows in the same order, or the limit
\* exactly when their total exceeds it.
THEOREM FuzzyComeUnThread == SpecKernel => []FuzzyComeScansione
<1>1. InvKernelFuzzy => FuzzyComeScansione
  BY DEF InvKernelFuzzy, InvScansione, FuzzyComeScansione, Finito
<1> QED
  BY <1>1, InitKernel_Fuzzy, NextKernel_Fuzzy, PTL DEF SpecKernel
=============================================================================
