--------------------------- MODULE ArtefattiProofs ---------------------------
(***************************************************************************)
(* The effect, the retry class and the interruption of data.run 3, for     *)
(* every request: any number of sources and of destinations.               *)
(***************************************************************************)
EXTENDS Artefatti, ErroriProofs, FiniteSetTheorems

Prima == {"richiesta", "prepara", "cartella", "sorgenti", "esecuzione", "impronte"}
Punti == Prima \cup {"pubblica", "risolutore", "pulizia", "fine"}

N == Len(r.outputs)

TipiArt ==
    /\ r \in Richieste
    /\ pc \in Punti
    /\ i \in Nat \ {0}
    /\ cartella \in {"assente", "presente", "rimasta"}
    /\ artefatti \in [1 .. N -> Contenuti]
    /\ annullato \in BOOLEAN /\ scaduto \in BOOLEAN
    /\ concesse \in Nat

\* The outputs before the i-th are published, the others untouched.
Ordine ==
    /\ pc \in Prima => \A k \in 1 .. N : artefatti[k] = "prima"
    /\ pc \in {"impronte", "pubblica", "risolutore", "pulizia"} => N > 0
    /\ pc \in {"impronte", "risolutore"} => i <= N
    /\ pc \in {"pubblica", "risolutore"} =>
         /\ i <= N + 1
         /\ \A k \in 1 .. N : artefatti[k] = IF k < i THEN "intero" ELSE "prima"
    /\ pc = "pulizia" => \A k \in 1 .. N : artefatti[k] = "intero"

\* What an error says is true of the destinations.
ErroreVero(e) ==
    /\ Forma(e)
    /\ remote_effect(e) # "rolled_back"
    /\ remote_effect(e) = "none" => \A k \in 1 .. N : artefatti[k] = "prima"
    /\ remote_effect(e) = "partial" =>
         /\ \E k \in 1 .. N : artefatti[k] # "prima"
         /\ \E k \in 1 .. N : artefatti[k] # "intero"
    /\ remote_effect(e) = "committed" => \A k \in 1 .. N : artefatti[k] = "intero"
    /\ remote_effect(e) = "unknown" => \A k \in 1 .. (i - 1) : artefatti[k] = "intero"
    /\ phase(e) = "cleanup" => remote_effect(e) = "committed"

EsitoVero ==
    /\ pc # "fine" => esito = InCorso
    /\ pc = "fine" =>
         \/ /\ esito = Reso(r.outputs) /\ cartella = "assente"
            /\ \A k \in 1 .. N : artefatti[k] = "intero"
         \/ esito.stato = "errore" /\ ErroreVero(esito.errore)

\* After the interruption at most the publication under way is completed.
Concesse ==
    Interrotta =>
        Cardinality(Toccate) + (IF pc = "risolutore" THEN 1 ELSE 0) <= concesse

InvArt == TipiArt /\ Ordine /\ EsitoVero


-----------------------------------------------------------------------------
(* Steps *)

LEMMA FasiDelleCause ==
    ASSUME NEW c
    PROVE  FaseDellaCausa(c) # "cleanup"
  BY DEF FaseDellaCausa

LEMMA Richiesta ==
    ASSUME TipiArt
    PROVE  /\ N \in Nat /\ DOMAIN r.outputs = 1 .. N /\ Uscite = 1 .. N
           /\ r.difetto \in Difetti
           /\ r.outputs \in Seq(STRING) /\ r.sorgenti \in Seq(SUBSET Controlli)
           /\ i \in Nat /\ i >= 1 /\ i - 1 \in Nat
<1>1. r.outputs \in Seq(STRING)
  BY RichiesteAssunte DEF TipiArt
<1>2. N \in Nat /\ DOMAIN r.outputs = 1 .. N
  BY <1>1 DEF N
<1> QED
  BY <1>1, <1>2, RichiesteAssunte DEF TipiArt, Uscite

\* An early return with a true error.
LEMMA PassoErrato ==
    ASSUME InvArt, pc # "fine", NEW e, Fallisce(e), ErroreVero(e)',
           artefatti' \in [1 .. N -> Contenuti], UNCHANGED mondo
    PROVE  InvArt'
<1>1. /\ pc' = "fine" /\ esito' = [stato |-> "errore", errore |-> e]
      /\ cartella' \in {"assente", "presente", "rimasta"}
      /\ UNCHANGED <<r, i>>
  BY DEF Fallisce, InvArt, TipiArt
<1>2. N' = N
  BY <1>1 DEF N
<1>3. TipiArt'
  BY <1>1, <1>2 DEF InvArt, TipiArt, Punti, mondo
<1>4. Ordine'
  BY <1>1 DEF Ordine, Prima
<1>5. EsitoVero'
  <2>1. esito'.stato = "errore" /\ esito'.errore = e
    BY <1>1
  <2> QED
    BY <1>1, <2>1 DEF EsitoVero
<1> QED
  BY <1>3, <1>4, <1>5 DEF InvArt

\* An early return before anything was published.
LEMMA PassoErratoPrima ==
    ASSUME InvArt, pc \in Prima, NEW e, Fallisce(e), UNCHANGED <<artefatti, mondo>>,
           Forma(e), remote_effect(e) = "none", phase(e) # "cleanup"
    PROVE  InvArt'
<1>1. UNCHANGED <<r, i>>
  BY DEF Fallisce
<1>2. N' = N
  BY <1>1 DEF N
<1>3. \A k \in 1 .. N : artefatti[k] = "prima"
  BY DEF InvArt, Ordine
<1>4. ErroreVero(e)'
  BY <1>1, <1>2, <1>3 DEF ErroreVero
<1>5. artefatti' \in [1 .. N -> Contenuti] /\ pc # "fine"
  BY DEF InvArt, TipiArt, Prima
<1> QED
  BY <1>4, <1>5, PassoErrato

\* A step forward that touches no destination.
LEMMA PassoAvanti ==
    ASSUME InvArt, NEW p, NEW j \in Nat \ {0}, Va(p, j), pc # "fine",
           cartella' \in {"assente", "presente", "rimasta"},
           UNCHANGED <<artefatti, mondo>>,
           \/ p \in Prima /\ pc \in Prima /\ (p = "impronte" => j <= N)
           \/ p = "pubblica" /\ pc = "impronte" /\ j = 1
           \/ p = "risolutore" /\ pc = "pubblica" /\ j = i /\ i <= N
           \/ p = "pulizia" /\ pc = "pubblica" /\ i > N,
           p \in {"impronte", "pubblica"} => N > 0
    PROVE  InvArt'
<1>1. pc' = p /\ i' = j /\ UNCHANGED <<r, esito>>
  BY DEF Va
<1>2. N' = N /\ N \in Nat /\ i \in Nat
  BY <1>1, Richiesta DEF N, InvArt
<1>3. TipiArt'
  BY <1>1, <1>2 DEF InvArt, TipiArt, Punti, mondo
<1>4. EsitoVero'
  BY <1>1 DEF InvArt, EsitoVero, Prima
<1>5. CASE p \in Prima /\ pc \in Prima /\ (p = "impronte" => j <= N)
  <2>1. \A k \in 1 .. N : artefatti[k] = "prima"
    BY <1>5 DEF InvArt, Ordine
  <2>2. Ordine'
    BY <1>1, <1>2, <1>5, <2>1 DEF Ordine, Prima
  <2> QED
    BY <1>3, <1>4, <2>2 DEF InvArt
<1>6. CASE p = "pubblica" /\ pc = "impronte" /\ j = 1
  <2>1. \A k \in 1 .. N : artefatti[k] = "prima" /\ ~ (k < 1)
    BY <1>6 DEF InvArt, Ordine, Prima
  <2>2. Ordine'
    BY <1>1, <1>2, <1>6, <2>1 DEF Ordine, Prima
  <2> QED
    BY <1>3, <1>4, <2>2 DEF InvArt
<1>7. CASE p = "risolutore" /\ pc = "pubblica" /\ j = i /\ i <= N
  <2>1. N > 0 /\ \A k \in 1 .. N : artefatti[k] = IF k < i THEN "intero" ELSE "prima"
    BY <1>7 DEF InvArt, Ordine
  <2>2. Ordine'
    BY <1>1, <1>2, <1>7, <2>1 DEF Ordine, Prima
  <2> QED
    BY <1>3, <1>4, <2>2 DEF InvArt
<1>8. CASE p = "pulizia" /\ pc = "pubblica" /\ i > N
  <2>1. N > 0 /\ \A k \in 1 .. N : artefatti[k] = "intero"
    BY <1>2, <1>8 DEF InvArt, Ordine
  <2>2. Ordine'
    BY <1>1, <1>2, <1>8, <2>1 DEF Ordine, Prima
  <2> QED
    BY <1>3, <1>4, <2>2 DEF InvArt
<1> QED
  BY <1>5, <1>6, <1>7, <1>8

\* An error of the publication that has published the outputs before the i-th.
LEMMA ErroreInPubblicazione ==
    ASSUME InvArt, pc \in {"pubblica", "risolutore"}, i <= N, NEW c \in Cause
    PROVE  LET e == with_remote_effect(with_phase(Nudo(c), "write"), EffettoFinora)
           IN ErroreVero(e)
<1> DEFINE e == with_remote_effect(with_phase(Nudo(c), "write"), EffettoFinora)
<1>1. EffettoFinora \in Effetti /\ "write" \in Fasi
  BY DEF EffettoFinora, Effetti, Fasi
<1>2. /\ Forma(e) /\ phase(e) = "write"
      /\ remote_effect(e) = IF i = 1 THEN "none" ELSE "partial"
  BY <1>1, ErroreDelConfine DEF EffettoFinora
<1> HIDE DEF e
<1>3. N \in Nat /\ i \in Nat /\ i >= 1
  BY Richiesta DEF InvArt
<1>4. /\ \A k \in 1 .. N : artefatti[k] = IF k < i THEN "intero" ELSE "prima"
      /\ i \in 1 .. N /\ 1 \in 1 .. N
  BY <1>3 DEF InvArt, Ordine
<1>5. CASE i = 1
  <2>1. \A k \in 1 .. N : artefatti[k] = "prima"
    BY <1>3, <1>4, <1>5
  <2> QED
    BY <1>2, <1>5, <2>1 DEF ErroreVero, e
<1>6. CASE i # 1
  <2>1. artefatti[1] = "intero" /\ artefatti[i] = "prima"
    BY <1>3, <1>4, <1>6
  <2> QED
    BY <1>2, <1>4, <1>6, <2>1 DEF ErroreVero, e
<1> QED
  BY <1>5, <1>6


LEMMA PassoPubblica ==
    ASSUME InvArt, NEW f \in {"nessuno", "NienteScritto", "Parziale", "Ignoto"},
           NEW dopo \in Contenuti, NEW causa \in CauseDelRisolutore,
           Pubblica(f, dopo, causa)
    PROVE  InvArt'
<1>1. /\ pc = "risolutore" /\ UNCHANGED mondo /\ artefatti' = [artefatti EXCEPT ![i] = dopo]
      /\ RisolutorePubblica(f, dopo)
  BY DEF Pubblica, RisolutorePubblica
<1>2. N \in Nat /\ i \in Nat /\ i >= 1 /\ i <= N /\ N > 0 /\ i \in 1 .. N
  BY <1>1, Richiesta DEF InvArt, Ordine
<1>3. /\ artefatti \in [1 .. N -> Contenuti] /\ artefatti' \in [1 .. N -> Contenuti]
      /\ artefatti'[i] = dopo
      /\ \A k \in 1 .. N : k # i => artefatti'[k] = artefatti[k]
  BY <1>1, <1>2 DEF InvArt, TipiArt
<1>4. \A k \in 1 .. N : artefatti[k] = IF k < i THEN "intero" ELSE "prima"
  BY <1>1 DEF InvArt, Ordine
<1>5. causa \in Cause /\ "write" \in Fasi
  BY CauseAssunte DEF Cause, Fasi
<1>6. ASSUME NEW x, NEW e, e = with_remote_effect(with_phase(Nudo(causa), "write"), x),
             Fallisce(e), ErroreVero(e)'
      PROVE  InvArt'
  BY <1>1, <1>3, <1>6, PassoErrato
<1>7. CASE f = "nessuno"
  <2>1. /\ pc' = "pubblica" /\ i' = i + 1 /\ dopo = "intero"
        /\ UNCHANGED <<r, esito, cartella>>
    BY <1>1, <1>7 DEF Pubblica, RisolutorePubblica, Va
  <2>2. N' = N
    BY <2>1 DEF N
  <2>3. TipiArt'
    BY <1>1, <1>2, <1>3, <2>1, <2>2 DEF InvArt, TipiArt, Punti, mondo
  <2>4. EsitoVero'
    BY <1>1, <2>1 DEF InvArt, EsitoVero
  <2>5. ASSUME NEW k \in 1 .. N
        PROVE  artefatti'[k] = IF k < i' THEN "intero" ELSE "prima"
    <3>1. CASE k = i
      BY <1>2, <1>3, <2>1, <3>1
    <3>2. CASE k # i
      <4>1. k < i' <=> k < i
        BY <1>2, <2>1, <3>2
      <4> QED
        BY <1>3, <1>4, <3>2, <4>1
    <3> QED
      BY <3>1, <3>2
  <2>6. Ordine'
    BY <1>2, <2>1, <2>2, <2>5 DEF Ordine, Prima
  <2> QED
    BY <2>3, <2>4, <2>6 DEF InvArt
<1>8. CASE f # "nessuno"
  <2>1. PICK x : x = EffettoDelFallimento(f)
    OBVIOUS
  <2>2. PICK e : e = with_remote_effect(with_phase(Nudo(causa), "write"), x)
    OBVIOUS
  <2>3. Fallisce(e)
    BY <1>8, <2>1, <2>2 DEF Pubblica
  <2>4. UNCHANGED <<r, i>> /\ N' = N
    BY <2>3 DEF Fallisce, N
  <2>5. CASE f = "NienteScritto"
    <3>1. dopo = "prima" /\ x = EffettoFinora
      BY <1>1, <2>1, <2>5 DEF RisolutorePubblica, EffettoDelFallimento
    <3>2. ErroreVero(e)
      BY <1>1, <1>2, <1>5, <2>2, <3>1, ErroreInPubblicazione
    <3>3. artefatti' = artefatti
      <4>1. artefatti[i] = "prima"
        BY <1>2, <1>4
      <4> QED
        BY <1>1, <1>3, <3>1, <4>1
    <3>4. ErroreVero(e)'
      BY <2>4, <3>2, <3>3 DEF ErroreVero
    <3> QED
      BY <1>6, <2>2, <2>3, <3>4
  <2>6. CASE f = "Parziale"
    <3>1. dopo = "parte" /\ x = "partial" /\ x \in Effetti
      BY <1>1, <2>1, <2>6 DEF RisolutorePubblica, EffettoDelFallimento, Effetti
    <3>2. Forma(e) /\ phase(e) = "write" /\ remote_effect(e) = "partial"
      BY <1>5, <2>2, <3>1, ErroreDelConfine
    <3>3. artefatti'[i] # "prima" /\ artefatti'[i] # "intero"
      BY <1>3, <3>1
    <3>4. ErroreVero(e)'
      BY <1>2, <2>4, <3>2, <3>3 DEF ErroreVero
    <3> QED
      BY <1>6, <2>2, <2>3, <3>4
  <2>7. CASE f = "Ignoto"
    <3>1. x = "unknown" /\ x \in Effetti
      BY <2>1, <2>7 DEF EffettoDelFallimento, Effetti
    <3>2. Forma(e) /\ phase(e) = "write" /\ remote_effect(e) = "unknown"
      BY <1>5, <2>2, <3>1, ErroreDelConfine
    <3>3. ASSUME NEW k \in 1 .. (i - 1) PROVE artefatti'[k] = "intero"
      <4>1. k \in 1 .. N /\ k # i /\ k < i
        BY <1>2
      <4> QED
        BY <1>3, <1>4, <4>1
    <3>4. ErroreVero(e)'
      BY <2>4, <3>2, <3>3 DEF ErroreVero
    <3> QED
      BY <1>6, <2>2, <2>3, <3>4
  <2> QED
    BY <1>8, <2>5, <2>6, <2>7
<1> QED
  BY <1>7, <1>8

LEMMA InvArtConservato ==
    ASSUME InvArt, [Next]_vars
    PROVE  InvArt'
<1>0. /\ N \in Nat /\ i \in Nat /\ i >= 1 /\ i \in Nat \ {0}
      /\ r.difetto \in Difetti /\ r.outputs \in Seq(STRING)
      /\ cartella \in {"assente", "presente", "rimasta"}
      /\ artefatti \in [1 .. N -> Contenuti]
  BY Richiesta DEF InvArt, TipiArt
<1>1. CausaInterruzione \in Cause
  BY DEF CausaInterruzione, Cause, Interruzioni
<1>2. {"validate", "read", "write", "finalize", "cleanup"} \subseteq Fasi
      /\ "none" \in Effetti /\ "committed" \in Effetti
  BY DEF Fasi, Effetti
<1>3. /\ "io_other" \in Cause /\ "DataMapping" \in Cause
      /\ Rifiuti \subseteq Cause \cup {"nessuno"}
      /\ CauseONessuna \subseteq Cause \cup {"nessuna"}
      /\ CauseDelRisolutore \subseteq Cause
  BY CauseAssunte DEF Cause, CauseIo, CauseDiValidazione, Rifiuti, CauseONessuna
<1>4. ASSUME NEW c \in Cause
      PROVE  Forma(Nudo(c)) /\ remote_effect(Nudo(c)) = "none" /\ phase(Nudo(c)) # "cleanup"
  BY AssiDelNudo, FasiDelleCause
<1>5. CASE LeggeRichiesta
  <2>1. pc = "richiesta" /\ UNCHANGED <<artefatti, mondo>> /\ pc \in Prima /\ pc # "fine"
    BY <1>5 DEF LeggeRichiesta, Prima
  <2>2. CASE r.difetto # "nessuno"
    <3>1. PICK e : e = ErroreDellaRichiesta
      OBVIOUS
    <3>2. Fallisce(e)
      BY <1>5, <2>2, <3>1 DEF LeggeRichiesta
    <3>3. CASE r.difetto = "contratto"
      <4>1. e = with_phase(Nudo("InvalidConfiguration"), "validate")
        BY <3>1, <3>3 DEF ErroreDellaRichiesta
      <4>2. "InvalidConfiguration" \in Cause
        BY DEF Cause
      <4>3. Forma(e) /\ remote_effect(e) = "none" /\ phase(e) = "validate"
        BY <1>2, <4>1, <4>2, ErroreConFase
      <4> QED
        BY <2>1, <3>2, <4>3, PassoErratoPrima
    <3>4. CASE r.difetto # "contratto"
      <4>1. e = Nudo(r.difetto)
        BY <3>1, <3>4 DEF ErroreDellaRichiesta
      <4>2. r.difetto \in Cause
        BY <1>0, <2>2, <3>4 DEF Difetti
      <4>3. Forma(e) /\ remote_effect(e) = "none" /\ phase(e) # "cleanup"
        BY <1>4, <4>1, <4>2
      <4> QED
        BY <2>1, <3>2, <4>3, PassoErratoPrima
    <3> QED
      BY <3>3, <3>4
  <2>3. CASE r.difetto = "nessuno"
    <3>1. Va("prepara", 1) /\ UNCHANGED cartella
      BY <1>5, <2>3 DEF LeggeRichiesta
    <3>2. "prepara" \in Prima /\ 1 \in Nat \ {0}
      BY DEF Prima
    <3> QED
      BY <1>0, <2>1, <3>1, <3>2, PassoAvanti
  <2> QED
    BY <2>2, <2>3
<1>6. ASSUME NEW rifiuto \in Rifiuti, Prepara(rifiuto) PROVE InvArt'
  <2>1. pc = "prepara" /\ UNCHANGED <<artefatti, mondo>> /\ pc \in Prima /\ pc # "fine"
    BY <1>6 DEF Prepara, Prima
  <2>2. CASE rifiuto # "nessuno"
    <3>1. PICK e : e = with_phase(Nudo(rifiuto), "validate")
      OBVIOUS
    <3>2. Fallisce(e)
      BY <1>6, <2>2, <3>1 DEF Prepara
    <3>3. rifiuto \in Cause
      BY <1>3, <2>2
    <3>4. Forma(e) /\ remote_effect(e) = "none" /\ phase(e) = "validate"
      BY <1>2, <3>1, <3>3, ErroreConFase
    <3> QED
      BY <2>1, <3>2, <3>4, PassoErratoPrima
  <2>3. CASE rifiuto = "nessuno"
    <3>1. Va("cartella", 1) /\ UNCHANGED cartella
      BY <1>6, <2>3 DEF Prepara
    <3>2. "cartella" \in Prima /\ 1 \in Nat \ {0}
      BY DEF Prima
    <3> QED
      BY <1>0, <2>1, <3>1, <3>2, PassoAvanti
  <2> QED
    BY <2>2, <2>3
<1>7. ASSUME NEW guasto \in BOOLEAN, CreaCartella(guasto) PROVE InvArt'
  <2>1. pc = "cartella" /\ UNCHANGED <<artefatti, mondo>> /\ pc \in Prima /\ pc # "fine"
    BY <1>7 DEF CreaCartella, Prima
  <2>2. CASE guasto
    <3>1. Fallisce(Nudo("io_other"))
      BY <1>7, <2>2 DEF CreaCartella
    <3> QED
      BY <1>3, <1>4, <2>1, <3>1, PassoErratoPrima
  <2>3. CASE ~ guasto
    <3>1. Va("sorgenti", 1) /\ cartella' = "presente"
      BY <1>7, <2>3 DEF CreaCartella
    <3>2. "sorgenti" \in Prima /\ 1 \in Nat \ {0}
      BY DEF Prima
    <3> QED
      BY <1>0, <2>1, <3>1, <3>2, PassoAvanti
  <2> QED
    BY <2>2, <2>3
<1>8. ASSUME NEW causa \in CauseONessuna, NEW c \in SUBSET Controlli,
             LeggeSorgente(causa, c)
      PROVE  InvArt'
  <2>1. pc = "sorgenti" /\ UNCHANGED <<artefatti, mondo>> /\ pc \in Prima /\ pc # "fine"
    BY <1>8 DEF LeggeSorgente, Prima
  <2>2. PICK male : male = leggi_sorgente(r.sorgenti[i], causa, c)
    OBVIOUS
  <2>3. male \in Cause \cup {"nessuna"}
    BY <1>3, <2>2 DEF leggi_sorgente
  <2>4. \/ Va("esecuzione", 1) /\ UNCHANGED cartella
        \/ Fallisce(with_phase(Nudo(CausaInterruzione), "read"))
        \/ male # "nessuna" /\ Fallisce(with_phase(Nudo(male), "read"))
        \/ Va("sorgenti", i + 1) /\ UNCHANGED cartella
    BY <1>8, <2>2 DEF LeggeSorgente
  <2>5. ASSUME NEW d \in Cause, Fallisce(with_phase(Nudo(d), "read")) PROVE InvArt'
    <3>1. LET e == with_phase(Nudo(d), "read")
          IN Forma(e) /\ remote_effect(e) = "none" /\ phase(e) = "read"
      BY <1>2, ErroreConFase
    <3> QED
      BY <2>1, <2>5, <3>1, PassoErratoPrima
  <2>6. CASE Fallisce(with_phase(Nudo(CausaInterruzione), "read"))
    <3>1. PICK d : d = CausaInterruzione
      OBVIOUS
    <3> QED
      BY <1>1, <2>5, <2>6, <3>1
  <2>7. "esecuzione" \in Prima /\ "sorgenti" \in Prima
        /\ 1 \in Nat \ {0} /\ i + 1 \in Nat \ {0}
    BY <1>0 DEF Prima
  <2>8. CASE Va("esecuzione", 1) /\ UNCHANGED cartella
    BY <1>0, <2>1, <2>7, <2>8, PassoAvanti
  <2>9. CASE Va("sorgenti", i + 1) /\ UNCHANGED cartella
    <3>1. PICK j : j = i + 1
      OBVIOUS
    <3> QED
      BY <1>0, <2>1, <2>7, <2>9, <3>1, PassoAvanti
  <2> QED
    BY <2>3, <2>4, <2>5, <2>6, <2>8, <2>9
<1>9. ASSUME NEW causa \in {"nessuna", "ResourceLimit", "io_transient"} \cup Interruzioni,
             NEW fase \in {"read", "write", "finalize"}, NEW effetto \in Effetti,
             Esegue(causa, fase, effetto)
      PROVE  InvArt'
  <2>1. pc = "esecuzione" /\ UNCHANGED <<artefatti, mondo>> /\ pc \in Prima /\ pc # "fine"
    BY <1>9 DEF Esegue, Prima
  <2>2. CASE causa # "nessuna"
    <3> DEFINE d == with_remote_effect(with_phase(Nudo(causa), fase), effetto)
               e == override_remote_effect(d, "none")
    <3>1. Fallisce(e)
      BY <1>9, <2>2 DEF Esegue
    <3>2. causa \in Cause /\ fase \in Fasi
      BY <1>2, <2>2 DEF Cause, CauseIo
    <3>3. Forma(d) /\ phase(d) = fase
      BY <3>2, ErroreDelConfine
    <3> HIDE DEF d
    <3>4. Forma(e) /\ phase(e) = fase /\ remote_effect(e) = "none"
      BY <1>2, <3>3, AssiSostituiti
    <3> HIDE DEF e
    <3>5. phase(e) # "cleanup"
      BY <3>4
    <3> QED
      BY <2>1, <3>1, <3>4, <3>5, PassoErratoPrima
  <2>3. CASE causa = "nessuna"
    <3>1. Va("impronte", 1) /\ UNCHANGED cartella /\ r.outputs # <<>>
      BY <1>9, <2>3 DEF Esegue
    <3>2. "impronte" \in Prima /\ 1 \in Nat \ {0}
      BY DEF Prima
    <3>3. N > 0 /\ 1 <= N
      BY <1>0, <3>1 DEF N
    <3> QED
      BY <1>0, <2>1, <3>1, <3>2, <3>3, PassoAvanti
  <2> QED
    BY <2>2, <2>3
<1>10. ASSUME NEW guasto \in BOOLEAN, Impronta(guasto) PROVE InvArt'
  <2>1. pc = "impronte" /\ UNCHANGED <<artefatti, mondo>> /\ pc \in Prima /\ pc # "fine"
    BY <1>10 DEF Impronta, Prima
  <2>2. N > 0 /\ i <= N
    BY <2>1 DEF InvArt, Ordine
  <2>3. CASE guasto
    <3>1. Fallisce(Nudo("io_other"))
      BY <1>10, <2>3 DEF Impronta
    <3> QED
      BY <1>3, <1>4, <2>1, <3>1, PassoErratoPrima
  <2>4. CASE ~ guasto /\ i = N
    <3>1. Va("pubblica", 1) /\ UNCHANGED cartella /\ 1 \in Nat \ {0}
      BY <1>10, <2>4 DEF Impronta, N
    <3> QED
      BY <1>0, <2>1, <2>2, <3>1, PassoAvanti
  <2>5. CASE ~ guasto /\ i # N
    <3>1. PICK j : j = i + 1
      OBVIOUS
    <3>2. Va("impronte", j) /\ UNCHANGED cartella
      BY <1>10, <2>5, <3>1 DEF Impronta, N
    <3>3. j \in Nat \ {0} /\ j <= N /\ "impronte" \in Prima
      BY <1>0, <2>2, <2>5, <3>1 DEF Prima
    <3> QED
      BY <1>0, <2>1, <2>2, <3>2, <3>3, PassoAvanti
  <2> QED
    BY <2>3, <2>4, <2>5
<1>11. ASSUME NEW guasto \in BOOLEAN, Apre(guasto) PROVE InvArt'
  <2>1. pc = "pubblica" /\ UNCHANGED <<artefatti, mondo>> /\ pc # "fine" /\ i <= N
    BY <1>11 DEF Apre, N
  <2>2. N > 0
    BY <2>1 DEF InvArt, Ordine
  <2>3. ASSUME NEW c \in Cause,
               Fallisce(with_remote_effect(with_phase(Nudo(c), "write"), EffettoFinora))
        PROVE  InvArt'
    <3>1. PICK e : e = with_remote_effect(with_phase(Nudo(c), "write"), EffettoFinora)
      OBVIOUS
    <3>2. ErroreVero(e)
      BY <2>1, <3>1, ErroreInPubblicazione
    <3>3. Fallisce(e)
      BY <2>3, <3>1
    <3>4. UNCHANGED <<r, i>> /\ N' = N
      BY <3>3 DEF Fallisce, N
    <3>5. ErroreVero(e)'
      BY <2>1, <3>2, <3>4 DEF ErroreVero
    <3> QED
      BY <1>0, <2>1, <3>3, <3>5, PassoErrato
  <2>4. CASE InterrottaPrima
    <3>1. PICK c : c = CausaInterruzione
      OBVIOUS
    <3>2. Fallisce(with_remote_effect(with_phase(Nudo(c), "write"), EffettoFinora))
      BY <1>11, <2>4, <3>1 DEF Apre
    <3> QED
      BY <1>1, <2>3, <3>1, <3>2
  <2>5. CASE ~ InterrottaPrima /\ guasto
    <3>1. Fallisce(with_remote_effect(with_phase(Nudo("io_other"), "write"), EffettoFinora))
      BY <1>11, <2>5 DEF Apre
    <3> QED
      BY <1>3, <2>3, <3>1
  <2>6. CASE ~ InterrottaPrima /\ ~ guasto
    <3>1. PICK j : j = i
      OBVIOUS
    <3>2. Va("risolutore", j) /\ UNCHANGED cartella
      BY <1>11, <2>6, <3>1 DEF Apre
    <3> QED
      BY <1>0, <2>1, <2>2, <3>1, <3>2, PassoAvanti
  <2> QED
    BY <2>4, <2>5, <2>6
<1>12. CASE UltimaVerifica
  <2>1. pc = "pubblica" /\ UNCHANGED <<artefatti, mondo>> /\ pc # "fine" /\ i > N
    BY <1>12 DEF UltimaVerifica, N
  <2>2. N > 0 /\ \A k \in 1 .. N : artefatti[k] = "intero"
    BY <1>0, <2>1 DEF InvArt, Ordine
  <2>3. CASE Interrotta
    <3>1. PICK c : c = CausaInterruzione
      OBVIOUS
    <3> DEFINE e == with_remote_effect(with_phase(Nudo(c), "finalize"), "committed")
    <3>2. Fallisce(e)
      BY <1>12, <2>3, <3>1 DEF UltimaVerifica
    <3>3. Forma(e) /\ phase(e) = "finalize" /\ remote_effect(e) = "committed"
      BY <1>1, <1>2, <3>1, ErroreDelConfine
    <3> HIDE DEF e
    <3>4. UNCHANGED <<r, i>> /\ N' = N
      BY <3>2 DEF Fallisce, N
    <3>5. ErroreVero(e)'
      BY <2>1, <2>2, <3>3, <3>4 DEF ErroreVero
    <3> QED
      BY <1>0, <2>1, <3>2, <3>5, PassoErrato
  <2>4. CASE ~ Interrotta
    <3>1. Va("pulizia", 1) /\ UNCHANGED cartella /\ 1 \in Nat \ {0}
      BY <1>12, <2>4 DEF UltimaVerifica
    <3> QED
      BY <1>0, <2>1, <2>2, <3>1, PassoAvanti
  <2> QED
    BY <2>3, <2>4
<1>13. ASSUME NEW causa \in CauseONessuna, Pulisce(causa) PROVE InvArt'
  <2>1. /\ pc = "pulizia" /\ pc' = "fine" /\ UNCHANGED <<r, i, artefatti, mondo>>
        /\ cartella' \in {"rimasta", "assente"}
    BY <1>13 DEF Pulisce
  <2>2. N' = N /\ \A k \in 1 .. N : artefatti[k] = "intero"
    BY <2>1 DEF InvArt, Ordine, N
  <2>3. TipiArt' /\ Ordine'
    BY <2>1, <2>2 DEF InvArt, TipiArt, Ordine, Punti, Prima, mondo
  <2>4. CASE causa = "nessuna"
    <3>1. esito' = Reso(r.outputs) /\ cartella' = "assente"
      BY <1>13, <2>4 DEF Pulisce
    <3>2. EsitoVero'
      BY <2>1, <2>2, <3>1 DEF EsitoVero, Reso
    <3> QED
      BY <2>3, <3>2 DEF InvArt
  <2>5. CASE causa # "nessuna"
    <3> DEFINE e == PuliziaFallita(causa)
    <3>1. esito'.stato = "errore" /\ esito'.errore = e
      BY <1>13, <2>5 DEF Pulisce
    <3>2. causa \in Cause
      BY <1>3, <2>5
    <3>3. Forma(e) /\ remote_effect(e) = "committed"
      BY <1>2, <3>2, ErroreDelConfine DEF PuliziaFallita
    <3> HIDE DEF e
    <3>4. ErroreVero(e)'
      BY <2>1, <2>2, <3>3 DEF ErroreVero
    <3>5. EsitoVero'
      BY <2>1, <3>1, <3>4 DEF EsitoVero
    <3> QED
      BY <2>3, <3>5 DEF InvArt
  <2> QED
    BY <2>4, <2>5
<1>14. CASE Annulla \/ Scade
  <2>1. /\ UNCHANGED <<r, pc, i, cartella, artefatti, esito>>
        /\ annullato' \in BOOLEAN /\ scaduto' \in BOOLEAN
    BY <1>14 DEF Annulla, Scade, InvArt, TipiArt
  <2>2. concesse' \in Nat
    <3>1. IsFiniteSet(Toccate)
      <4>1. Toccate \subseteq 1 .. N
        BY Richiesta DEF Toccate, InvArt
      <4>2. IsFiniteSet(1 .. N)
        BY <1>0, FS_Interval
      <4> QED
        BY <4>1, <4>2, FS_Subset
    <3>2. Cardinality(Toccate) \in Nat
      BY <3>1, FS_CardinalityType
    <3>3. concesse \in Nat
      BY DEF InvArt, TipiArt
    <3> QED
      BY <1>14, <3>2, <3>3 DEF Annulla, Scade, Alza
  <2>3. N' = N
    BY <2>1 DEF N
  <2>4. TipiArt' /\ Ordine'
    BY <2>1, <2>2, <2>3 DEF InvArt, TipiArt, Ordine
  <2>5. EsitoVero'
    BY <2>1, <2>3 DEF InvArt, EsitoVero, ErroreVero
  <2> QED
    BY <2>4, <2>5 DEF InvArt
<1>15. CASE Finito \/ UNCHANGED vars
  <2>1. UNCHANGED vars
    BY <1>15 DEF Finito
  <2>2. N' = N
    BY <2>1 DEF vars, N
  <2> QED
    BY <2>1, <2>2 DEF vars, InvArt, TipiArt, Ordine, EsitoVero, ErroreVero
<1> QED
  BY <1>5, <1>6, <1>7, <1>8, <1>9, <1>10, <1>11, <1>12, <1>13, <1>14, <1>15, PassoPubblica
     DEF Next, Esecutore


LEMMA InvArtInizio == Init => InvArt
<1> SUFFICES ASSUME Init PROVE InvArt
  OBVIOUS
<1>1. r \in Richieste /\ r.outputs \in Seq(STRING)
  BY RichiesteAssunte DEF Init
<1>2. N \in Nat /\ DOMAIN r.outputs = 1 .. N
  BY <1>1 DEF N
<1>3. artefatti = [k \in 1 .. N |-> "prima"]
  BY <1>2 DEF Init
<1>4. TipiArt
  <2>1. artefatti \in [1 .. N -> Contenuti]
    BY <1>3 DEF Contenuti
  <2>2. /\ pc = "richiesta" /\ i = 1 /\ cartella = "assente"
        /\ concesse = 0
    BY DEF Init
  <2>3. annullato \in BOOLEAN /\ scaduto \in BOOLEAN
    BY DEF Init
  <2> QED
    BY <1>1, <2>1, <2>2, <2>3 DEF TipiArt, Punti, Prima
<1>5. Ordine /\ EsitoVero
  BY <1>3 DEF Init, Ordine, EsitoVero, Prima
<1> QED
  BY <1>4, <1>5 DEF InvArt

\* The invariant: at every point the outputs before the i-th are published and the
\* others untouched, and the error of an answer, whose chain of wrappers is one the
\* boundaries build, tells it.
THEOREM InvarianteDegliArtefatti == Spec => []InvArt
  BY InvArtInizio, InvArtConservato, PTL DEF Spec

LEMMA EffettoDaInvArt == InvArt => EffettoDegliArtefatti
<1> SUFFICES ASSUME InvArt PROVE EffettoDegliArtefatti
  OBVIOUS
<1>1. Uscite = 1 .. N /\ N \in Nat
  BY Richiesta DEF InvArt
<1>2. ASSUME Errato PROVE ErroreVero(esito.errore)
  BY <1>2 DEF Errato, InvArt, EsitoVero, InCorso, Reso
<1>3. ASSUME esito.stato = "reso"
      PROVE  cartella = "assente" /\ \A k \in 1 .. N : artefatti[k] = "intero"
  BY <1>3 DEF InvArt, EsitoVero, InCorso, Reso
<1>4. ASSUME Errato, Effetto = "none" PROVE Toccate = {}
  BY <1>1, <1>2, <1>4 DEF ErroreVero, Effetto, Toccate
<1>5. ASSUME Errato, Effetto = "partial"
      PROVE  Toccate # {} /\ \E k \in Uscite : artefatti[k] # "intero"
  BY <1>1, <1>2, <1>5 DEF ErroreVero, Effetto, Toccate
<1>6. ASSUME Errato, Effetto = "committed" PROVE \A k \in Uscite : artefatti[k] = "intero"
  BY <1>1, <1>2, <1>6 DEF ErroreVero, Effetto
<1>7. ASSUME Errato, Effetto = "unknown" PROVE \A k \in 1 .. (i - 1) : artefatti[k] = "intero"
  BY <1>2, <1>7 DEF ErroreVero, Effetto
<1> QED
  BY <1>1, <1>3, <1>4, <1>5, <1>6, <1>7 DEF EffettoDegliArtefatti

\* For any number of destinations and whatever the resolver fails at: the effect that
\* `pubblica` and the final cleanup put on the error is true of the destinations.
THEOREM EffettoSempreDegliArtefatti == Spec => []EffettoDegliArtefatti
  BY InvarianteDegliArtefatti, EffettoDaInvArt, PTL

LEMMA RipubblicaDaInvArt == InvArt => MaiRipubblica
<1> SUFFICES ASSUME InvArt, Errato
             PROVE  /\ retry_disposition(esito.errore) \notin {"never", "requires_recovery"} =>
                         Toccate = {}
                    /\ phase(esito.errore) = "cleanup" =>
                         Effetto = "committed" /\ retry_disposition(esito.errore) = "never"
  BY DEF MaiRipubblica
<1> DEFINE e == esito.errore
<1>1. ErroreVero(e)
  BY DEF Errato, InvArt, EsitoVero, InCorso, Reso
<1>2. /\ retry_disposition(e) = RitentativoConEffetto(remote_effect(e),
                                  RitentativoDellaCausa(e.causa), phase(e))
      /\ RitentativoDellaCausa(e.causa) \in {"safe", "never"}
  BY <1>1, Ritentativo DEF ErroreVero, RitentativoDellaCausa
<1>3. ASSUME retry_disposition(e) \notin {"never", "requires_recovery"}
      PROVE  remote_effect(e) = "none"
  BY <1>1, <1>2, <1>3 DEF RitentativoConEffetto, ErroreVero
<1>4. remote_effect(e) = "none" => Toccate = {}
  <2>1. Uscite = 1 .. N
    BY Richiesta DEF InvArt
  <2> QED
    BY <1>1, <2>1 DEF ErroreVero, Toccate
<1>5. ASSUME phase(e) = "cleanup"
      PROVE  remote_effect(e) = "committed" /\ retry_disposition(e) = "never"
  BY <1>1, <1>2, <1>5 DEF RitentativoConEffetto, ErroreVero
<1> QED
  BY <1>3, <1>4, <1>5 DEF Effetto

\* A caller that retries when the class of the error says it may never publishes twice,
\* and a failed cleanup is never retried: for any destinations and any failure.
THEOREM MaiPubblicaDueVolte == Spec => []MaiRipubblica
  BY InvarianteDegliArtefatti, RipubblicaDaInvArt, PTL

-----------------------------------------------------------------------------
(* The interruption *)

LEMMA ToccateFinite ==
    ASSUME TipiArt
    PROVE  IsFiniteSet(Toccate) /\ Cardinality(Toccate) \in Nat
<1>1. Toccate \subseteq 1 .. N /\ N \in Nat
  BY Richiesta DEF Toccate
<1>2. IsFiniteSet(1 .. N)
  BY <1>1, FS_Interval
<1>3. IsFiniteSet(Toccate)
  BY <1>1, <1>2, FS_Subset
<1> QED
  BY <1>3, FS_CardinalityType

LEMMA UnaInPiu ==
    ASSUME NEW S, IsFiniteSet(S), NEW x, NEW T, T \subseteq S \cup {x}
    PROVE  Cardinality(T) <= Cardinality(S) + 1 /\ Cardinality(T) \in Nat
<1>1. /\ IsFiniteSet(S \cup {x})
      /\ Cardinality(S \cup {x}) = IF x \in S THEN Cardinality(S) ELSE Cardinality(S) + 1
  BY FS_AddElement
<1>2. Cardinality(T) <= Cardinality(S \cup {x}) /\ IsFiniteSet(T)
  BY <1>1, FS_Subset
<1>3. Cardinality(S) \in Nat /\ Cardinality(T) \in Nat
  BY <1>2, FS_CardinalityType
<1> QED
  BY <1>1, <1>2, <1>3

LEMMA ConcesseConservate ==
    ASSUME InvArt, InvArt', Concesse, [Next]_vars
    PROVE  Concesse'
<1>0. Cardinality(Toccate) \in Nat /\ IsFiniteSet(Toccate) /\ concesse \in Nat
  BY ToccateFinite DEF InvArt, TipiArt
<1>1. ASSUME UNCHANGED <<r, artefatti, mondo>>, pc' # "risolutore" PROVE Concesse'
  <2>1. Toccate' = Toccate /\ Interrotta' = Interrotta /\ concesse' = concesse
    BY <1>1 DEF Toccate, Uscite, Interrotta, mondo
  <2> QED
    BY <1>0, <1>1, <2>1 DEF Concesse
<1>2. CASE \/ LeggeRichiesta \/ UltimaVerifica
           \/ \E rifiuto \in Rifiuti : Prepara(rifiuto)
           \/ \E guasto \in BOOLEAN : CreaCartella(guasto) \/ Impronta(guasto)
           \/ \E causa \in CauseONessuna, c \in SUBSET Controlli : LeggeSorgente(causa, c)
           \/ \E causa \in {"nessuna", "ResourceLimit", "io_transient"} \cup Interruzioni,
                 fase \in {"read", "write", "finalize"}, effetto \in Effetti :
                Esegue(causa, fase, effetto)
           \/ \E causa \in CauseONessuna : Pulisce(causa)
  <2>1. UNCHANGED <<artefatti, mondo>>
    BY <1>2 DEF LeggeRichiesta, UltimaVerifica, Prepara, CreaCartella, Impronta,
                LeggeSorgente, Esegue, Pulisce
  <2>2. r' = r /\ pc' # "risolutore"
    BY <1>2 DEF LeggeRichiesta, UltimaVerifica, Prepara, CreaCartella, Impronta,
                LeggeSorgente, Esegue, Pulisce, Va, Fallisce
  <2> QED
    BY <1>1, <2>1, <2>2
<1>3. ASSUME NEW guasto \in BOOLEAN, Apre(guasto) PROVE Concesse'
  <2>1. UNCHANGED <<artefatti, mondo>> /\ pc = "pubblica"
    BY <1>3 DEF Apre
  <2>2. r' = r /\ (Interrotta => pc' = "fine")
    BY <1>3 DEF Apre, Va, Fallisce, InterrottaPrima
  <2>3. Interrotta' = Interrotta
    BY <2>1 DEF Interrotta, mondo
  <2>4. CASE Interrotta
    BY <1>1, <2>1, <2>2, <2>4
  <2>5. CASE ~ Interrotta
    BY <2>3, <2>5 DEF Concesse
  <2> QED
    BY <2>4, <2>5
<1>4. ASSUME NEW f \in {"nessuno", "NienteScritto", "Parziale", "Ignoto"},
             NEW dopo \in Contenuti, NEW causa \in CauseDelRisolutore,
             Pubblica(f, dopo, causa), Interrotta'
      PROVE  Cardinality(Toccate)' + (IF pc' = "risolutore" THEN 1 ELSE 0) <= concesse'
  <2>1. /\ pc = "risolutore" /\ UNCHANGED mondo
        /\ artefatti' = [artefatti EXCEPT ![i] = dopo]
    BY <1>4 DEF Pubblica, RisolutorePubblica
  <2>2. r' = r /\ pc' # "risolutore"
    BY <1>4 DEF Pubblica, Va, Fallisce
  <2>3. Cardinality(Toccate) + 1 <= concesse /\ concesse' = concesse
    BY <1>4, <2>1 DEF Concesse, Interrotta, mondo
  <2>4. Toccate' \subseteq Toccate \cup {i}
    <3>1. Uscite = 1 .. N /\ artefatti \in [1 .. N -> Contenuti]
      BY Richiesta DEF InvArt, TipiArt
    <3>2. Uscite' = Uscite
      BY <2>2 DEF Uscite
    <3> QED
      BY <2>1, <3>1, <3>2 DEF Toccate
  <2>5. /\ Cardinality(Toccate)' <= Cardinality(Toccate) + 1
        /\ Cardinality(Toccate)' \in Nat
    <3>1. PICK S, T : S = Toccate /\ T = Toccate'
      OBVIOUS
    <3>2. Cardinality(T) <= Cardinality(S) + 1 /\ Cardinality(T) \in Nat
      BY <1>0, <2>4, <3>1, UnaInPiu
    <3> QED
      BY <3>1, <3>2
  <2> QED
    BY <1>0, <2>2, <2>3, <2>5
<1>5. CASE Annulla \/ Scade
  <2>1. UNCHANGED <<r, pc, artefatti>> /\ Alza
    BY <1>5 DEF Annulla, Scade
  <2>2. Toccate' = Toccate
    BY <2>1 DEF Toccate, Uscite
  <2>3. CASE Interrotta
    BY <2>1, <2>2, <2>3 DEF Alza, Concesse
  <2>4. CASE ~ Interrotta
    BY <1>0, <2>1, <2>2, <2>4 DEF Alza, Concesse
  <2> QED
    BY <2>3, <2>4
<1>6. CASE Finito \/ UNCHANGED vars
  <2>1. UNCHANGED vars
    BY <1>6 DEF Finito
  <2> QED
    BY <2>1 DEF vars, Concesse, Toccate, Uscite, Interrotta
<1> QED
  BY <1>2, <1>3, <1>4, <1>5, <1>6 DEF Next, Esecutore, Concesse

\* Interrupted before the end of the publication, and so never a success.
Muta == Interrotta /\ pc # "pulizia" /\ esito.stato # "reso"

LEMMA MutaConservata ==
    ASSUME InvArt, Muta, [Next]_vars
    PROVE  Muta'
<1>1. Interrotta'
  <2>1. annullato \in BOOLEAN /\ scaduto \in BOOLEAN
    BY DEF InvArt, TipiArt
  <2>2. (annullato => annullato') /\ (scaduto => scaduto')
    BY <2>1 DEF Next, Esecutore, LeggeRichiesta, UltimaVerifica, Prepara, CreaCartella,
                Impronta, LeggeSorgente, Esegue, Pulisce, Apre, Pubblica, Annulla, Scade,
                Finito, vars, mondo
  <2> QED
    BY <2>2 DEF Muta, Interrotta
<1>2. CASE pc = "fine"
  <2>1. UNCHANGED <<pc, esito>>
    BY <1>2 DEF Next, Esecutore, LeggeRichiesta, UltimaVerifica, Prepara, CreaCartella,
                Impronta, LeggeSorgente, Esegue, Pulisce, Apre, Pubblica, Annulla, Scade,
                Finito, vars
  <2> QED
    BY <1>1, <2>1 DEF Muta
<1>3. CASE pc # "fine"
  <2>1. pc # "pulizia" /\ esito = InCorso
    BY <1>3 DEF Muta, InvArt, EsitoVero
  <2>2. pc' # "pulizia"
    BY <2>1 DEF Muta, Next, Esecutore, LeggeRichiesta, UltimaVerifica, Prepara, CreaCartella,
                Impronta, LeggeSorgente, Esegue, Pulisce, Apre, Pubblica, Annulla, Scade,
                Finito, vars, Va, Fallisce
  <2>3. esito' = esito \/ esito'.stato = "errore"
    BY <2>1 DEF Next, Esecutore, LeggeRichiesta, UltimaVerifica, Prepara, CreaCartella,
                Impronta, LeggeSorgente, Esegue, Pulisce, Apre, Pubblica, Annulla, Scade,
                Finito, vars, Va, Fallisce
  <2> QED
    BY <1>1, <2>1, <2>2, <2>3 DEF Muta, InCorso
<1> QED
  BY <1>2, <1>3

\* An interruption is never passed over in silence: one that comes before the last
\* publication ends is not answered with a manifest, and lets at most the publication
\* under way complete.
THEOREM InterruzioneSempreDetta == Spec => InterruzioneMaiTaciuta
<1>1. Init => Concesse
  BY DEF Init, Concesse, Interrotta
<1>2. InvArt /\ InvArt' /\ Concesse /\ [Next]_vars => Concesse'
  BY ConcesseConservate
<1>3. InvArt /\ InvArt' /\ Muta /\ [Next]_vars => Muta'
  BY MutaConservata
<1>4. InvArt /\ Concesse => (Interrotta => Cardinality(Toccate) <= concesse)
  BY ToccateFinite DEF InvArt, TipiArt, Concesse
<1>5. InvArt => (Interrotta /\ pc \notin {"pulizia", "fine"} => Muta)
  BY DEF InvArt, EsitoVero, Muta, InCorso
<1>6. Muta => esito.stato # "reso"
  BY DEF Muta
<1> QED
  BY <1>1, <1>2, <1>3, <1>4, <1>5, <1>6, InvarianteDegliArtefatti, PTL
     DEF Spec, InterruzioneMaiTaciuta
=============================================================================
