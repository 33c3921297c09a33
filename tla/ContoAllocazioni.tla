-------------------------- MODULE ContoAllocazioni --------------------------
(***************************************************************************)
(* The loop that measures live memory (plenora-core/src/memoria.rs:        *)
(* byte_vivi, Allocazioni, per_ogni_buffer), against the measure of        *)
(* Memoria.                                                                *)
(*                                                                         *)
(* The columns of the tables are visited in turn; a column is a tree of    *)
(* array data, visited with a stack, and every node reaches its buffers.   *)
(* The same node may be a column of several tables.  Every buffer enters   *)
(* the map per_inizio, keyed by the start of its allocation; the sum of    *)
(* the map is checked addition in u64.                                     *)
(***************************************************************************)
EXTENDS Memoria, Integers, Sequences, SequencesExt

CONSTANTS
    Dati,       \* nodes of array data
    Figli,      \* child_data of a node: [Dati -> Seq(Dati)], a forest
    Colonne,    \* bound: the sequences of columns to measure
    MaxBuffer   \* bound: buffers of a node

ASSUME DatiAssunti == /\ Figli \in [Dati -> Seq(Dati)]
                      /\ Colonne \subseteq Seq(Dati)
                      /\ MaxBuffer \in Nat

VARIABLES
    buffer,         \* the buffers of every node, validity last
    chieste,        \* the columns of the call
    colonne,        \* columns still to visit
    da_visitare,    \* the stack of per_ogni_buffer
    resto,          \* buffers of the popped node still to register
    figli,          \* child_data of the popped node, to be pushed
    per_inizio,     \* Allocazioni.per_inizio
    da_sommare,     \* keys of per_inizio not yet summed
    totale,         \* the running sum
    pc              \* "visita", "registra", "somma", "fine" or "errore"

visita == <<colonne, da_visitare, resto, figli>>
somma_ == <<da_sommare, totale>>
varsConto == <<buffer, chieste, visita, per_inizio, somma_, pc>>

InitConto ==
    /\ buffer \in [Dati -> SeqOf(Buffer, MaxBuffer)]
    /\ chieste \in Colonne
    /\ colonne = chieste
    /\ da_visitare = <<>> /\ resto = <<>> /\ figli = <<>>
    /\ per_inizio = <<>>
    /\ da_sommare = {}
    /\ totale = 0
    /\ pc = "visita"

\* Allocazioni::registra
registra_perVista(m, b) ==
    LET prima == IF b.inizio \in DOMAIN m THEN m[b.inizio] ELSE 0
    IN  IF b.capacita = 0 THEN m
        ELSE [k \in DOMAIN m \cup {b.inizio} |-> IF k = b.inizio THEN prima + b.capacita ELSE m[k]]
registra(m, b) ==
    LET prima == IF b.inizio \in DOMAIN m THEN m[b.inizio] ELSE 0
        voce == IF prima > b.capacita THEN prima ELSE b.capacita
    IN  IF b.capacita = 0 THEN m
        ELSE [k \in DOMAIN m \cup {b.inizio} |-> IF k = b.inizio THEN voce ELSE m[k]]

\* The next column, when the stack is empty.
ProssimaColonna ==
    /\ pc = "visita" /\ da_visitare = <<>> /\ colonne # <<>>
    /\ da_visitare' = <<Head(colonne)>>
    /\ colonne' = Tail(colonne)
    /\ UNCHANGED <<buffer, chieste, resto, figli, per_inizio, somma_, pc>>

\* A turn of per_ogni_buffer: pop a node, register its buffers, push its children.
Prende ==
    /\ pc = "visita" /\ da_visitare # <<>>
    /\ resto' = buffer[Last(da_visitare)]
    /\ figli' = Figli[Last(da_visitare)]
    /\ da_visitare' = Front(da_visitare)
    /\ pc' = "registra"
    /\ UNCHANGED <<buffer, chieste, colonne, per_inizio, somma_>>

\* su_buffer, of one buffer.
Registra ==
    /\ pc = "registra" /\ resto # <<>>
    /\ per_inizio' = registra(per_inizio, Head(resto))
    /\ resto' = Tail(resto)
    /\ UNCHANGED <<buffer, chieste, colonne, da_visitare, figli, somma_, pc>>

Estende ==
    /\ pc = "registra" /\ resto = <<>>
    /\ da_visitare' = da_visitare \o figli
    /\ figli' = <<>>
    /\ pc' = "visita"
    /\ UNCHANGED <<buffer, chieste, colonne, resto, per_inizio, somma_>>

FineVisita ==
    /\ pc = "visita" /\ da_visitare = <<>> /\ colonne = <<>>
    /\ pc' = "somma"
    /\ da_sommare' = DOMAIN per_inizio
    /\ UNCHANGED <<buffer, chieste, visita, per_inizio, totale>>

\* totale.checked_add(capacita) gives nothing.
Trabocca(capacita) == totale + capacita > MaxU64

\* try_fold over the values in key order: checked addition.
Somma ==
    /\ pc = "somma" /\ da_sommare # {}
    /\ LET k == Min(da_sommare)
       IN IF Trabocca(per_inizio[k])
            THEN /\ pc' = "errore"
                 /\ UNCHANGED <<da_sommare, totale>>
            ELSE /\ totale' = totale + per_inizio[k]
                 /\ da_sommare' = da_sommare \ {k}
                 /\ UNCHANGED pc
    /\ UNCHANGED <<buffer, chieste, visita, per_inizio>>

FineSomma ==
    /\ pc = "somma" /\ da_sommare = {}
    /\ pc' = "fine"
    /\ UNCHANGED <<buffer, chieste, visita, per_inizio, somma_>>

ContoFinito == pc \in {"fine", "errore"} /\ UNCHANGED varsConto

NextConto ==
    \/ ProssimaColonna \/ Prende \/ Registra \/ Estende
    \/ FineVisita \/ Somma \/ FineSomma \/ ContoFinito

SpecConto == InitConto /\ [][NextConto]_varsConto

-----------------------------------------------------------------------------
(* Properties *)

\* The nodes of the tree under a node (the node included): the least set that holds
\* it and is closed under children.
Chiuso(S) == \A m \in S : ToSet(Figli[m]) \subseteq S
Sotto(n) == {m \in Dati : \A S \in SUBSET Dati : n \in S /\ Chiuso(S) => m \in S}

\* Every buffer a set of nodes reaches, and the columns.
BufferSotto(buf, nodi) == UNION {UNION {ToSet(buf[m]) : m \in Sotto(n)} : n \in nodi}
Raggiunti == BufferSotto(buffer, ToSet(chieste))

\* Whatever the shape of the columns and the sharing between them, byte_vivi answers
\* the number of distinct bytes they reach, no child lost and no slice counted twice,
\* or an error exactly when that number does not fit a u64.
TotaleEsatto ==
    /\ pc = "fine" => totale = byte_vivi(Raggiunti) /\ ~ NonRappresentabile(Raggiunti)
    /\ pc = "errore" => NonRappresentabile(Raggiunti)

=============================================================================
