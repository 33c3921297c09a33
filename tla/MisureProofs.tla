---------------------------- MODULE MisureProofs ----------------------------
(***************************************************************************)
(* Proofs about what is measured before it is decided: the live bytes that *)
(* the traversal of the columns counts (ContoAllocazioni), the expansion   *)
(* limit, the predicted peak and the shape of a plan (Calcoli).            *)
(***************************************************************************)
EXTENDS ContoAllocazioni, Calcoli, FiniteSetTheorems, FunctionTheorems,
        SequenceTheorems, WellFoundedInduction, TLAPS

-----------------------------------------------------------------------------
(* Sequences as stacks and queues *)

\* Taking the head or the last element, and adding, seen as sets of elements.
LEMMA Elementi ==
    ASSUME NEW S, NEW s \in Seq(S)
    PROVE  /\ ToSet(s) \subseteq S
           /\ s # <<>> => /\ Head(s) \in S /\ Tail(s) \in Seq(S)
                          /\ ToSet(s) = {Head(s)} \cup ToSet(Tail(s))
           /\ s # <<>> => /\ Last(s) \in S /\ Front(s) \in Seq(S)
                          /\ ToSet(s) = {Last(s)} \cup ToSet(Front(s))
<1>1. /\ Len(s) \in Nat /\ DOMAIN s = 1 .. Len(s)
      /\ \A i \in 1 .. Len(s) : s[i] \in S
  BY LenProperties
<1>2. ToSet(s) \subseteq S
  BY <1>1 DEF ToSet
<1>3. ASSUME s # <<>>
      PROVE  /\ Head(s) \in S /\ Tail(s) \in Seq(S)
             /\ ToSet(s) = {Head(s)} \cup ToSet(Tail(s))
  <2>1. /\ Head(s) \in S /\ Tail(s) \in Seq(S) /\ Len(Tail(s)) = Len(s) - 1
        /\ \A i \in 1 .. Len(Tail(s)) : Tail(s)[i] = s[i + 1]
    BY <1>3, HeadTailProperties
  <2>2. Len(s) >= 1 /\ Head(s) = s[1] /\ DOMAIN Tail(s) = 1 .. Len(s) - 1
    BY <1>1, <1>3, <2>1, EmptySeq, LenProperties
  <2>3. ASSUME NEW x \in ToSet(s) PROVE x \in {Head(s)} \cup ToSet(Tail(s))
    <3>1. PICK i \in 1 .. Len(s) : x = s[i]
      BY <1>1 DEF ToSet
    <3>2. CASE i = 1
      BY <3>1, <3>2, <2>2
    <3>3. CASE i # 1
      <4>1. i - 1 \in 1 .. Len(s) - 1 /\ Tail(s)[i - 1] = s[i]
        BY <1>1, <2>1, <3>1, <3>3
      <4> QED
        BY <2>2, <3>1, <4>1 DEF ToSet
    <3> QED
      BY <3>2, <3>3
  <2>4. ASSUME NEW x \in {Head(s)} \cup ToSet(Tail(s)) PROVE x \in ToSet(s)
    <3>1. CASE x = Head(s)
      BY <1>1, <2>2, <3>1 DEF ToSet
    <3>2. CASE x \in ToSet(Tail(s))
      <4>1. PICK i \in 1 .. Len(s) - 1 : x = Tail(s)[i]
        BY <2>2, <3>2 DEF ToSet
      <4>2. i + 1 \in 1 .. Len(s) /\ x = s[i + 1]
        BY <1>1, <2>1, <4>1
      <4> QED
        BY <1>1, <4>2 DEF ToSet
    <3> QED
      BY <2>4, <3>1, <3>2
  <2> QED
    BY <2>1, <2>3, <2>4
<1>4. ASSUME s # <<>>
      PROVE  /\ Last(s) \in S /\ Front(s) \in Seq(S)
             /\ ToSet(s) = {Last(s)} \cup ToSet(Front(s))
  <2>1. Len(s) >= 1 /\ Last(s) = s[Len(s)]
    BY <1>1, <1>4, EmptySeq DEF Last
  <2>2. /\ Front(s) \in Seq(S) /\ Len(Front(s)) = Len(s) - 1
        /\ \A i \in 1 .. Len(s) - 1 : Front(s)[i] = s[i]
    BY <1>1, <2>1, SubSeqProperties DEF Front
  <2>3. DOMAIN Front(s) = 1 .. Len(s) - 1
    BY <2>2, LenProperties
  <2>4. ToSet(s) = {s[i] : i \in 1 .. Len(s)}
    BY <1>1 DEF ToSet
  <2>5. ToSet(Front(s)) = {s[i] : i \in 1 .. Len(s) - 1}
    BY <2>2, <2>3 DEF ToSet
  <2>6. 1 .. Len(s) = (1 .. Len(s) - 1) \cup {Len(s)}
    BY <1>1, <2>1
  <2> QED
    BY <1>1, <2>1, <2>2, <2>4, <2>5, <2>6
<1> QED
  BY <1>2, <1>3, <1>4

LEMMA Concatenati ==
    ASSUME NEW S, NEW s \in Seq(S), NEW t \in Seq(S)
    PROVE  s \o t \in Seq(S) /\ ToSet(s \o t) = ToSet(s) \cup ToSet(t)
<1>0. Len(s) \in Nat /\ DOMAIN s = 1 .. Len(s)
  BY LenProperties
<1>1. /\ s \o t \in Seq(S) /\ Len(s \o t) = Len(s) + Len(t)
      /\ \A i \in 1 .. Len(s) + Len(t) : (s \o t)[i] =
           IF i <= Len(s) THEN s[i] ELSE t[i - Len(s)]
  BY ConcatProperties
<1>2. Len(t) \in Nat /\ DOMAIN t = 1 .. Len(t) /\ DOMAIN (s \o t) = 1 .. Len(s) + Len(t)
  BY <1>1, LenProperties
<1>3. ASSUME NEW x \in ToSet(s \o t) PROVE x \in ToSet(s) \cup ToSet(t)
  <2>1. PICK i \in 1 .. Len(s) + Len(t) : x = (s \o t)[i]
    BY <1>2 DEF ToSet
  <2>2. CASE i <= Len(s)
    <3>1. i \in DOMAIN s /\ x = s[i]
      BY <1>0, <1>1, <2>1, <2>2
    <3> QED
      BY <3>1 DEF ToSet
  <2>3. CASE ~ (i <= Len(s))
    <3>1. i - Len(s) \in DOMAIN t /\ x = t[i - Len(s)]
      BY <1>0, <1>1, <1>2, <2>1, <2>3
    <3> QED
      BY <3>1 DEF ToSet
  <2> QED
    BY <2>2, <2>3
<1>4. ASSUME NEW x \in ToSet(s) PROVE x \in ToSet(s \o t)
  <2>1. PICK i \in 1 .. Len(s) : x = s[i]
    BY <1>0 DEF ToSet
  <2>2. i \in 1 .. Len(s) + Len(t) /\ (s \o t)[i] = x
    BY <1>0, <1>1, <1>2, <2>1
  <2> QED
    BY <1>2, <2>2 DEF ToSet
<1>5. ASSUME NEW x \in ToSet(t) PROVE x \in ToSet(s \o t)
  <2>1. PICK i \in 1 .. Len(t) : x = t[i]
    BY <1>2 DEF ToSet
  <2>2. Len(s) + i \in 1 .. Len(s) + Len(t) /\ (s \o t)[Len(s) + i] = x
    BY <1>0, <1>1, <1>2, <2>1
  <2> QED
    BY <1>2, <2>2 DEF ToSet
<1> QED
  BY <1>1, <1>3, <1>4, <1>5

-----------------------------------------------------------------------------
(* The tree under a node *)

\* A node and what is under its children.
LEMMA SottoUnNodo ==
    ASSUME NEW n \in Dati
    PROVE  /\ Sotto(n) \subseteq Dati
           /\ Sotto(n) = {n} \cup UNION {Sotto(c) : c \in ToSet(Figli[n])}
<1>1. \A m \in Dati : ToSet(Figli[m]) \subseteq Dati
  BY DatiAssunti, Elementi
<1>2. \A m \in Dati : m \in Sotto(m) /\ Sotto(m) \subseteq Dati
  BY DEF Sotto
<1>3. ASSUME NEW m \in Dati, NEW x \in Sotto(m) PROVE ToSet(Figli[x]) \subseteq Sotto(m)
  BY <1>1, <1>3 DEF Sotto, Chiuso
<1> DEFINE T == {n} \cup UNION {Sotto(c) : c \in ToSet(Figli[n])}
<1>4. T \in SUBSET Dati
  BY <1>1, <1>2
<1>5. Chiuso(T)
  <2> SUFFICES ASSUME NEW x \in T PROVE ToSet(Figli[x]) \subseteq T
    BY DEF Chiuso
  <2>1. CASE x = n
    BY <1>1, <1>2, <2>1
  <2>2. CASE \E c \in ToSet(Figli[n]) : x \in Sotto(c)
    BY <1>1, <1>3, <2>2
  <2> QED
    BY <2>1, <2>2
<1>6. Sotto(n) \subseteq T
  BY <1>4, <1>5 DEF Sotto
<1>7. ASSUME NEW c \in ToSet(Figli[n]), NEW m \in Sotto(c) PROVE m \in Sotto(n)
  <2>1. c \in Dati /\ m \in Dati
    BY <1>1, <1>2
  <2> SUFFICES ASSUME NEW S \in SUBSET Dati, n \in S, Chiuso(S) PROVE m \in S
    BY <2>1 DEF Sotto
  <2>2. c \in S
    BY DEF Chiuso
  <2> QED
    BY <1>7, <2>2 DEF Sotto
<1> QED
  BY <1>2, <1>6, <1>7

-----------------------------------------------------------------------------
(* Bytes *)

\* What is under a set of nodes, as bytes.
ByteSotto(buf, nodi) == ByteRaggiunti(BufferSotto(buf, nodi))

LEMMA ByteDellUnione ==
    ASSUME NEW buf
    PROVE  /\ \A A, B : ByteSotto(buf, A \cup B) = ByteSotto(buf, A) \cup ByteSotto(buf, B)
           /\ \A A, B : ByteRaggiunti(A \cup B) = ByteRaggiunti(A) \cup ByteRaggiunti(B)
           /\ ByteSotto(buf, {}) = {} /\ ByteRaggiunti({}) = {}
           /\ \A b : ByteRaggiunti({b}) = ByteDelBuffer(b)
<1>1. \A A, B : ByteRaggiunti(A \cup B) = ByteRaggiunti(A) \cup ByteRaggiunti(B)
  BY DEF ByteRaggiunti
<1>2. \A A, B : BufferSotto(buf, A \cup B) = BufferSotto(buf, A) \cup BufferSotto(buf, B)
  BY DEF BufferSotto
<1>3. BufferSotto(buf, {}) = {} /\ ByteRaggiunti({}) = {}
  BY DEF BufferSotto, ByteRaggiunti
<1>4. \A b : ByteRaggiunti({b}) = ByteDelBuffer(b)
  BY DEF ByteRaggiunti
<1> QED
  BY <1>1, <1>2, <1>3, <1>4 DEF ByteSotto

LEMMA ByteSottoUnNodo ==
    ASSUME NEW buf, NEW n \in Dati
    PROVE  ByteSotto(buf, {n}) = ByteRaggiunti(ToSet(buf[n])) \cup ByteSotto(buf, ToSet(Figli[n]))
<1>1. BufferSotto(buf, {n}) = ToSet(buf[n]) \cup BufferSotto(buf, ToSet(Figli[n]))
  <2>1. BufferSotto(buf, {n}) = UNION {ToSet(buf[m]) : m \in Sotto(n)}
    BY DEF BufferSotto
  <2>2. Sotto(n) = {n} \cup UNION {Sotto(c) : c \in ToSet(Figli[n])}
    BY SottoUnNodo
  <2> QED
    BY <2>1, <2>2 DEF BufferSotto
<1> QED
  BY <1>1, ByteDellUnione DEF ByteSotto

\* The map of the allocations as bytes: those of the keys in K.
ByteDi(m, K) == UNION {{k} \X (1 .. m[k]) : k \in K}
Mappe == UNION {[K -> Nat] : K \in SUBSET Nat}

\* Every nonempty set of naturals has a least element.
LEMMA MinimoDi ==
    ASSUME NEW T, T \subseteq Nat, T # {}
    PROVE  Min(T) \in T /\ \A y \in T : Min(T) <= y
<1>1. PICK x \in T : \A y \in T : ~ (<<y, x>> \in OpToRel(<, Nat))
  BY NatLessThanWellFounded, WFMin
<1>2. \A y \in T : ~ (y < x)
  BY <1>1 DEF OpToRel
<1>3. \A y \in T : x <= y
  BY <1>2
<1> QED
  BY <1>3 DEF Min

\* Recording a buffer adds its bytes and no other.
LEMMA RegistraByte ==
    ASSUME NEW m \in Mappe, NEW b \in Buffer, IsFiniteSet(DOMAIN m)
    PROVE  /\ registra(m, b) \in Mappe
           /\ IsFiniteSet(DOMAIN registra(m, b))
           /\ ByteDi(registra(m, b), DOMAIN registra(m, b))
                = ByteDi(m, DOMAIN m) \cup ByteDelBuffer(b)
<1>0. b.inizio \in Nat /\ b.capacita \in Nat
  BY BufferAssunti
<1>1. DOMAIN m \subseteq Nat /\ \A k \in DOMAIN m : m[k] \in Nat
  BY DEF Mappe
<1>2. CASE b.capacita = 0
  <2>1. registra(m, b) = m
    BY <1>2 DEF registra
  <2>2. ByteDelBuffer(b) = {}
    BY <1>2 DEF ByteDelBuffer
  <2> QED
    BY <2>1, <2>2
<1>3. CASE b.capacita # 0
  <2> DEFINE p == b.inizio
             prima == IF p \in DOMAIN m THEN m[p] ELSE 0
             voce == IF prima > b.capacita THEN prima ELSE b.capacita
             K == DOMAIN m \cup {p}
             r == [k \in K |-> IF k = p THEN voce ELSE m[k]]
  <2>1. registra(m, b) = r
    BY <1>3 DEF registra
  <2>2. prima \in Nat /\ voce \in Nat /\ 1 .. voce = (1 .. prima) \cup (1 .. b.capacita)
    BY <1>0, <1>1
  <2>3. r \in [K -> Nat] /\ K \in SUBSET Nat
    BY <1>0, <1>1, <2>2
  <2>4. IsFiniteSet(K)
    BY FS_AddElement
  <2>5. ByteDi(r, K) = ByteDi(m, DOMAIN m) \cup ByteDelBuffer(b)
    <3>1. ByteDi(r, K) = ({p} \X (1 .. voce)) \cup UNION {{k} \X (1 .. m[k]) : k \in DOMAIN m \ {p}}
      <4> HIDE DEF voce
      <4>1. ByteDi(r, K) = UNION {{k} \X (1 .. r[k]) : k \in K}
        BY DEF ByteDi
      <4>2. \A k \in DOMAIN m \ {p} : r[k] = m[k]
        OBVIOUS
      <4>3. r[p] = voce
        OBVIOUS
      <4> DEFINE altri == UNION {{k} \X (1 .. m[k]) : k \in DOMAIN m \ {p}}
      <4> HIDE DEF r
      <4>4. ASSUME NEW x \in ByteDi(r, K) PROVE x \in ({p} \X (1 .. voce)) \cup altri
        <5>1. PICK k \in K : x \in {k} \X (1 .. r[k])
          BY <4>1, <4>4
        <5>2. CASE k = p
          BY <4>3, <5>1, <5>2
        <5>3. CASE k # p
          <6>1. k \in DOMAIN m \ {p} /\ r[k] = m[k]
            BY <4>2, <5>1, <5>3
          <6> QED
            BY <5>1, <6>1
        <5> QED
          BY <5>2, <5>3
      <4>5. ASSUME NEW x \in {p} \X (1 .. voce) PROVE x \in ByteDi(r, K)
        <5>1. p \in K /\ x \in {p} \X (1 .. r[p])
          BY <4>3, <4>5
        <5> QED
          BY <4>1, <5>1
      <4>6. ASSUME NEW x \in altri PROVE x \in ByteDi(r, K)
        <5>1. PICK k \in DOMAIN m \ {p} : x \in {k} \X (1 .. m[k])
          BY <4>6
        <5>2. k \in K /\ x \in {k} \X (1 .. r[k])
          BY <4>2, <5>1
        <5> QED
          BY <4>1, <5>2
      <4> QED
        BY <4>4, <4>5, <4>6
    <3>2. {p} \X (1 .. voce) = ({p} \X (1 .. prima)) \cup ({p} \X (1 .. b.capacita))
      <4> HIDE DEF prima, voce, p
      <4> QED
        BY <2>2
    <3>3. ByteDi(m, DOMAIN m) = ({p} \X (1 .. prima)) \cup UNION {{k} \X (1 .. m[k]) : k \in DOMAIN m \ {p}}
      <4>1. CASE p \in DOMAIN m
        <5>1. prima = m[p]
          BY <4>1
        <5> DEFINE altri == UNION {{k} \X (1 .. m[k]) : k \in DOMAIN m \ {p}}
        <5> HIDE DEF prima, p
        <5>2. ASSUME NEW x \in ByteDi(m, DOMAIN m) PROVE x \in ({p} \X (1 .. prima)) \cup altri
          <6>1. PICK k \in DOMAIN m : x \in {k} \X (1 .. m[k])
            BY <5>2 DEF ByteDi
          <6>2. CASE k = p
            BY <5>1, <6>1, <6>2
          <6>3. CASE k # p
            BY <6>1, <6>3
          <6> QED
            BY <6>2, <6>3
        <5>3. ({p} \X (1 .. prima)) \subseteq ByteDi(m, DOMAIN m)
          BY <4>1, <5>1 DEF ByteDi
        <5>4. altri \subseteq ByteDi(m, DOMAIN m)
          BY DEF ByteDi
        <5> QED
          BY <5>2, <5>3, <5>4
      <4>2. CASE p \notin DOMAIN m
        <5>1. 1 .. prima = {}
          BY <4>2
        <5>2. DOMAIN m \ {p} = DOMAIN m
          BY <4>2
        <5> HIDE DEF prima, p
        <5>3. {p} \X (1 .. prima) = {}
          BY <5>1
        <5> QED
          BY <5>2, <5>3 DEF ByteDi
      <4> QED
        BY <4>1, <4>2
    <3>4. ByteDelBuffer(b) = {p} \X (1 .. b.capacita)
      BY DEF ByteDelBuffer
    <3> HIDE DEF prima, voce, p, r, K
    <3> QED
      BY <3>1, <3>2, <3>3, <3>4
  <2>6. DOMAIN r = K
    OBVIOUS
  <2> HIDE DEF r, K
  <2> QED
    BY <2>1, <2>3, <2>4, <2>5, <2>6 DEF Mappe
<1> QED
  BY <1>2, <1>3

\* One key more is its capacity more.
LEMMA UnaChiaveInPiu ==
    ASSUME NEW m \in Mappe, NEW K \in SUBSET DOMAIN m, NEW k \in DOMAIN m, k \notin K,
           IsFiniteSet(ByteDi(m, K))
    PROVE  /\ IsFiniteSet(ByteDi(m, K \cup {k}))
           /\ Cardinality(ByteDi(m, K \cup {k})) = Cardinality(ByteDi(m, K)) + m[k]
<1> DEFINE B == {k} \X (1 .. m[k])
<1>1. m[k] \in Nat
  <2>1. PICK D \in SUBSET Nat : m \in [D -> Nat]
    BY DEF Mappe
  <2> QED
    BY <2>1
<1>2. IsFiniteSet(1 .. m[k]) /\ Cardinality(1 .. m[k]) = m[k]
  BY <1>1, FS_Interval
<1>3. IsFiniteSet({k}) /\ Cardinality({k}) = 1
  BY FS_Singleton
<1>4. IsFiniteSet(B) /\ Cardinality(B) = m[k]
  BY <1>1, <1>2, <1>3, FS_Product
<1>5. ByteDi(m, K \cup {k}) = ByteDi(m, K) \cup B
  BY DEF ByteDi
<1>6. ByteDi(m, K) \cap B = {}
  BY DEF ByteDi
<1>7. Cardinality({}) = 0 /\ Cardinality(ByteDi(m, K)) \in Nat
  BY FS_EmptySet, FS_CardinalityType
<1> HIDE DEF B
<1>8. /\ IsFiniteSet(ByteDi(m, K) \cup B)
      /\ Cardinality(ByteDi(m, K) \cup B)
           = Cardinality(ByteDi(m, K)) + Cardinality(B) - Cardinality(ByteDi(m, K) \cap B)
  BY <1>4, FS_Union
<1>9. Cardinality(ByteDi(m, K) \cap B) = 0
  BY <1>6, <1>7, Zenon
<1>10. Cardinality(ByteDi(m, K) \cup B) = Cardinality(ByteDi(m, K)) + m[k]
  BY <1>1, <1>4, <1>7, <1>8, <1>9
<1> QED
  BY <1>5, <1>8, <1>10, Zenon

-----------------------------------------------------------------------------
(* The traversal *)

TipiConto ==
    /\ buffer \in [Dati -> Seq(Buffer)]
    /\ chieste \in Seq(Dati) /\ colonne \in Seq(Dati)
    /\ da_visitare \in Seq(Dati) /\ figli \in Seq(Dati)
    /\ resto \in Seq(Buffer)
    /\ per_inizio \in Mappe /\ IsFiniteSet(DOMAIN per_inizio)
    /\ da_sommare \subseteq DOMAIN per_inizio
    /\ totale \in Nat /\ totale <= MaxU64
    /\ pc \in {"visita", "registra", "somma", "fine", "errore"}

\* The bytes the traversal has still to meet.
ByteMancanti ==
    ByteRaggiunti(ToSet(resto)) \cup ByteSotto(buffer, ToSet(figli))
    \cup ByteSotto(buffer, ToSet(da_visitare)) \cup ByteSotto(buffer, ToSet(colonne))
ByteContati == ByteDi(per_inizio, DOMAIN per_inizio)
ByteSommati == ByteDi(per_inizio, DOMAIN per_inizio \ da_sommare)

\* At every moment the bytes of the map and those still to meet are the bytes the
\* columns reach; the running sum is the number of bytes of the keys summed.
Nulla_resta == colonne = <<>> /\ da_visitare = <<>> /\ resto = <<>> /\ figli = <<>>
InvConto ==
    /\ TipiConto
    /\ ByteRaggiunti(Raggiunti) = ByteContati \cup ByteMancanti
    /\ pc = "visita" => resto = <<>> /\ figli = <<>>
    /\ pc \in {"visita", "registra"} => totale = 0
    /\ pc \in {"somma", "fine", "errore"} => Nulla_resta
    /\ pc \in {"somma", "fine"} => IsFiniteSet(ByteSommati) /\ totale = Cardinality(ByteSommati)
    /\ pc = "fine" => da_sommare = {}
    /\ pc = "errore" => NonRappresentabile(Raggiunti)

LEMMA SenzaElementi == ToSet(<<>>) = {}
BY DEF ToSet

LEMMA InitConto_Inv == ASSUME InitConto PROVE InvConto
<1>1. buffer \in [Dati -> Seq(Buffer)]
  <2>1. ASSUME NEW s \in SeqOf(Buffer, MaxBuffer) PROVE s \in Seq(Buffer)
    <3>1. PICK m \in 0 .. MaxBuffer : s \in [1 .. m -> Buffer]
      BY DEF SeqOf
    <3>2. m \in Nat
      BY DatiAssunti
    <3> QED
      BY <3>1, <3>2, SeqDef
  <2> QED
    BY <2>1 DEF InitConto
<1>2. per_inizio \in Mappe /\ DOMAIN per_inizio = {}
  <2>1. per_inizio = <<>>
    BY DEF InitConto
  <2>2. <<>> \in [{} -> Nat] /\ DOMAIN <<>> = {}
    OBVIOUS
  <2> QED
    BY <2>1, <2>2 DEF Mappe
<1>3. IsFiniteSet(DOMAIN per_inizio)
  BY <1>2, FS_EmptySet
<1>4. chieste \in Seq(Dati) /\ <<>> \in Seq(Dati) /\ <<>> \in Seq(Buffer)
  BY DatiAssunti DEF InitConto
<1>5. TipiConto
  BY <1>1, <1>2, <1>3, <1>4, MaxU64Assunto DEF InitConto, TipiConto
<1>6. ByteContati = {}
  BY <1>2 DEF ByteContati, ByteDi
<1>7. ByteRaggiunti(Raggiunti) = ByteSotto(buffer, ToSet(colonne))
  BY DEF InitConto, ByteSotto, Raggiunti
<1>8. ByteMancanti = ByteSotto(buffer, ToSet(colonne))
  BY SenzaElementi, ByteDellUnione DEF InitConto, ByteMancanti
<1> QED
  BY <1>5, <1>6, <1>7, <1>8 DEF InvConto, InitConto

\* The buffers and the columns asked for do not change during the count.
LEMMA BufferFissi ==
    ASSUME [NextConto]_varsConto
    PROVE  buffer' = buffer /\ chieste' = chieste /\ Raggiunti' = Raggiunti
<1>1. buffer' = buffer /\ chieste' = chieste
  BY DEF NextConto, varsConto, ProssimaColonna, Prende, Registra, Estende, FineVisita, Somma,
         FineSomma, ContoFinito
<1> QED
  BY <1>1 DEF Raggiunti

\* The columns reach finitely many bytes.
LEMMA RaggiuntiFiniti ==
    ASSUME TipiConto
    PROVE  IsFiniteSet(ByteRaggiunti(Raggiunti))
<1>1. Raggiunti \subseteq Buffer
  <2>1. \A n \in Dati : ToSet(buffer[n]) \subseteq Buffer
    BY Elementi DEF TipiConto
  <2>2. \A n : Sotto(n) \subseteq Dati
    BY DEF Sotto
  <2> QED
    BY <2>1, <2>2 DEF Raggiunti, BufferSotto
<1>2. IsFiniteSet(Raggiunti)
  BY <1>1, BufferAssunti, FS_Subset
<1>3. ASSUME NEW b \in Raggiunti PROVE IsFiniteSet(ByteDelBuffer(b))
  <2>1. b.capacita \in Nat
    BY <1>1, BufferAssunti
  <2>2. IsFiniteSet(1 .. b.capacita)
    BY <2>1, FS_Interval
  <2>3. IsFiniteSet({b.inizio})
    BY FS_Singleton
  <2> QED
    BY <2>2, <2>3, FS_Product DEF ByteDelBuffer
<1>4. IsFiniteSet({ByteDelBuffer(b) : b \in Raggiunti})
  <2> DEFINE f == [b \in Raggiunti |-> ByteDelBuffer(b)]
             T == {ByteDelBuffer(b) : b \in Raggiunti}
  <2>1. f \in Surjection(Raggiunti, T)
    BY DEF Surjection
  <2> QED
    BY <1>2, <2>1, FS_Surjection
<1> QED
  BY <1>3, <1>4, FS_UNION DEF ByteRaggiunti

\* The traversal loses no byte and adds none.
LEMMA PassoVisita ==
    ASSUME InvConto, ProssimaColonna \/ Prende \/ Registra \/ Estende \/ FineVisita
    PROVE  InvConto'
<1> USE DEF InvConto, TipiConto
<1>0. buffer' = buffer /\ chieste' = chieste /\ Raggiunti' = Raggiunti
  BY BufferFissi DEF NextConto
<1>v. ByteSotto(buffer, {}) = {} /\ ByteRaggiunti({}) = {}
  BY ByteDellUnione
<1>u. /\ \A A, B : ByteSotto(buffer, A \cup B) = ByteSotto(buffer, A) \cup ByteSotto(buffer, B)
      /\ \A A, B : ByteRaggiunti(A \cup B) = ByteRaggiunti(A) \cup ByteRaggiunti(B)
  BY ByteDellUnione
<1>1. CASE ProssimaColonna
  <2>1. /\ Head(colonne) \in Dati /\ Tail(colonne) \in Seq(Dati)
        /\ ToSet(colonne) = {Head(colonne)} \cup ToSet(Tail(colonne))
    BY <1>1, Elementi DEF ProssimaColonna
  <2>2. <<Head(colonne)>> \in Seq(Dati) /\ ToSet(<<Head(colonne)>>) = {Head(colonne)}
    BY <2>1 DEF ToSet
  <2>3. TipiConto'
    BY <1>0, <1>1, <2>1, <2>2 DEF ProssimaColonna, somma_
  <2>4. ByteMancanti' = ByteMancanti
    <3>1. ToSet(da_visitare) = {} /\ ToSet(da_visitare') = {Head(colonne)} /\ ToSet(colonne') = ToSet(Tail(colonne))
      BY <1>1, <2>2, SenzaElementi DEF ProssimaColonna
    <3>2. ByteSotto(buffer, ToSet(colonne)) = ByteSotto(buffer, {Head(colonne)}) \cup ByteSotto(buffer, ToSet(Tail(colonne)))
      BY <1>u, <2>1
    <3>3. ByteMancanti' = ByteRaggiunti(ToSet(resto)) \cup ByteSotto(buffer, ToSet(figli))
                  \cup ByteSotto(buffer, {Head(colonne)}) \cup ByteSotto(buffer, ToSet(Tail(colonne)))
      BY <1>0, <1>1, <3>1 DEF ByteMancanti, ProssimaColonna
    <3> QED
      BY <1>v, <3>1, <3>2, <3>3 DEF ByteMancanti
  <2>5. ByteContati' = ByteContati
    BY <1>1 DEF ProssimaColonna, ByteContati
  <2> QED
    BY <1>0, <1>1, <2>3, <2>4, <2>5 DEF ProssimaColonna, somma_
<1>2. CASE Prende
  <2> DEFINE n == Last(da_visitare)
  <2>1. /\ n \in Dati /\ Front(da_visitare) \in Seq(Dati)
        /\ ToSet(da_visitare) = {n} \cup ToSet(Front(da_visitare))
    BY <1>2, Elementi DEF Prende
  <2>2. buffer[n] \in Seq(Buffer) /\ Figli[n] \in Seq(Dati)
    BY <2>1, DatiAssunti
  <2>3. TipiConto'
    BY <1>0, <1>2, <2>1, <2>2 DEF Prende, somma_
  <2>4. ByteMancanti' = ByteMancanti
    <3>1. ToSet(resto) = {} /\ ToSet(figli) = {}
      BY <1>2, SenzaElementi DEF Prende
    <3>2. ByteSotto(buffer, ToSet(da_visitare)) = ByteSotto(buffer, {n}) \cup ByteSotto(buffer, ToSet(Front(da_visitare)))
      BY <1>u, <2>1
    <3>3. ByteSotto(buffer, {n}) = ByteRaggiunti(ToSet(buffer[n])) \cup ByteSotto(buffer, ToSet(Figli[n]))
      BY <2>1, ByteSottoUnNodo
    <3>4. ByteMancanti' = ByteRaggiunti(ToSet(buffer[n])) \cup ByteSotto(buffer, ToSet(Figli[n]))
                  \cup ByteSotto(buffer, ToSet(Front(da_visitare))) \cup ByteSotto(buffer, ToSet(colonne))
      BY <1>0, <1>2 DEF ByteMancanti, Prende
    <3> HIDE DEF n
    <3> QED
      BY <1>v, <3>1, <3>2, <3>3, <3>4 DEF ByteMancanti
  <2>5. ByteContati' = ByteContati
    BY <1>2 DEF Prende, ByteContati
  <2> QED
    BY <1>0, <1>2, <2>3, <2>4, <2>5 DEF Prende, somma_
<1>3. CASE Registra
  <2> DEFINE b == Head(resto)
  <2>1. /\ b \in Buffer /\ Tail(resto) \in Seq(Buffer)
        /\ ToSet(resto) = {b} \cup ToSet(Tail(resto))
    BY <1>3, Elementi DEF Registra
  <2>2. /\ registra(per_inizio, b) \in Mappe /\ IsFiniteSet(DOMAIN registra(per_inizio, b))
        /\ ByteDi(registra(per_inizio, b), DOMAIN registra(per_inizio, b))
             = ByteContati \cup ByteDelBuffer(b)
    BY <2>1, RegistraByte DEF ByteContati
  <2>3. DOMAIN per_inizio \subseteq DOMAIN registra(per_inizio, b)
    BY DEF registra
  <2>4. TipiConto'
    <3>1. per_inizio' \in Mappe /\ IsFiniteSet(DOMAIN per_inizio)'
      BY <1>3, <2>2 DEF Registra
    <3>2. (da_sommare \subseteq DOMAIN per_inizio)'
      BY <1>3, <2>3 DEF Registra, somma_
    <3> QED
      BY <1>0, <1>3, <2>1, <3>1, <3>2 DEF Registra, somma_
  <2>5. ByteContati' = ByteContati \cup ByteDelBuffer(b)
    BY <1>3, <2>2 DEF Registra, ByteContati
  <2>6. ByteRaggiunti(ToSet(resto)) = ByteDelBuffer(b) \cup ByteRaggiunti(ToSet(Tail(resto)))
    <3>1. ByteRaggiunti({b}) = ByteDelBuffer(b)
      BY ByteDellUnione
    <3> QED
      BY <1>u, <2>1, <3>1
  <2>7. ByteMancanti' = ByteRaggiunti(ToSet(Tail(resto))) \cup ByteSotto(buffer, ToSet(figli))
                  \cup ByteSotto(buffer, ToSet(da_visitare)) \cup ByteSotto(buffer, ToSet(colonne))
    BY <1>0, <1>3 DEF ByteMancanti, Registra
  <2>8. ByteContati' \cup ByteMancanti' = ByteContati \cup ByteMancanti
    <3> HIDE DEF b
    <3> QED
      BY <2>5, <2>6, <2>7 DEF ByteMancanti
  <2>9. (ByteRaggiunti(Raggiunti) = ByteContati \cup ByteMancanti)'
    BY <1>0, <2>8
  <2> QED
    BY <1>0, <1>3, <2>4, <2>9 DEF Registra, somma_
<1>4. CASE Estende
  <2>1. /\ da_visitare \o figli \in Seq(Dati)
        /\ ToSet(da_visitare \o figli) = ToSet(da_visitare) \cup ToSet(figli)
    BY Concatenati
  <2>2. <<>> \in Seq(Dati)
    OBVIOUS
  <2>3. TipiConto'
    BY <1>0, <1>4, <2>1, <2>2 DEF Estende, somma_
  <2>4. ByteMancanti' = ByteMancanti
    <3>1. ByteSotto(buffer, ToSet(da_visitare \o figli)) = ByteSotto(buffer, ToSet(da_visitare)) \cup ByteSotto(buffer, ToSet(figli))
      BY <1>u, <2>1
    <3>2. ByteMancanti' = ByteRaggiunti(ToSet(resto)) \cup ByteSotto(buffer, ToSet(<<>>))
                  \cup ByteSotto(buffer, ToSet(da_visitare \o figli)) \cup ByteSotto(buffer, ToSet(colonne))
      BY <1>0, <1>4 DEF ByteMancanti, Estende
    <3>3. ByteSotto(buffer, ToSet(<<>>)) = {}
      BY <1>v, SenzaElementi
    <3> QED
      BY <3>1, <3>2, <3>3 DEF ByteMancanti
  <2>5. ByteContati' = ByteContati
    BY <1>4 DEF Estende, ByteContati
  <2> QED
    BY <1>0, <1>4, <2>3, <2>4, <2>5 DEF Estende, somma_
<1>5. CASE FineVisita
  <2>1. TipiConto'
    BY <1>0, <1>5 DEF FineVisita, visita
  <2>2. ByteMancanti' = ByteMancanti /\ ByteContati' = ByteContati
    BY <1>0, <1>5 DEF FineVisita, visita, ByteMancanti, ByteContati
  <2>3. Nulla_resta'
    BY <1>5 DEF FineVisita, visita, Nulla_resta
  <2>4. ByteSommati' = {}
    BY <1>5 DEF FineVisita, ByteSommati, ByteDi
  <2>5. IsFiniteSet({}) /\ Cardinality({}) = 0
    BY FS_EmptySet
  <2>6. (IsFiniteSet(ByteSommati) /\ totale = Cardinality(ByteSommati))'
    BY <1>5, <2>4, <2>5 DEF FineVisita
  <2> QED
    BY <1>0, <1>5, <2>1, <2>2, <2>3, <2>6 DEF FineVisita
<1> QED
  BY <1>1, <1>2, <1>3, <1>4, <1>5

\* The sum adds the bytes of a key, or stops where they do not fit.
LEMMA PassoSomma ==
    ASSUME InvConto, Somma \/ FineSomma \/ ContoFinito \/ UNCHANGED varsConto
    PROVE  InvConto'
<1> USE DEF InvConto, TipiConto
<1>0. buffer' = buffer /\ chieste' = chieste /\ Raggiunti' = Raggiunti
  BY BufferFissi DEF NextConto
<1>1. /\ UNCHANGED visita /\ UNCHANGED per_inizio
      /\ ByteMancanti' = ByteMancanti /\ ByteContati' = ByteContati
  <2>1. UNCHANGED visita /\ UNCHANGED per_inizio
    BY DEF Somma, FineSomma, ContoFinito, varsConto
  <2> QED
    BY <1>0, <2>1 DEF visita, ByteMancanti, ByteContati
<1>2. CASE Somma
  <2> DEFINE k == Min(da_sommare)
             K == DOMAIN per_inizio \ da_sommare
  <2>1. k \in da_sommare
    <3>1. da_sommare \subseteq Nat /\ da_sommare # {}
      BY <1>2 DEF Somma, Mappe
    <3> QED
      BY <3>1, MinimoDi
  <2>2. IsFiniteSet(ByteSommati) /\ totale = Cardinality(ByteSommati) /\ Nulla_resta
    BY <1>2 DEF Somma
  <2>3. /\ IsFiniteSet(ByteDi(per_inizio, K \cup {k}))
        /\ Cardinality(ByteDi(per_inizio, K \cup {k})) = totale + per_inizio[k]
    <3> HIDE DEF k
    <3>1. K \in SUBSET DOMAIN per_inizio /\ k \in DOMAIN per_inizio /\ k \notin K
      BY <2>1
    <3>2. ByteSommati = ByteDi(per_inizio, K)
      BY DEF ByteSommati
    <3> QED
      BY <2>2, <3>1, <3>2, UnaChiaveInPiu
  <2>4. per_inizio[k] \in Nat
    <3>1. PICK D \in SUBSET Nat : per_inizio \in [D -> Nat]
      BY DEF Mappe
    <3> HIDE DEF k
    <3> QED
      BY <2>1, <3>1
  <2>5. CASE Trabocca(per_inizio[k])
    <3>1. pc' = "errore" /\ da_sommare' = da_sommare /\ totale' = totale
      BY <1>2, <2>5 DEF Somma
    <3>2. ByteRaggiunti(Raggiunti) = ByteContati
      <4>1. ByteMancanti = {}
        BY <2>2, SenzaElementi, ByteDellUnione DEF Nulla_resta, ByteMancanti
      <4> QED
        BY <4>1
    <3>3. IsFiniteSet(ByteContati) /\ ByteDi(per_inizio, K \cup {k}) \subseteq ByteContati
      <4>1. ByteDi(per_inizio, K \cup {k}) \subseteq ByteContati
        <5>1. K \cup {k} \subseteq DOMAIN per_inizio
          BY <2>1
        <5> HIDE DEF k, K
        <5> QED
          BY <5>1 DEF ByteContati, ByteDi
      <4>2. IsFiniteSet(ByteRaggiunti(Raggiunti))
        BY RaggiuntiFiniti
      <4> QED
        BY <3>2, <4>1, <4>2
    <3>4. Cardinality(ByteContati) \in Nat /\ totale + per_inizio[k] <= Cardinality(ByteContati)
      <4> HIDE DEF k, K
      <4> QED
        BY <2>3, <3>3, FS_Subset, FS_CardinalityType
    <3>5. NonRappresentabile(Raggiunti)
      <4> HIDE DEF k
      <4>1. totale + per_inizio[k] > MaxU64
        BY <2>5 DEF Trabocca
      <4>2. byte_vivi(Raggiunti) = Cardinality(ByteContati)
        BY <3>2 DEF byte_vivi
      <4> QED
        BY <2>4, <3>4, <4>1, <4>2, MaxU64Assunto DEF NonRappresentabile
    <3>6. NonRappresentabile(Raggiunti)'
      BY <1>0, <3>5
    <3>7. TipiConto'
      BY <1>0, <1>1, <3>1 DEF visita
    <3>8. Nulla_resta'
      BY <1>1, <2>2 DEF visita, Nulla_resta
    <3> QED
      BY <1>0, <1>1, <3>1, <3>6, <3>7, <3>8
  <2>6. CASE ~ Trabocca(per_inizio[k])
    <3>1. pc' = pc /\ pc = "somma" /\ da_sommare' = da_sommare \ {k} /\ totale' = totale + per_inizio[k]
      BY <1>2, <2>6 DEF Somma
    <3>2. totale + per_inizio[k] <= MaxU64
      <4> HIDE DEF k
      <4> QED
        BY <2>4, <2>6, MaxU64Assunto DEF Trabocca
    <3>3. TipiConto'
      <4> HIDE DEF k
      <4> QED
        BY <1>0, <1>1, <2>4, <3>1, <3>2 DEF visita
    <3>4. ByteSommati' = ByteDi(per_inizio, K \cup {k})
      <4>1. DOMAIN per_inizio \ (da_sommare \ {k}) = K \cup {k}
        <5> HIDE DEF k
        <5> QED
          BY <2>1
      <4> HIDE DEF k, K
      <4> QED
        BY <1>1, <3>1, <4>1 DEF ByteSommati
    <3>5. (IsFiniteSet(ByteSommati) /\ totale = Cardinality(ByteSommati))'
      <4> HIDE DEF k, K
      <4> QED
        BY <2>3, <3>1, <3>4
    <3>6. Nulla_resta'
      BY <1>1, <2>2 DEF visita, Nulla_resta
    <3> QED
      BY <1>0, <1>1, <3>1, <3>3, <3>5, <3>6
  <2> QED
    BY <2>5, <2>6
<1>3. CASE FineSomma
  <2>1. TipiConto'
    BY <1>0, <1>1, <1>3 DEF FineSomma, visita, somma_
  <2>2. ByteSommati' = ByteSommati
    BY <1>1, <1>3 DEF FineSomma, ByteSommati, somma_
  <2>3. Nulla_resta' /\ (IsFiniteSet(ByteSommati) /\ totale = Cardinality(ByteSommati))'
    BY <1>1, <1>3, <2>2 DEF FineSomma, visita, somma_, Nulla_resta
  <2> QED
    BY <1>0, <1>1, <1>3, <2>1, <2>3 DEF FineSomma, somma_
<1>4. CASE ContoFinito \/ UNCHANGED varsConto
  <2>1. UNCHANGED <<pc, da_sommare, totale>>
    BY <1>4 DEF ContoFinito, varsConto, somma_
  <2>2. TipiConto'
    BY <1>0, <1>1, <2>1 DEF visita
  <2>3. ByteSommati' = ByteSommati /\ (Nulla_resta' <=> Nulla_resta)
    BY <1>1, <2>1 DEF ByteSommati, Nulla_resta, visita
  <2>4. NonRappresentabile(Raggiunti)' <=> NonRappresentabile(Raggiunti)
    BY <1>0
  <2> QED
    BY <1>0, <1>1, <2>1, <2>2, <2>3, <2>4 DEF visita
<1> QED
  BY <1>2, <1>3, <1>4

\* Whatever the forest of the array data, its buffers and the columns measured, byte_vivi
\* gives the number of distinct bytes the columns reach, or an error exactly when that
\* number does not fit a u64: the stack of per_ogni_buffer loses no child, and
\* Allocazioni::registra counts a shared or sliced allocation once.
THEOREM ContoEsatto == SpecConto => []TotaleEsatto
<1>1. InitConto => InvConto
  BY InitConto_Inv
<1>2. InvConto /\ [NextConto]_varsConto => InvConto'
  BY PassoVisita, PassoSomma DEF NextConto
<1>3. InvConto => TotaleEsatto
  <2> SUFFICES ASSUME InvConto PROVE TotaleEsatto
    OBVIOUS
  <2> USE DEF InvConto, TipiConto
  <2>1. ASSUME pc = "fine" PROVE totale = byte_vivi(Raggiunti) /\ ~ NonRappresentabile(Raggiunti)
    <3>1. ByteMancanti = {}
      BY <2>1, SenzaElementi, ByteDellUnione DEF Nulla_resta, ByteMancanti
    <3>2. ByteSommati = ByteContati
      <4>1. DOMAIN per_inizio \ da_sommare = DOMAIN per_inizio
        BY <2>1
      <4> QED
        BY <4>1 DEF ByteSommati, ByteContati
    <3>3. totale = byte_vivi(Raggiunti)
      BY <2>1, <3>1, <3>2 DEF byte_vivi
    <3> QED
      BY <3>3, MaxU64Assunto DEF NonRappresentabile
  <2> QED
    BY <2>1 DEF TotaleEsatto
<1> QED
  BY <1>1, <1>2, <1>3, PTL DEF SpecConto

-----------------------------------------------------------------------------
(* Powers of two and products *)

\* A power of two counts the subsets of an interval, so it is a positive natural
\* and grows with its exponent.
LEMMA Potenza ==
    ASSUME NEW n \in Nat
    PROVE  2 ^ n \in Nat /\ 2 ^ n >= 1
<1>1. IsFiniteSet(1 .. n) /\ Cardinality(1 .. n) = n
  BY FS_Interval
<1>2. IsFiniteSet(SUBSET (1 .. n)) /\ Cardinality(SUBSET (1 .. n)) = 2 ^ n
  BY <1>1, FS_SUBSET
<1>3. Cardinality(SUBSET (1 .. n)) \in Nat
  BY <1>2, FS_CardinalityType
<1>4. Cardinality(SUBSET (1 .. n)) # 0
  BY <1>2, FS_EmptySet
<1> QED
  BY <1>2, <1>3, <1>4

LEMMA PotenzaCresce ==
    ASSUME NEW m \in Nat, NEW n \in Nat, m <= n
    PROVE  2 ^ m <= 2 ^ n
<1>1. /\ IsFiniteSet(1 .. m) /\ Cardinality(1 .. m) = m
      /\ IsFiniteSet(1 .. n) /\ Cardinality(1 .. n) = n
  BY FS_Interval
<1>2. Cardinality(SUBSET (1 .. m)) = 2 ^ m
  BY <1>1, FS_SUBSET
<1>3. IsFiniteSet(SUBSET (1 .. n)) /\ Cardinality(SUBSET (1 .. n)) = 2 ^ n
  BY <1>1, FS_SUBSET
<1>4. SUBSET (1 .. m) \subseteq SUBSET (1 .. n)
  BY SMT
<1>5. Cardinality(SUBSET (1 .. m)) <= Cardinality(SUBSET (1 .. n))
  BY <1>3, <1>4, FS_Subset
<1> QED
  BY <1>2, <1>3, <1>5

LEMMA ProdottoNaturale ==
    ASSUME NEW x \in Nat, NEW y \in Nat
    PROVE  x * y \in Nat
OBVIOUS

LEMMA ProdottoCresce ==
    ASSUME NEW x \in Nat, NEW y \in Nat, NEW z \in Nat, y <= z
    PROVE  x * y <= x * z /\ y * x <= z * x
<1>1. z - y \in Nat /\ z = y + (z - y)
  OBVIOUS
<1>2. x * (z - y) \in Nat
  BY <1>1, ProdottoNaturale
<1>3. x * z = x * y + x * (z - y)
  BY <1>1
<1> QED
  BY <1>2, <1>3

\* What div_ceil rounds up is not below what it divides.
LEMMA PerEccesso ==
    ASSUME NEW x \in Nat, NEW y \in Nat \ {0}
    PROVE  /\ div_ceil(x, y) \in Nat
           /\ div_ceil(x, y) * y >= x
           /\ div_ceil(x, y) * y <= x + y - 1
BY DEF div_ceil

-----------------------------------------------------------------------------
(* The expansion limit *)

FattoriUsati ==
    [ordinabile : {TRUE}, mantissa : 0 .. MaxMantissa, esponente : -MaxEsponente .. MaxEsponente]
    \cup {[ordinabile |-> FALSE, mantissa |-> 1, esponente |-> 0]}

\* The counts are naturals and fit the wide type with room for a mantissa.
LEMMA Larghezze ==
    /\ MaxStretto \in Nat /\ 2 ^ Larghezza \in Nat /\ 2 ^ Larghezza >= 1
    /\ 2 ^ Bit \in Nat /\ 2 ^ Bit = MaxStretto + 1
    /\ Larghezza \in Nat /\ MaxMantissa \in Nat /\ MaxEsponente \in Nat
    /\ MaxStretto < 2 ^ Larghezza /\ (2 * MaxStretto) * MaxMantissa < 2 ^ Larghezza
<1>1. Bit \in Nat /\ Larghezza \in Nat
  BY BudgetAssunto, LarghezzaAssunta
<1>2. 2 ^ Bit \in Nat /\ 2 ^ Bit >= 1 /\ 2 ^ Larghezza \in Nat /\ 2 ^ Larghezza >= 1
  BY <1>1, Potenza
<1> QED
  BY <1>1, <1>2, DominioAssunto DEF MaxStretto

\* A shift that the checked operations accept loses no bit; one they refuse is past
\* every count and every scaled base.
LEMMA Spostamento ==
    ASSUME NEW x \in Nat, NEW s \in Nat
    PROVE  /\ x * 2 ^ s \in Nat
           /\ Spostabile(x, s) => Sposta(x, s) = x * 2 ^ s
           /\ ~ Spostabile(x, s) /\ x # 0 => x * 2 ^ s >= 2 ^ Larghezza
           /\ x # 0 => x * 2 ^ s # 0
<1>1. 2 ^ s \in Nat /\ 2 ^ s >= 1
  BY Potenza
<1> DEFINE p == 2 ^ s
           W == 2 ^ Larghezza
<1>2. W \in Nat /\ W >= 1 /\ Larghezza \in Nat
  BY Larghezze
<1>3. x * p \in Nat
  BY <1>1, ProdottoNaturale
<1>4. Spostabile(x, s) => Sposta(x, s) = x * p
  <2> SUFFICES ASSUME x * p < W PROVE (x * p) % W = x * p
    BY DEF Spostabile, Sposta, StaNelTipo
  <2> HIDE DEF p, W
  <2> QED
    BY <1>2, <1>3
<1>5. x # 0 => x * p >= p
  <2> HIDE DEF p
  <2>1. x # 0 => 1 * p <= x * p
    BY <1>1, ProdottoCresce DEF p
  <2> QED
    BY <1>1, <2>1 DEF p
<1>6. ASSUME ~ Spostabile(x, s), x # 0 PROVE x * p >= W
  <2>1. CASE s >= Larghezza
    <3>1. W <= p
      BY <1>2, <2>1, PotenzaCresce
    <3> QED
      BY <1>1, <1>2, <1>3, <1>5, <1>6, <3>1
  <2>2. CASE s < Larghezza
    BY <1>2, <1>3, <1>6, <2>2 DEF Spostabile, StaNelTipo
  <2> QED
    BY <1>2, <2>1, <2>2
<1> QED
  BY <1>1, <1>3, <1>4, <1>5, <1>6

LEMMA FattoreOrdinabile ==
    ASSUME NEW f \in FattoriUsati, f.ordinabile
    PROVE  f.mantissa \in 0 .. MaxMantissa /\ f.esponente \in -MaxEsponente .. MaxEsponente
<1>1. f # [ordinabile |-> FALSE, mantissa |-> 1, esponente |-> 0]
  OBVIOUS
<1>2. f \in [ordinabile : {TRUE}, mantissa : 0 .. MaxMantissa,
             esponente : -MaxEsponente .. MaxEsponente]
  BY <1>1 DEF FattoriUsati
<1> QED
  BY <1>2

\* expansion_exceeded compares with the exact ratio.
LEMMA ConfrontoEsatto ==
    ASSUME NEW out \in 0 .. MaxStretto, NEW b \in 0 .. 2 * MaxStretto, NEW f \in FattoriUsati
    PROVE  expansion_exceeded(out, b, f) <=> OltreEsatto(out, b, f)
<1> DEFINE W == 2 ^ Larghezza
           s == b * f.mantissa
<1>1. CASE ~ f.ordinabile
  BY <1>1 DEF expansion_exceeded, OltreEsatto
<1>2. CASE f.ordinabile
  <2>1. f.mantissa \in 0 .. MaxMantissa /\ f.esponente \in -MaxEsponente .. MaxEsponente
    BY <1>2, FattoreOrdinabile
  <2>2. f.esponente \in Int
    BY <2>1, Larghezze
  <2>3. s \in Nat /\ s < W
    <3>1. b \in Nat /\ f.mantissa \in Nat /\ f.mantissa <= MaxMantissa /\ b <= 2 * MaxStretto
      BY <2>1, Larghezze
    <3>2. b * f.mantissa <= b * MaxMantissa
      BY <3>1, Larghezze, ProdottoCresce
    <3>3. b * MaxMantissa <= (2 * MaxStretto) * MaxMantissa
      <4>1. 2 * MaxStretto \in Nat
        BY Larghezze
      <4> QED
        BY <3>1, <4>1, Larghezze, ProdottoCresce
    <3>4. b * f.mantissa \in Nat /\ b * MaxMantissa \in Nat /\ (2 * MaxStretto) * MaxMantissa \in Nat
      BY <3>1, Larghezze, ProdottoNaturale
    <3> QED
      BY <3>2, <3>3, <3>4, Larghezze
  <2>4. out \in Nat /\ out < W
    BY Larghezze
  <2>5. W \in Nat
    BY Larghezze
  <2>6. StaNelTipo(s)
    BY <2>3 DEF StaNelTipo
  <2> HIDE DEF W
  <2>7. CASE f.esponente >= 0
    <3> DEFINE e == f.esponente
    <3>1. e \in Nat
      BY <2>2, <2>7
    <3>2. OltreEsatto(out, b, f) <=> out > s * 2 ^ e
      BY <1>2, <2>7 DEF OltreEsatto
    <3>3. expansion_exceeded(out, b, f) <=>
            IF s = 0 THEN out > 0 ELSE Spostabile(s, e) /\ out > Sposta(s, e)
      BY <1>2, <2>6, <2>7 DEF expansion_exceeded
    <3> HIDE DEF s, e
    <3>4. /\ s * 2 ^ e \in Nat
          /\ Spostabile(s, e) => Sposta(s, e) = s * 2 ^ e
          /\ ~ Spostabile(s, e) /\ s # 0 => s * 2 ^ e >= W
      BY <2>3, <3>1, Spostamento DEF W
    <3>5. 2 ^ e \in Nat
      BY <3>1, Potenza
    <3>6. s = 0 => s * 2 ^ e = 0
      BY <3>5
    <3> QED
      BY <2>3, <2>4, <2>5, <3>2, <3>3, <3>4, <3>6
  <2>8. CASE f.esponente < 0
    <3> DEFINE e == -f.esponente
    <3>1. e \in Nat
      BY <2>2, <2>8
    <3>0. ~ f.esponente >= 0
      BY <2>2, <2>8
    <3>2. OltreEsatto(out, b, f) <=> out * 2 ^ e > s
      BY <1>2, <3>0 DEF OltreEsatto
    <3>3. expansion_exceeded(out, b, f) <=>
            IF s = 0 THEN out > 0
            ELSE IF Spostabile(out, e) THEN Sposta(out, e) > s ELSE out # 0
      BY <1>2, <2>6, <3>0 DEF expansion_exceeded
    <3> HIDE DEF s, e
    <3>4. /\ out * 2 ^ e \in Nat
          /\ Spostabile(out, e) => Sposta(out, e) = out * 2 ^ e
          /\ ~ Spostabile(out, e) /\ out # 0 => out * 2 ^ e >= W
          /\ out # 0 => out * 2 ^ e # 0
      BY <2>4, <3>1, Spostamento DEF W
    <3>5. 2 ^ e \in Nat
      BY <3>1, Potenza
    <3>6. out = 0 => out * 2 ^ e = 0
      BY <3>5
    <3> QED
      BY <2>3, <2>4, <2>5, <3>2, <3>3, <3>4, <3>6
  <2> QED
    BY <2>2, <2>7, <2>8
<1> QED
  BY <1>1, <1>2

\* A smaller base is exceeded sooner.
LEMMA BaseMinore ==
    ASSUME NEW out \in Nat, NEW b \in Nat, NEW c \in Nat, b <= c, NEW f \in FattoriUsati,
           OltreEsatto(out, c, f)
    PROVE  OltreEsatto(out, b, f)
<1>1. CASE ~ f.ordinabile
  BY <1>1 DEF OltreEsatto
<1>2. CASE f.ordinabile
  <2>1. f.mantissa \in Nat /\ f.esponente \in Int
    BY <1>2, Larghezze, FattoreOrdinabile
  <2>2. b * f.mantissa <= c * f.mantissa /\ b * f.mantissa \in Nat /\ c * f.mantissa \in Nat
    BY <2>1, ProdottoCresce, ProdottoNaturale
  <2> DEFINE s == b * f.mantissa
             t == c * f.mantissa
             e == f.esponente
  <2>3. CASE e >= 0
    <3>1. out > t * 2 ^ e
      BY <1>2, <2>3 DEF OltreEsatto
    <3>2. 2 ^ e \in Nat
      BY <2>1, <2>3, Potenza
    <3>3. s * 2 ^ e <= t * 2 ^ e /\ s * 2 ^ e \in Nat /\ t * 2 ^ e \in Nat
      <4> HIDE DEF s, t
      <4> QED
        BY <2>2, <3>2, ProdottoCresce, ProdottoNaturale DEF s, t
    <3>4. out > s * 2 ^ e
      <4> HIDE DEF s, t, e
      <4> QED
        BY <3>1, <3>3
    <3> QED
      BY <1>2, <2>3, <3>4 DEF OltreEsatto
  <2>4. CASE ~ e >= 0
    <3>1. out * 2 ^ (-e) > t
      BY <1>2, <2>4 DEF OltreEsatto
    <3>2. 2 ^ (-e) \in Nat
      BY <2>1, <2>4, Potenza
    <3>3. out * 2 ^ (-e) > s
      <4>1. out * 2 ^ (-e) \in Nat
        BY <3>2, ProdottoNaturale
      <4> HIDE DEF s, t, e
      <4> QED
        BY <2>2, <3>1, <4>1 DEF s, t
    <3> QED
      BY <1>2, <2>4, <3>3 DEF OltreEsatto
  <2> QED
    BY <2>3, <2>4
<1> QED
  BY <1>1, <1>2

-----------------------------------------------------------------------------
(* The prediction of a peak *)

Misurati == [righe : Conteggi, byte : Conteggi, coppie : Conteggi, celle : Conteggi]

\* per_unita rounds up, and with Mille >= 4 four of its results still fit the wide type.
LEMMA PerUnita ==
    ASSUME NEW x \in Conteggi, NEW u \in Conteggi
    PROVE  /\ per_unita(x, u) \in Nat
           /\ per_unita(x, u) * Mille >= x * u
           /\ 4 * per_unita(x, u) <= MaxStretto * MaxStretto + 3
           /\ x * u \in Nat
<1> DEFINE p == per_unita(x, u)
<1>1. x \in Nat /\ u \in Nat /\ x <= MaxStretto /\ u <= MaxStretto /\ MaxStretto \in Nat
  BY Larghezze DEF Conteggi
<1>2. x * u \in Nat /\ MaxStretto * MaxStretto \in Nat
  BY <1>1, ProdottoNaturale
<1>3. x * u <= MaxStretto * MaxStretto
  <2>1. x * u <= x * MaxStretto /\ x * MaxStretto <= MaxStretto * MaxStretto
    BY <1>1, ProdottoCresce
  <2>2. x * MaxStretto \in Nat
    BY <1>1, ProdottoNaturale
  <2> QED
    BY <1>2, <2>1, <2>2
<1>4. Mille \in Nat \ {0} /\ Mille >= 4
  BY BudgetAssunto
<1>5. p \in Nat /\ p * Mille >= x * u /\ p * Mille <= x * u + Mille - 1
  BY <1>2, <1>4, PerEccesso DEF per_unita
<1> HIDE DEF p
<1>6. p * Mille \in Nat /\ p * 4 \in Nat
  BY <1>4, <1>5, ProdottoNaturale
<1>7. 4 * p <= x * u + 3
  <2>1. CASE p = 0
    BY <1>2, <2>1
  <2>2. CASE p # 0
    <3>1. p - 1 \in Nat
      BY <1>5, <2>2
    <3>2. (p - 1) * 4 <= (p - 1) * Mille
      BY <1>4, <3>1, ProdottoCresce
    <3>3. (p - 1) * Mille = p * Mille - Mille
      BY <1>4, <1>5
    <3> QED
      BY <1>2, <1>4, <1>5, <1>6, <3>1, <3>2, <3>3
  <2> QED
    BY <2>1, <2>2
<1> QED
  BY <1>2, <1>3, <1>5, <1>7 DEF p

\* The quantities of a step are counts.
LEMMA IngressoMisurato ==
    ASSUME NEW r \in {<<x>> : x \in Quantita} \cup (Quantita \X Quantita),
           NEW c \in Quantita, NEW vivi \in Quantita, NEW copia \in Quantita \cup {MaxStretto + 1}
    PROVE  ingresso_del_passo(r, 1, c, byte_ingresso(vivi, copia)) \in Misurati
<1> DEFINE M == MaxStretto
<1>1. M \in Nat /\ M >= 1
  <2>1. 2 ^ 2 = 4 /\ 2 \in Nat /\ Bit \in Nat /\ 2 <= Bit
    BY BudgetAssunto
  <2>2. 2 ^ 2 <= 2 ^ Bit
    BY <2>1, PotenzaCresce
  <2> QED
    BY <2>1, <2>2, Larghezze
<1>2. Quantita \subseteq 0 .. M
  BY QuantitaAssunte
<1>3. \A x \in Nat : Satura(x, M) \in 0 .. M
  BY <1>1 DEF Satura
<1>4. somma(r) \in 0 .. M /\ coppie(r) \in 0 .. M
  <2>1. CASE r \in {<<x>> : x \in Quantita}
    <3>1. Len(r) = 1 /\ r[1] \in Nat
      BY <1>2, <2>1
    <3> QED
      BY <1>1, <1>3, <3>1 DEF somma, coppie
  <2>2. CASE r \in Quantita \X Quantita
    <3>0. PICK x \in Quantita, y \in Quantita : r = <<x, y>>
      BY <2>2
    <3>1. Len(r) = 2 /\ r[1] \in Nat /\ r[2] \in Nat
      BY <1>2, <3>0
    <3>2. r[1] + r[2] \in Nat /\ r[1] * r[2] \in Nat
      BY <3>1, ProdottoNaturale
    <3> QED
      BY <1>1, <1>3, <3>1, <3>2 DEF somma, coppie
  <2> QED
    BY <2>1, <2>2
<1>5. byte_ingresso(vivi, copia) \in 0 .. M
  <2>1. copia \in Nat /\ vivi \in 0 .. M
    BY <1>1, <1>2
  <2> QED
    BY <1>1, <1>3, <2>1 DEF byte_ingresso, Maggiore
<1> DEFINE q == Maggiore(somma(r), 1)
<1>6. q \in 0 .. M
  BY <1>1, <1>4 DEF Maggiore
<1>7. Satura(q * c, M) \in 0 .. M
  <2> HIDE DEF q, M
  <2>0. c \in 0 .. M
    BY <1>2
  <2>1. q \in Nat /\ c \in Nat
    BY <1>1, <1>6, <2>0
  <2>2. q * c \in Nat
    BY <2>1, ProdottoNaturale
  <2> QED
    BY <1>3, <2>2
<1> QED
  BY <1>4, <1>5, <1>6, <1>7 DEF ingresso_del_passo, Misurati, Conteggi

\* The prediction of `picco` is never below the exact peak, and the sums of `base` fit.
LEMMA PiccoPerEccesso ==
    ASSUME NEW c \in Costi, NEW g \in Misurati
    PROVE  /\ base(c, g) <= MaxLargo
           /\ \/ picco(c, g) = MaxStretto
              \/ picco(c, g) * Mille * Denominatore >= Esatto(c, g)
<1> DEFINE M == MaxStretto
           p1 == per_unita(c.r, g.righe)
           p2 == per_unita(c.c, g.byte)
           p3 == per_unita(c.r_stretta, g.righe)
           p4 == per_unita(c.c_larga, g.byte)
           p5 == per_unita(c.k, g.celle)
           p6 == per_unita(c.p, g.coppie)
           e1 == c.r * g.righe
           e2 == c.c * g.byte
           e3 == c.r_stretta * g.righe
           e4 == c.c_larga * g.byte
           e5 == c.k * g.celle
           e6 == c.p * g.coppie
           B == base(c, g)
           mx == Maggiore(Maggiore(p1 + p2, p3), p4)
           me == Maggiore(Maggiore(e1 + e2, e3), e4)
<1>1. M \in Nat /\ M >= 3
  <2>1. 2 ^ 2 = 4 /\ 2 \in Nat /\ Bit \in Nat /\ 2 <= Bit
    BY BudgetAssunto
  <2>2. 2 ^ 2 <= 2 ^ Bit
    BY <2>1, PotenzaCresce
  <2> QED
    BY <2>1, <2>2, Larghezze
<1>2. /\ {c.r, c.c, c.r_stretta, c.c_larga, c.k, c.p} \subseteq Conteggi
      /\ {g.righe, g.byte, g.celle, g.coppie} \subseteq Conteggi
      /\ c.a \in Nat /\ c.a <= M
  <2>1. Coefficienti \subseteq Conteggi
    BY QuantitaAssunte DEF Conteggi
  <2>2. {c.a, c.r, c.c, c.r_stretta, c.c_larga, c.k, c.p} \subseteq Coefficienti
    BY DEF Costi
  <2>3. c.a \in 0 .. M
    BY <2>1, <2>2 DEF Conteggi
  <2>4. {g.righe, g.byte, g.celle, g.coppie} \subseteq Conteggi
    BY DEF Misurati
  <2> HIDE DEF M
  <2>5. c.a \in Nat /\ c.a <= M
    BY <1>1, <2>3
  <2> QED
    BY <2>1, <2>2, <2>4, <2>5
<1>3. /\ p1 \in Nat /\ p1 * Mille >= e1 /\ 4 * p1 <= M * M + 3 /\ e1 \in Nat
      /\ p2 \in Nat /\ p2 * Mille >= e2 /\ 4 * p2 <= M * M + 3 /\ e2 \in Nat
      /\ p3 \in Nat /\ p3 * Mille >= e3 /\ 4 * p3 <= M * M + 3 /\ e3 \in Nat
  BY <1>2, PerUnita
<1>4. /\ p4 \in Nat /\ p4 * Mille >= e4 /\ 4 * p4 <= M * M + 3 /\ e4 \in Nat
      /\ p5 \in Nat /\ p5 * Mille >= e5 /\ 4 * p5 <= M * M + 3 /\ e5 \in Nat
      /\ p6 \in Nat /\ p6 * Mille >= e6 /\ 4 * p6 <= M * M + 3 /\ e6 \in Nat
  BY <1>2, PerUnita
<1>5. B = c.a + mx + p5 + p6
  BY DEF base
<1>6. Esatto(c, g) = Numeratore * (Mille * c.a + me + e5 + e6)
  BY DEF Esatto
<1>7. Mille \in Nat \ {0} /\ Numeratore \in Nat \ {0} /\ Denominatore \in Nat \ {0}
      /\ Denominatore <= M
  BY BudgetAssunto, Larghezze
<1>8. MaxLargo = M * M + 2 * M /\ M * M \in Nat
  BY <1>1, Larghezze DEF MaxLargo
<1> DEFINE D == Denominatore
           N == Numeratore
           K == Mille
           L == MaxLargo
<1> HIDE DEF M, p1, p2, p3, p4, p5, p6, e1, e2, e3, e4, e5, e6
<1>9. /\ mx \in Nat /\ mx >= p1 + p2 /\ mx >= p3 /\ mx >= p4
      /\ mx = p1 + p2 \/ mx = p3 \/ mx = p4
  BY <1>3, <1>4 DEF Maggiore
<1>10. /\ me \in Nat
       /\ me = e1 + e2 \/ me = e3 \/ me = e4
  BY <1>3, <1>4 DEF Maggiore
<1> HIDE DEF mx, me, B
<1>11. B \in Nat /\ B <= L
  <2>1. 4 * mx <= 2 * (M * M) + 6
    BY <1>3, <1>4, <1>8, <1>9
  <2>2. 4 * B = 4 * c.a + 4 * mx + 4 * p5 + 4 * p6 /\ B \in Nat
    BY <1>2, <1>4, <1>5, <1>9
  <2>3. 4 * B <= 4 * M + 2 * (M * M) + 6 + 2 * (M * M) + 6
    BY <1>1, <1>2, <1>4, <1>8, <1>9, <2>1, <2>2
  <2> QED
    BY <1>1, <1>8, <2>2, <2>3
<1>12. B * K >= K * c.a + me + e5 + e6
  <2> HIDE DEF K
  <2>1. K \in Nat
    BY <1>7 DEF K
  <2>2. mx * K >= me
    <3>1. /\ (p1 + p2) * K <= mx * K /\ p3 * K <= mx * K /\ p4 * K <= mx * K
      BY <1>3, <1>4, <1>9, <2>1, ProdottoCresce
    <3>2. (p1 + p2) * K = p1 * K + p2 * K
      BY <1>3, <2>1
    <3>3. {p1 * K, p2 * K, p3 * K, p4 * K, mx * K} \subseteq Nat
      BY <1>3, <1>4, <1>9, <2>1, ProdottoNaturale
    <3>4. (p1 + p2) * K >= e1 + e2
      BY <1>3, <3>2, <3>3 DEF K
    <3>5. p3 * K >= e3 /\ p4 * K >= e4 /\ (p1 + p2) * K \in Nat
      BY <1>3, <1>4, <3>2, <3>3 DEF K
    <3>6. CASE me = e1 + e2
      BY <1>3, <3>1, <3>3, <3>4, <3>5, <3>6
    <3>7. CASE me = e3 \/ me = e4
      BY <1>3, <1>4, <3>1, <3>3, <3>5, <3>7
    <3> QED
      BY <1>10, <3>6, <3>7
  <2>3. B * K = c.a * K + mx * K + p5 * K + p6 * K
    BY <1>2, <1>4, <1>5, <1>9, <2>1
  <2>4. {c.a * K, mx * K, p5 * K, p6 * K} \subseteq Nat /\ c.a * K = K * c.a
    BY <1>2, <1>4, <1>9, <2>1, ProdottoNaturale
  <2>5. p5 * K >= e5 /\ p6 * K >= e6
    BY <1>4 DEF K
  <2> QED
    BY <1>4, <1>10, <2>2, <2>3, <2>4, <2>5
<1> DEFINE S == Satura(B * N, L)
           d == div_ceil(S, D)
<1>13. L \in Nat /\ B * N \in Nat
  BY <1>1, <1>7, <1>8, <1>11, ProdottoNaturale
<1>14. S \in Nat /\ (S = B * N \/ S = L)
  BY <1>13 DEF Satura
<1> HIDE DEF S
<1>15. d \in Nat /\ d * D >= S
  BY <1>7, <1>14, PerEccesso
<1>16. picco(c, g) = Satura(d, M)
  BY DEF picco, S, B, M
<1> HIDE DEF d
<1>17. ASSUME picco(c, g) # M
       PROVE  picco(c, g) * K * D >= Esatto(c, g)
  <2>1. picco(c, g) = d /\ d <= M
    BY <1>1, <1>15, <1>16, <1>17 DEF Satura
  <2>2. S = B * N
    <3>1. d * D <= M * D /\ M * D <= M * M
      BY <1>1, <1>7, <1>15, <2>1, ProdottoCresce
    <3>2. d * D \in Nat /\ M * D \in Nat
      BY <1>1, <1>7, <1>15, ProdottoNaturale
    <3>3. S <= M * M
      BY <1>8, <1>14, <1>15, <3>1, <3>2
    <3>4. S # L
      BY <1>1, <1>8, <1>14, <3>3
    <3> QED
      BY <1>14, <3>4
  <2> DEFINE X == K * c.a + me + e5 + e6
  <2>3. X \in Nat
    <3>1. K * c.a \in Nat
      BY <1>2, <1>7, ProdottoNaturale
    <3> QED
      BY <1>4, <1>10, <3>1
  <2>4. Esatto(c, g) = N * X
    BY <1>6
  <2>5. X <= B * K
    BY <1>12
  <2> HIDE DEF X, K, D, N
  <2>6. K \in Nat /\ D \in Nat /\ N \in Nat
    BY <1>7 DEF K, D, N
  <2>7. B * K \in Nat
    BY <1>11, <2>6, ProdottoNaturale
  <2>8. N * X <= N * (B * K)
    BY <2>3, <2>5, <2>6, <2>7, ProdottoCresce
  <2>9. N * (B * K) = (B * N) * K
    BY <1>11, <2>6
  <2>10. B * N \in Nat /\ d * D \in Nat /\ B * N <= d * D
    BY <1>13, <1>15, <2>2, <2>6, ProdottoNaturale DEF N, D
  <2>11. (B * N) * K <= (d * D) * K
    BY <2>6, <2>10, ProdottoCresce
  <2>12. (d * D) * K = d * K * D
    BY <1>15, <2>6
  <2>13. {N * X, N * (B * K), (B * N) * K, (d * D) * K} \subseteq Int
    BY <2>3, <2>6, <2>7, <2>10, ProdottoNaturale
  <2> QED
    BY <2>1, <2>4, <2>8, <2>9, <2>11, <2>12, <2>13
<1> QED
  BY <1>11, <1>17 DEF B, K, M, D

-----------------------------------------------------------------------------
(* The plans that AggiungiPasso writes *)

Operazioni == {Op(arieta, conserva) : arieta \in {"Unary", "BinaryOrdered"}, conserva \in BOOLEAN}
PassiScritti == [out : NomiAmmessi, inputs : Seq(NomiAmmessi), op : Operazioni]

PassoScritto(p, i) ==
    /\ p.steps[i].out = Uscite[i]
    /\ p.steps[i].inputs \in Seq(Definiti(p, i))
    /\ Len(p.steps[i].inputs) \in {1, 2}
    /\ p.steps[i].op.arieta = IF Len(p.steps[i].inputs) = 1 THEN "Unary" ELSE "BinaryOrdered"

PianoScritto(p) ==
    /\ p \in [tipo : {"piano"}, inputs : Ingressi, steps : Seq(PassiScritti),
              outputs : Seq(NomiAmmessi)]
    /\ p.outputs = <<Head(p.inputs)>>
    /\ Len(p.steps) <= MaxPassi
    /\ \A i \in Indici(p) : PassoScritto(p, i)

LEMMA FattiDellOperazione ==
    ASSUME NEW o \in Operazioni
    PROVE  /\ o.nota /\ o.canonico /\ ~ o.lunga /\ o.conCosto
           /\ o.prepara = "ok" /\ o.analisi = "ok"
           /\ o.arieta \in {"Unary", "BinaryOrdered"} /\ o.conserva \in BOOLEAN
<1>1. PICK a \in {"Unary", "BinaryOrdered"}, c \in BOOLEAN : o = Op(a, c)
  BY DEF Operazioni
<1> QED
  BY <1>1 DEF Op

\* The names of the inputs and of the steps are distinct and allowed.
LEMMA NomiDelPiano ==
    ASSUME NEW p, PianoScritto(p)
    PROVE  /\ p.inputs \in Seq(NomiAmmessi) /\ p.inputs # <<>> /\ SenzaRipetizioni(p.inputs)
           /\ Len(p.steps) \in Nat
           /\ \A i \in Indici(p) : p.steps[i] \in PassiScritti /\ i \in DOMAIN Uscite
           /\ \A i, j \in Indici(p) : p.steps[i].out = p.steps[j].out => i = j
           /\ \A i \in Indici(p) : p.steps[i].out \notin ToSet(p.inputs)
           /\ ToSet(p.inputs) \subseteq NomiAmmessi
<1>1. p.inputs \in Ingressi /\ p.steps \in Seq(PassiScritti)
  BY DEF PianoScritto
<1>2. /\ p.inputs \in Seq(NomiAmmessi) /\ p.inputs # <<>> /\ SenzaRipetizioni(p.inputs)
      /\ ToSet(p.inputs) \cap ToSet(Uscite) = {}
  BY <1>1, PianiAssunti
<1>3. Len(p.steps) \in Nat /\ \A i \in 1 .. Len(p.steps) : p.steps[i] \in PassiScritti
  BY <1>1
<1>4. /\ Uscite \in Seq(NomiAmmessi) /\ SenzaRipetizioni(Uscite) /\ MaxPassi <= Len(Uscite)
      /\ MaxPassi \in Nat
  BY PianiAssunti
<1>5. Len(Uscite) \in Nat /\ DOMAIN Uscite = 1 .. Len(Uscite)
  BY <1>4
<1>6. \A i \in Indici(p) : i \in DOMAIN Uscite /\ p.steps[i].out = Uscite[i]
  <2>1. Len(p.steps) <= Len(Uscite)
    BY <1>3, <1>4, <1>5 DEF PianoScritto
  <2> QED
    BY <1>3, <1>5, <2>1 DEF PianoScritto, PassoScritto, Indici
<1>7. \A i, j \in Indici(p) : p.steps[i].out = p.steps[j].out => i = j
  BY <1>4, <1>6 DEF SenzaRipetizioni
<1>8. \A i \in Indici(p) : p.steps[i].out \notin ToSet(p.inputs)
  BY <1>2, <1>6 DEF ToSet
<1>9. ToSet(p.inputs) \subseteq NomiAmmessi
  BY <1>2 DEF ToSet
<1> QED
  BY <1>2, <1>3, <1>6, <1>7, <1>8, <1>9 DEF Indici

\* One more step keeps the form.
LEMMA PassoInPiu ==
    ASSUME NEW p, PianoScritto(p), Len(p.steps) < MaxPassi, NEW conserva \in BOOLEAN,
           NEW ins \in SeqOf(Definiti(p, Len(p.steps) + 1), 2) \ {<<>>}
    PROVE  PianoScritto([p EXCEPT !.steps = Append(@,
               [ out |-> Uscite[Len(@) + 1], inputs |-> ins,
                 op |-> Op(IF Len(ins) = 1 THEN "Unary" ELSE "BinaryOrdered", conserva) ])])
<1> DEFINE n == Len(p.steps)
           nuovo == [ out |-> Uscite[n + 1], inputs |-> ins,
                      op |-> Op(IF Len(ins) = 1 THEN "Unary" ELSE "BinaryOrdered", conserva) ]
           q == [p EXCEPT !.steps = Append(p.steps, nuovo)]
           D == Definiti(p, n + 1)
<1>1. n \in Nat /\ n + 1 \in DOMAIN Uscite /\ Uscite[n + 1] \in NomiAmmessi
  <2>1. n \in Nat
    BY DEF PianoScritto
  <2>2. /\ Uscite \in Seq(NomiAmmessi) /\ MaxPassi <= Len(Uscite) /\ MaxPassi \in Nat
    BY PianiAssunti
  <2>3. Len(Uscite) \in Nat /\ DOMAIN Uscite = 1 .. Len(Uscite)
        /\ \A i \in 1 .. Len(Uscite) : Uscite[i] \in NomiAmmessi
    BY <2>2
  <2> HIDE DEF n
  <2>4. n + 1 \in 1 .. Len(Uscite)
    BY <2>1, <2>2, <2>3 DEF n
  <2> QED
    BY <2>1, <2>3, <2>4
<1>2. D \subseteq NomiAmmessi
  <2> SUFFICES ASSUME NEW j \in 1 .. n PROVE p.steps[j].out \in NomiAmmessi
    BY <1>1, NomiDelPiano DEF Definiti
  <2> QED
    BY NomiDelPiano DEF PassiScritti, Indici
<1>3. ins \in Seq(D) /\ Len(ins) \in {1, 2}
  <2>1. PICK m \in 0 .. 2 : ins \in [1 .. m -> D]
    BY DEF SeqOf
  <2> HIDE DEF D
  <2>2. ins \in Seq(D) /\ Len(ins) = m
    BY <2>1
  <2>3. m # 0
    BY <2>1, <2>2, EmptySeq
  <2> QED
    BY <2>1, <2>2, <2>3
<1>4. ins \in Seq(NomiAmmessi)
  BY <1>2, <1>3
<1>5. nuovo \in PassiScritti
  <2>1. nuovo.op \in Operazioni
    BY DEF Operazioni
  <2> QED
    BY <1>1, <1>4, <2>1 DEF PassiScritti
<1> HIDE DEF nuovo
<1>6. /\ p.steps \in Seq(PassiScritti)
      /\ p = [tipo |-> "piano", inputs |-> p.inputs, steps |-> p.steps, outputs |-> p.outputs]
      /\ p.inputs \in Ingressi /\ p.outputs \in Seq(NomiAmmessi)
  BY DEF PianoScritto
<1> DEFINE ss == Append(p.steps, nuovo)
<1>7. /\ ss \in Seq(PassiScritti) /\ Len(ss) = n + 1
      /\ \A i \in 1 .. n : ss[i] = p.steps[i]
      /\ ss[n + 1] = nuovo
  BY <1>5, <1>6, AppendProperties
<1> HIDE DEF ss
<1>8. /\ q = [tipo |-> "piano", inputs |-> p.inputs, steps |-> ss, outputs |-> p.outputs]
      /\ q.inputs = p.inputs /\ q.outputs = p.outputs /\ q.steps = ss
  <2>1. q = [p EXCEPT !.steps = ss]
    BY DEF ss
  <2> HIDE DEF q
  <2>2. q = [tipo |-> "piano", inputs |-> p.inputs, steps |-> ss, outputs |-> p.outputs]
    BY <1>6, <2>1
  <2> QED
    BY <2>2
<1> HIDE DEF q
<1>9. q \in [tipo : {"piano"}, inputs : Ingressi, steps : Seq(PassiScritti),
             outputs : Seq(NomiAmmessi)]
  BY <1>6, <1>7, <1>8
<1>10. q.outputs = <<Head(q.inputs)>> /\ Len(q.steps) <= MaxPassi
  BY <1>1, <1>7, <1>8, PianiAssunti DEF PianoScritto
<1>11. ASSUME NEW i \in 1 .. n + 1
       PROVE  Definiti(q, i) = Definiti(p, i)
  <2>1. \A j \in 1 .. (i - 1) : q.steps[j].out = p.steps[j].out
    BY <1>1, <1>7, <1>8
  <2> QED
    BY <1>8, <2>1 DEF Definiti
<1>12. ASSUME NEW i \in Indici(q)
       PROVE  PassoScritto(q, i)
  <2>1. i \in 1 .. n + 1
    BY <1>7, <1>8 DEF Indici
  <2>2. CASE i \in 1 .. n
    <3>1. PassoScritto(p, i) /\ q.steps[i] = p.steps[i]
      BY <1>7, <1>8, <2>2 DEF PianoScritto, Indici
    <3> QED
      BY <1>11, <2>1, <3>1 DEF PassoScritto
  <2>3. CASE i = n + 1
    <3>1. q.steps[i] = nuovo
      BY <1>7, <1>8, <2>3
    <3>2. /\ nuovo.out = Uscite[i] /\ nuovo.inputs = ins
          /\ nuovo.op.arieta = IF Len(ins) = 1 THEN "Unary" ELSE "BinaryOrdered"
      BY <2>3 DEF nuovo, Op
    <3>3. Definiti(q, i) = D
      BY <1>11, <2>1, <2>3
    <3> QED
      BY <1>3, <3>1, <3>2, <3>3 DEF PassoScritto
  <2> QED
    BY <1>1, <2>1, <2>2, <2>3
<1>13. PianoScritto(q)
  BY <1>9, <1>10, <1>12 DEF PianoScritto
<1> QED
  BY <1>13 DEF q, nuovo, ss

\* A plan so written defines every name once and passes the checks of its steps: what
\* validate can still refuse are the limits on its shape.
LEMMA RifiutaSoloILimiti ==
    ASSUME NEW p, PianoScritto(p)
    PROVE  validate(p, p.inputs, TuttoInRegola) = IF LimitiDelPiano(p) THEN "ok" ELSE "InvalidPlan"
<1> DEFINE ins == p.inputs
           n == Len(p.steps)
<1>1. /\ ins \in Seq(NomiAmmessi) /\ ins # <<>> /\ SenzaRipetizioni(ins)
      /\ n \in Nat /\ ToSet(ins) \subseteq NomiAmmessi
      /\ \A i \in 1 .. n : p.steps[i] \in PassiScritti
      /\ \A i, j \in 1 .. n : p.steps[i].out = p.steps[j].out => i = j
      /\ \A i \in 1 .. n : p.steps[i].out \notin ToSet(ins)
  BY NomiDelPiano DEF Indici
<1>2. ASSUME NEW i \in Indici(p)
      PROVE  /\ p.steps[i].out \in NomiAmmessi
             /\ ToSet(p.steps[i].inputs) \subseteq Definiti(p, i)
             /\ p.steps[i].out \notin Definiti(p, i)
  <2>1. i \in 1 .. n /\ p.steps[i].out \in NomiAmmessi
    BY <1>1, <1>2 DEF Indici, PassiScritti
  <2>2. p.steps[i].inputs \in Seq(Definiti(p, i))
    BY <1>2 DEF PianoScritto, PassoScritto
  <2>3. ToSet(p.steps[i].inputs) \subseteq Definiti(p, i)
    <3> DEFINE D == Definiti(p, i)
    <3> HIDE DEF D
    <3>1. p.steps[i].inputs \in Seq(D)
      BY <2>2 DEF D
    <3>2. \A x \in ToSet(p.steps[i].inputs) : x \in D
      BY <3>1 DEF ToSet
    <3> QED
      BY <3>2 DEF D
  <2>4. p.steps[i].out \notin {p.steps[j].out : j \in 1 .. (i - 1)}
    <3> SUFFICES ASSUME NEW j \in 1 .. (i - 1), p.steps[i].out = p.steps[j].out PROVE FALSE
      OBVIOUS
    <3>1. j \in 1 .. n /\ i # j
      BY <1>1, <2>1
    <3> QED
      BY <1>1, <2>1, <3>1
  <2> QED
    BY <1>1, <2>1, <2>3, <2>4 DEF Definiti
<1>3. /\ p.outputs # <<>>
      /\ ToSet(p.outputs) \subseteq Definiti(p, n + 1)
      /\ SenzaRipetizioni(p.outputs)
  <2>1. p.outputs = <<Head(ins)>>
    BY DEF PianoScritto
  <2>2. Head(ins) \in ToSet(ins)
    <3> HIDE DEF ins
    <3>1. Len(ins) \in Nat /\ Len(ins) # 0 /\ DOMAIN ins = 1 .. Len(ins) /\ Head(ins) = ins[1]
      BY <1>1, EmptySeq
    <3> QED
      BY <3>1 DEF ToSet
  <2> HIDE DEF ins
  <2>3. DOMAIN <<Head(ins)>> = {1} /\ <<Head(ins)>>[1] = Head(ins) /\ <<Head(ins)>> # <<>>
    OBVIOUS
  <2>4. ToSet(p.outputs) = {Head(ins)}
    BY <2>1, <2>3 DEF ToSet
  <2>5. SenzaRipetizioni(p.outputs)
    BY <2>1, <2>3 DEF SenzaRipetizioni
  <2> QED
    BY <2>1, <2>2, <2>3, <2>4, <2>5 DEF Definiti, ins
<1>4. NomiSSA(p)
  BY <1>1, <1>2, <1>3 DEF NomiSSA
<1>5. ASSUME NEW i \in Indici(p) PROVE EsitoDelPasso(p.steps[i]) = "ok"
  <2> DEFINE o == p.steps[i].op
             l == Len(p.steps[i].inputs)
  <2>1. /\ o.nota /\ o.canonico /\ o.conCosto /\ o.prepara = "ok" /\ o.analisi = "ok"
    BY <1>1, FattiDellOperazione DEF Indici, PassiScritti
  <2>2. l \in {1, 2} /\ o.arieta = IF l = 1 THEN "Unary" ELSE "BinaryOrdered"
    BY DEF PianoScritto, PassoScritto
  <2>3. verifica_arieta(o, l) = "ok"
    <3> HIDE DEF o, l
    <3> QED
      BY <2>2 DEF verifica_arieta
  <2> QED
    BY <2>1, <2>3 DEF EsitoDelPasso
<1>6. {i \in Indici(p) : EsitoDelPasso(p.steps[i]) # "ok"} = {}
  BY <1>5
<1> QED
  BY <1>1, <1>4, <1>6 DEF validate, TuttoInRegola

-----------------------------------------------------------------------------
(* The calls *)

\* A call answers once, for the arguments it was given.
InvCalcoli ==
    /\ dati.tipo \in {"espansione", "costo", "piano"}
    /\ dati.tipo = "espansione" =>
         /\ dati \in Espansioni
         /\ risposta # "attesa" =>
              risposta = IF exceeded(dati.vincolo, dati.out, dati.sinistra, dati.destra, dati.fattore)
                           THEN "supera" ELSE "sta"
    /\ dati.tipo = "costo" =>
         /\ dati \in Costi
         /\ risposta # "attesa" => risposta = "previsto" /\ ingresso \in Misurati
    /\ dati.tipo = "piano" =>
         /\ PianoScritto(dati)
         /\ risposta # "attesa" =>
              risposta = IF LimitiDelPiano(dati) THEN "ok" ELSE "InvalidPlan"

LEMMA InitCalcoli_Inv ==
    ASSUME InitCalcoli
    PROVE  InvCalcoli
<1>1. CASE dati \in Espansioni
  <2>1. dati.tipo = "espansione"
    BY <1>1 DEF Espansioni
  <2> QED
    BY <1>1, <2>1 DEF InitCalcoli, InvCalcoli
<1>2. CASE dati \in Costi
  <2>1. dati.tipo = "costo"
    BY <1>2 DEF Costi
  <2> QED
    BY <1>2, <2>1 DEF InitCalcoli, InvCalcoli
<1>3. CASE dati \in PianiVuoti
  <2>1. PICK ins \in Ingressi :
          dati = [tipo |-> "piano", inputs |-> ins, steps |-> <<>>, outputs |-> <<Head(ins)>>]
    BY <1>3 DEF PianiVuoti
  <2>2. ins \in Seq(NomiAmmessi) /\ ins # <<>>
    BY PianiAssunti
  <2>3. Head(ins) \in NomiAmmessi
    BY <2>2
  <2>4. <<>> \in Seq(PassiScritti) /\ <<Head(ins)>> \in Seq(NomiAmmessi) /\ Len(<<>>) = 0
    BY <2>3
  <2>5. /\ dati.tipo = "piano" /\ dati.inputs = ins /\ dati.steps = <<>>
        /\ dati.outputs = <<Head(ins)>>
    BY <2>1
  <2>6. dati \in [tipo : {"piano"}, inputs : Ingressi, steps : Seq(PassiScritti),
                  outputs : Seq(NomiAmmessi)]
    BY <2>1, <2>4
  <2>7. PianoScritto(dati)
    BY <2>4, <2>5, <2>6, PianiAssunti DEF PianoScritto, Indici
  <2> QED
    BY <2>5, <2>7 DEF InitCalcoli, InvCalcoli
<1> QED
  BY <1>1, <1>2, <1>3 DEF InitCalcoli

LEMMA PassoCalcoli ==
    ASSUME InvCalcoli, [NextCalcoli]_varsCalcoli
    PROVE  InvCalcoli'
<1>1. CASE UNCHANGED varsCalcoli
  BY <1>1 DEF varsCalcoli, InvCalcoli
<1>2. CASE Confronta
  BY <1>2 DEF Confronta, InvCalcoli
<1>3. ASSUME NEW righe_in \in {<<x>> : x \in Quantita} \cup (Quantita \X Quantita),
             NEW c \in Quantita, NEW vivi \in Quantita, NEW copia \in Quantita \cup {MaxStretto + 1},
             Prevede(righe_in, c, vivi, copia)
      PROVE  InvCalcoli'
  <2>1. ingresso' \in Misurati
    BY <1>3, IngressoMisurato DEF Prevede
  <2> QED
    BY <1>3, <2>1 DEF Prevede, InvCalcoli
<1>4. ASSUME NEW conserva \in BOOLEAN, AggiungiPasso(conserva)
      PROVE  InvCalcoli'
  <2>1. PianoScritto(dati)
    BY <1>4 DEF AggiungiPasso, InvCalcoli
  <2>2. PianoScritto(dati')
    BY <1>4, <2>1, PassoInPiu DEF AggiungiPasso
  <2>3. dati'.tipo = "piano"
    BY <2>2 DEF PianoScritto
  <2>4. risposta' = "attesa"
    BY <1>4 DEF AggiungiPasso
  <2> QED
    BY <2>2, <2>3, <2>4 DEF InvCalcoli
<1>5. CASE Valida
  <2>1. PianoScritto(dati) /\ dati.tipo = "piano"
    BY <1>5 DEF Valida, InvCalcoli
  <2>2. risposta' = IF LimitiDelPiano(dati) THEN "ok" ELSE "InvalidPlan"
    BY <1>5, <2>1, RifiutaSoloILimiti DEF Valida
  <2>3. dati' = dati
    BY <1>5 DEF Valida
  <2> QED
    BY <2>1, <2>2, <2>3 DEF InvCalcoli
<1> QED
  BY <1>1, <1>2, <1>3, <1>4, <1>5 DEF NextCalcoli

LEMMA CalcoliSempre == SpecCalcoli => []InvCalcoli
<1>1. InitCalcoli => InvCalcoli
  BY InitCalcoli_Inv
<1>2. InvCalcoli /\ [NextCalcoli]_varsCalcoli => InvCalcoli'
  BY PassoCalcoli
<1> QED
  BY <1>1, <1>2, PTL DEF SpecCalcoli

\* The limit that ExpansionConstraint::exceeded applies is the exact comparison of the
\* ratio with the factor, for every width of the wide type, every mantissa and every
\* exponent: neither the checked product nor the checked shifts change its answer.
THEOREM LimiteEsatto == SpecCalcoli => []EspansioneEsatta
<1>1. InvCalcoli => EspansioneEsatta
  <2> SUFFICES ASSUME InvCalcoli, risposta \in {"supera", "sta"}
               PROVE  risposta = "supera" <=> OltreEsatto(dati.out, BaseEsatta, dati.fattore)
    BY DEF EspansioneEsatta
  <2> DEFINE s == dati.sinistra
             d == dati.destra
             f == dati.fattore
             o == dati.out
             v == dati.vincolo
  <2>1. dati.tipo = "espansione"
    BY DEF InvCalcoli
  <2>2. dati \in Espansioni /\ (risposta = "supera" <=> exceeded(v, o, s, d, f))
    BY <2>1 DEF InvCalcoli
  <2>3. o \in 0 .. MaxStretto /\ s \in 0 .. MaxStretto /\ d \in 0 .. MaxStretto /\ v \in Vincoli
    BY <2>2 DEF Espansioni, Conteggi
  <2>4. f \in FattoriUsati
    BY <2>2 DEF Espansioni, FattoriUsati
  <2>5. /\ o \in Nat /\ s \in Nat /\ d \in Nat
        /\ s \in 0 .. 2 * MaxStretto /\ d \in 0 .. 2 * MaxStretto /\ s + d \in 0 .. 2 * MaxStretto
    BY <2>3, Larghezze
  <2> SUFFICES exceeded(v, o, s, d, f) <=> OltreEsatto(o, BaseEsatta, f)
    BY <2>2
  <2>6. CASE v = "SumRelative"
    BY <2>3, <2>4, <2>5, <2>6, ConfrontoEsatto DEF exceeded, BaseEsatta
  <2>7. CASE v = "LeftRelative"
    BY <2>3, <2>4, <2>5, <2>7, ConfrontoEsatto DEF exceeded, BaseEsatta
  <2>8. CASE v = "RightRelative"
    BY <2>3, <2>4, <2>5, <2>8, ConfrontoEsatto DEF exceeded, BaseEsatta
  <2>9. CASE v = "MaxRelative"
    <3>1. exceeded(v, o, s, d, f) <=> expansion_exceeded(o, s, f) \/ expansion_exceeded(o, d, f)
      BY <2>9 DEF exceeded
    <3>2. BaseEsatta = IF s < d THEN s ELSE d
      BY <2>9 DEF BaseEsatta
    <3>3. /\ expansion_exceeded(o, s, f) <=> OltreEsatto(o, s, f)
          /\ expansion_exceeded(o, d, f) <=> OltreEsatto(o, d, f)
      BY <2>3, <2>4, <2>5, ConfrontoEsatto
    <3>4. CASE s < d
      <4>1. OltreEsatto(o, d, f) => OltreEsatto(o, s, f)
        BY <2>4, <2>5, <3>4, BaseMinore
      <4> QED
        BY <3>1, <3>2, <3>3, <3>4, <4>1
    <3>5. CASE ~ s < d
      <4>1. OltreEsatto(o, s, f) => OltreEsatto(o, d, f)
        BY <2>4, <2>5, <3>5, BaseMinore
      <4> QED
        BY <3>1, <3>2, <3>3, <3>5, <4>1
    <3> QED
      BY <3>4, <3>5
  <2> QED
    BY <2>3, <2>6, <2>7, <2>8, <2>9 DEF Vincoli
<1> QED
  BY <1>1, CalcoliSempre, PTL

\* A prediction of the budget is never below the formula of its model, and the sums that
\* `base` does not check stay in the wide type: for every width, denominator of the
\* coefficients, safety factor and quantity that saturates.
THEOREM PrevisionePerEccesso == SpecCalcoli => []MaiPerDifetto
<1>1. InvCalcoli => MaiPerDifetto
  <2> SUFFICES ASSUME InvCalcoli, risposta = "previsto"
               PROVE  /\ base(dati, ingresso) <= MaxLargo
                      /\ \/ picco(dati, ingresso) = MaxStretto
                         \/ picco(dati, ingresso) * Mille * Denominatore >= Esatto(dati, ingresso)
    BY DEF MaiPerDifetto
  <2>1. dati \in Costi /\ ingresso \in Misurati
    BY DEF InvCalcoli
  <2> QED
    BY <2>1, PiccoPerEccesso
<1> QED
  BY <1>1, CalcoliSempre, PTL

-----------------------------------------------------------------------------
(* The depth of a plan *)

LEMMA MassimoDi ==
    ASSUME NEW T, T \subseteq Nat, T # {}, NEW n \in Nat, \A x \in T : x <= n
    PROVE  Max(T) \in T /\ \A y \in T : y <= Max(T)
<1> DEFINE U == {n - x : x \in T}
<1>1. U \subseteq Nat /\ U # {}
  <2>1. PICK x : x \in T
    OBVIOUS
  <2>2. n - x \in U
    BY <2>1
  <2>3. \A y \in T : n - y \in Nat
    OBVIOUS
  <2> QED
    BY <2>2, <2>3
<1>2. PICK u \in U : \A v \in U : u <= v
  <2> HIDE DEF U
  <2> QED
    BY <1>1, MinimoDi
<1>3. PICK x \in T : u = n - x
  OBVIOUS
<1>4. \A y \in T : x >= y
  <2> SUFFICES ASSUME NEW y \in T PROVE x >= y
    OBVIOUS
  <2>1. n - y \in U /\ n - x <= n - y
    BY <1>2, <1>3
  <2>2. x \in Nat /\ y \in Nat
    BY <1>3
  <2> QED
    BY <2>1, <2>2
<1>5. Max(T) \in T /\ \A y \in T : Max(T) >= y
  BY <1>4 DEF Max
<1> QED
  BY <1>5

\* What step i makes of the depths h.
UnPassoPiuSotto(p, h, i) ==
    [h EXCEPT ![p.steps[i].out] = 1 + Max({0} \cup {h[n] : n \in ToSet(p.steps[i].inputs)})]

\* g is `profondita` along the first n steps.
ProfonditaFino(p, g, n) ==
    g = [i \in 0 .. n |-> IF i = 0 THEN [m \in Nomi |-> 0] ELSE UnPassoPiuSotto(p, g[i - 1], i)]

LEMMA ProfonditaEsiste ==
    ASSUME NEW p, NEW N \in Nat
    PROVE  \E g : ProfonditaFino(p, g, N)
<1> DEFINE T == {n \in Nat : ~ \E g : ProfonditaFino(p, g, n)}
<1> SUFFICES ASSUME T # {} PROVE FALSE
  OBVIOUS
<1>1. PICK m \in T : \A n \in T : m <= n
  <2> HIDE DEF T
  <2>1. T \subseteq Nat
    BY DEF T
  <2> QED
    BY <2>1, MinimoDi
<1> DEFINE zero == [n \in Nomi |-> 0]
<1>2. CASE m = 0
  <2> DEFINE g == [i \in 0 .. 0 |-> zero]
  <2>1. g = [i \in 0 .. 0 |-> IF i = 0 THEN zero ELSE UnPassoPiuSotto(p, g[i - 1], i)]
    OBVIOUS
  <2>2. ProfonditaFino(p, g, 0)
    BY <2>1 DEF ProfonditaFino
  <2> QED
    BY <1>2, <2>2
<1>3. CASE m # 0
  <2>1. m \in Nat /\ m - 1 \in Nat /\ ~ (m <= m - 1)
    BY <1>3
  <2>2. PICK h : ProfonditaFino(p, h, m - 1)
    BY <1>1, <2>1
  <2> DEFINE g == [i \in 0 .. m |-> IF i = m THEN UnPassoPiuSotto(p, h[m - 1], m) ELSE h[i]]
  <2>3. ASSUME NEW i \in 0 .. m
        PROVE  g[i] = IF i = 0 THEN zero ELSE UnPassoPiuSotto(p, g[i - 1], i)
    <3>1. CASE i = m
      <4>1. g[i - 1] = h[m - 1]
        BY <1>3, <3>1, <2>1
      <4> QED
        BY <1>3, <3>1, <4>1
    <3>2. CASE i # m
      <4>1. i \in 0 .. (m - 1) /\ g[i] = h[i]
        BY <2>1, <3>2
      <4>2. h[i] = IF i = 0 THEN zero ELSE UnPassoPiuSotto(p, h[i - 1], i)
        BY <2>2, <4>1 DEF ProfonditaFino
      <4>3. i # 0 => g[i - 1] = h[i - 1]
        BY <2>1, <3>2
      <4> QED
        BY <4>1, <4>2, <4>3
    <3> QED
      BY <3>1, <3>2
  <2>4. ProfonditaFino(p, g, m)
    <3>1. g = [i \in 0 .. m |-> g[i]]
      OBVIOUS
    <3> HIDE DEF g
    <3>2. g = [i \in 0 .. m |-> IF i = 0 THEN zero ELSE UnPassoPiuSotto(p, g[i - 1], i)]
      BY <2>3, <3>1
    <3> QED
      BY <3>2 DEF ProfonditaFino
  <2> QED
    BY <2>4
<1> QED
  BY <1>2, <1>3

LEMMA ProfonditaPassi ==
    ASSUME NEW p, Len(p.steps) \in Nat
    PROVE  /\ Profondita(p)[0] = [n \in Nomi |-> 0]
           /\ \A i \in Indici(p) :
                Profondita(p)[i] = UnPassoPiuSotto(p, Profondita(p)[i - 1], i)
<1> DEFINE N == Len(p.steps)
           F == CHOOSE g : ProfonditaFino(p, g, N)
<1>1. ProfonditaFino(p, F, N)
  BY ProfonditaEsiste
<1>2. Profondita(p) = F
  BY DEF Profondita, ProfonditaFino, UnPassoPiuSotto
<1> HIDE DEF F
<1>3. F = [i \in 0 .. N |-> IF i = 0 THEN [n \in Nomi |-> 0] ELSE UnPassoPiuSotto(p, F[i - 1], i)]
  BY <1>1 DEF ProfonditaFino
<1>4. F[0] = [n \in Nomi |-> 0]
  BY <1>3
<1>5. \A i \in 1 .. N : F[i] = UnPassoPiuSotto(p, F[i - 1], i)
  BY <1>3
<1> QED
  BY <1>2, <1>4, <1>5 DEF Indici

\* The names a step of a written plan uses.
LEMMA IngressiDelPasso ==
    ASSUME NEW p, PianoScritto(p), NEW i \in Indici(p)
    PROVE  /\ p.steps[i].out \in Nomi
           /\ ToSet(p.steps[i].inputs) \subseteq Nomi
           /\ p.steps[i].inputs \in Seq(Nomi)
           /\ Len(p.steps[i].inputs) \in {1, 2}
           /\ \A n \in ToSet(p.steps[i].inputs) :
                n \in ToSet(p.inputs) \/ \E k \in Indici(p) : k < i /\ n = p.steps[k].out
           /\ \A k \in Indici(p) : p.steps[k].out \in ToSet(p.steps[i].inputs) => k < i
<1>1. p.steps[i] \in PassiScritti /\ Len(p.steps) \in Nat
  BY NomiDelPiano
<1>2. p.steps[i].out \in Nomi /\ p.steps[i].inputs \in Seq(NomiAmmessi)
  BY <1>1, NomiAssunti DEF PassiScritti
<1>3. p.steps[i].inputs \in Seq(Nomi)
  BY <1>2, NomiAssunti
<1>4. p.steps[i].inputs \in Seq(Definiti(p, i)) /\ Len(p.steps[i].inputs) \in {1, 2}
  BY DEF PianoScritto, PassoScritto
<1>5. ToSet(p.steps[i].inputs) \subseteq Nomi
  BY <1>3 DEF ToSet
<1>6. ASSUME NEW n \in ToSet(p.steps[i].inputs)
      PROVE  n \in ToSet(p.inputs) \/ \E k \in Indici(p) : k < i /\ n = p.steps[k].out
  <2>1. n \in Definiti(p, i)
    <3> DEFINE D == Definiti(p, i)
    <3> HIDE DEF D
    <3>1. p.steps[i].inputs \in Seq(D)
      BY <1>4 DEF D
    <3> QED
      BY <3>1 DEF ToSet, D
  <2>2. i \in 1 .. Len(p.steps)
    BY DEF Indici
  <2>3. \A k \in 1 .. (i - 1) : k \in Indici(p) /\ k < i
    BY <1>1, <2>2 DEF Indici
  <2> QED
    BY <2>1, <2>3 DEF Definiti
<1>7. ASSUME NEW k \in Indici(p), p.steps[k].out \in ToSet(p.steps[i].inputs)
      PROVE  k < i
  <2>1. p.steps[k].out \notin ToSet(p.inputs)
    BY NomiDelPiano
  <2>2. PICK j \in Indici(p) : j < i /\ p.steps[k].out = p.steps[j].out
    BY <1>6, <1>7, <2>1
  <2>3. k = j
    BY <2>2, NomiDelPiano
  <2> QED
    BY <2>2, <2>3
<1> QED
  BY <1>2, <1>3, <1>4, <1>5, <1>6, <1>7

LEMMA ProfonditaTipi ==
    ASSUME NEW p, PianoScritto(p), NEW i \in 0 .. Len(p.steps)
    PROVE  Profondita(p)[i] \in [Nomi -> 0 .. i]
<1> DEFINE N == Len(p.steps)
           F == Profondita(p)
           T == {n \in 0 .. N : F[n] \notin [Nomi -> 0 .. n]}
<1>0. N \in Nat
  BY NomiDelPiano
<1> SUFFICES ASSUME T # {} PROVE FALSE
  OBVIOUS
<1>1. PICK m \in T : \A n \in T : m <= n
  <2>1. T \subseteq Nat
    BY <1>0
  <2> HIDE DEF T
  <2> QED
    BY <2>1, MinimoDi
<1>2. CASE m = 0
  <2>1. F[0] = [n \in Nomi |-> 0]
    BY <1>0, ProfonditaPassi
  <2> HIDE DEF F
  <2>2. F[0] \in [Nomi -> 0 .. 0]
    BY <2>1
  <2> QED
    BY <1>1, <1>2, <2>2
<1>3. CASE m # 0
  <2>1. m \in Indici(p) /\ m \in Nat /\ m - 1 \in 0 .. N /\ ~ (m <= m - 1)
    BY <1>0, <1>3 DEF Indici
  <2>2. F[m - 1] \in [Nomi -> 0 .. (m - 1)]
    <3>1. m - 1 \notin T
      <4> HIDE DEF T
      <4> QED
        BY <1>1, <2>1
    <3> QED
      BY <2>1, <3>1
  <2> DEFINE h == F[m - 1]
             S == {0} \cup {h[n] : n \in ToSet(p.steps[m].inputs)}
             o == p.steps[m].out
  <2>3. F[m] = [h EXCEPT ![o] = 1 + Max(S)]
    <3>1. F[m] = UnPassoPiuSotto(p, h, m)
      BY <1>0, <2>1, ProfonditaPassi
    <3> QED
      BY <3>1 DEF UnPassoPiuSotto
  <2>4. S \subseteq 0 .. (m - 1) /\ S # {}
    <3>1. ToSet(p.steps[m].inputs) \subseteq Nomi
      BY <2>1, IngressiDelPasso
    <3> HIDE DEF F
    <3>2. 0 \in 0 .. (m - 1)
      BY <2>1
    <3>3. \A n \in ToSet(p.steps[m].inputs) : h[n] \in 0 .. (m - 1)
      BY <2>2, <3>1
    <3> QED
      BY <3>2, <3>3
  <2> HIDE DEF F, S
  <2>5. Max(S) \in S
    <3>1. S \subseteq Nat /\ \A x \in S : x <= m - 1
      BY <2>1, <2>4
    <3>2. m - 1 \in Nat
      BY <2>1
    <3> QED
      BY <2>4, <3>1, <3>2, MassimoDi
  <2>6. 1 + Max(S) \in 0 .. m
    <3>1. Max(S) \in 0 .. (m - 1)
      BY <2>4, <2>5
    <3> QED
      BY <2>1, <3>1
  <2>7. h \in [Nomi -> 0 .. m]
    <3>1. \A n \in Nomi : h[n] \in 0 .. m
      <4> SUFFICES ASSUME NEW n \in Nomi PROVE h[n] \in 0 .. m
        OBVIOUS
      <4>1. h[n] \in 0 .. (m - 1)
        BY <2>2
      <4> HIDE DEF h
      <4> QED
        BY <2>1, <4>1
    <3> QED
      BY <2>2, <3>1
  <2>8. F[m] \in [Nomi -> 0 .. m]
    <3> HIDE DEF h
    <3> QED
      BY <2>3, <2>6, <2>7
  <2> QED
    BY <1>1, <2>8 DEF T
<1> QED
  BY <1>2, <1>3

\* The depth of a step's table does not change after the step.
LEMMA ProfonditaStabile ==
    ASSUME NEW p, PianoScritto(p), NEW n \in Nomi, NEW k \in 0 .. Len(p.steps),
           \A j \in Indici(p) : j > k => p.steps[j].out # n,
           NEW i \in k .. Len(p.steps)
    PROVE  Profondita(p)[i][n] = Profondita(p)[k][n]
<1> DEFINE N == Len(p.steps)
           F == Profondita(p)
           T == {j \in k .. N : F[j][n] # F[k][n]}
<1>0. N \in Nat /\ k \in Nat
  BY NomiDelPiano
<1> SUFFICES ASSUME T # {} PROVE FALSE
  OBVIOUS
<1>1. PICK m \in T : \A j \in T : m <= j
  <2>1. T \subseteq Nat
    BY <1>0
  <2> HIDE DEF T
  <2> QED
    BY <2>1, MinimoDi
<1>2. m \in k .. N /\ m # k
  OBVIOUS
<1>3. m \in Indici(p) /\ m > k /\ m - 1 \in k .. N /\ ~ (m <= m - 1) /\ m - 1 \in 0 .. N
  BY <1>0, <1>2 DEF Indici
<1>4. F[m - 1][n] = F[k][n]
  <2>1. m - 1 \notin T
    <3> HIDE DEF T
    <3> QED
      BY <1>1, <1>3
  <2> QED
    BY <1>3, <2>1
<1>5. F[m] = UnPassoPiuSotto(p, F[m - 1], m)
  BY <1>0, <1>3, ProfonditaPassi
<1>6. p.steps[m].out # n
  BY <1>3
<1>7. F[m - 1] \in [Nomi -> 0 .. (m - 1)]
  BY <1>3, ProfonditaTipi
<1> HIDE DEF F
<1>8. F[m][n] = F[m - 1][n]
  BY <1>5, <1>6, <1>7 DEF UnPassoPiuSotto
<1> QED
  BY <1>1, <1>4, <1>8 DEF T

\* The depth of a step is one more than the deepest step it takes from.
LEMMA ProfonditaDelPasso ==
    ASSUME NEW p, PianoScritto(p), NEW i \in Indici(p)
    PROVE  LET prof(k) == Profondita(p)[k][p.steps[k].out]
           IN /\ prof(i) \in Nat /\ prof(i) >= 1
              /\ \A k \in Indici(p) :
                   p.steps[k].out \in ToSet(p.steps[i].inputs) =>
                     k < i /\ prof(k) \in Nat /\ prof(k) + 1 <= prof(i)
              /\ prof(i) = 1 \/ \E k \in Indici(p) : /\ p.steps[k].out \in ToSet(p.steps[i].inputs)
                                                     /\ prof(i) = prof(k) + 1
<1> DEFINE N == Len(p.steps)
           F == Profondita(p)
           h == F[i - 1]
           ins == ToSet(p.steps[i].inputs)
           S == {0} \cup {h[n] : n \in ins}
           prof(k) == F[k][p.steps[k].out]
<1>0. N \in Nat /\ i \in Nat /\ i \in 1 .. N /\ i - 1 \in 0 .. N /\ i \in 0 .. N /\ i - 1 \in Nat
  BY NomiDelPiano DEF Indici
<1>1. F[i] = [h EXCEPT ![p.steps[i].out] = 1 + Max(S)]
  <2>1. F[i] = UnPassoPiuSotto(p, h, i)
    BY <1>0, ProfonditaPassi
  <2> QED
    BY <2>1 DEF UnPassoPiuSotto
<1>2. h \in [Nomi -> 0 .. (i - 1)]
  BY <1>0, ProfonditaTipi
<1>3. ins \subseteq Nomi /\ p.steps[i].out \in Nomi
  BY IngressiDelPasso
<1>4. ASSUME NEW k \in Indici(p), k < i
      PROVE  h[p.steps[k].out] = prof(k)
  <2>1. k \in 0 .. N /\ i - 1 \in k .. N /\ p.steps[k].out \in Nomi
    BY <1>0, <1>4, IngressiDelPasso DEF Indici
  <2>2. \A j \in Indici(p) : j > k => p.steps[j].out # p.steps[k].out
    <3> SUFFICES ASSUME NEW j \in Indici(p), j > k, p.steps[j].out = p.steps[k].out PROVE FALSE
      OBVIOUS
    <3>1. j = k
      BY NomiDelPiano
    <3> QED
      BY <1>0, <3>1 DEF Indici
  <2> QED
    BY <2>1, <2>2, ProfonditaStabile
<1>5. ASSUME NEW n \in ToSet(p.inputs), n \in Nomi
      PROVE  h[n] = 0
  <2>1. \A j \in Indici(p) : p.steps[j].out # n
    BY NomiDelPiano
  <2>2. 0 \in 0 .. N
    BY <1>0
  <2>3. h[n] = F[0][n]
    BY <1>0, <1>5, <2>1, <2>2, ProfonditaStabile
  <2>4. F[0][n] = 0
    BY <1>0, <1>5, ProfonditaPassi
  <2> QED
    BY <2>3, <2>4
<1>6. S \subseteq 0 .. (i - 1) /\ S # {}
  <2> HIDE DEF h
  <2>1. \A n \in ins : h[n] \in 0 .. (i - 1)
    BY <1>2, <1>3
  <2>2. 0 \in 0 .. (i - 1)
    BY <1>0
  <2> QED
    BY <2>1, <2>2
<1>7. Max(S) \in S /\ \A y \in S : y <= Max(S)
  <2> HIDE DEF S
  <2>1. S \subseteq Nat /\ \A x \in S : x <= i - 1
    BY <1>0, <1>6
  <2> QED
    BY <1>0, <1>6, <2>1, MassimoDi
<1>8. prof(i) = 1 + Max(S)
  <2> HIDE DEF F, S
  <2> QED
    BY <1>1, <1>2, <1>3
<1>9. Max(S) \in Nat /\ prof(i) \in Nat /\ prof(i) >= 1
  <2> HIDE DEF S, F
  <2>0. Max(S) \in 0 .. (i - 1)
    BY <1>6, <1>7
  <2>1. Max(S) \in Nat
    BY <1>0, <2>0
  <2> QED
    BY <1>8, <2>1
<1>10. ASSUME NEW k \in Indici(p), p.steps[k].out \in ins
       PROVE  k < i /\ prof(k) \in Nat /\ prof(k) + 1 <= prof(i)
  <2>1. k < i
    BY <1>10, IngressiDelPasso
  <2>2. prof(k) \in S
    BY <1>4, <1>10, <2>1
  <2> HIDE DEF S, F
  <2>3. prof(k) \in 0 .. (i - 1) /\ prof(k) <= Max(S)
    BY <1>6, <1>7, <2>2
  <2>4. prof(k) \in Nat
    BY <1>0, <2>3
  <2> QED
    BY <1>8, <1>9, <2>1, <2>3, <2>4
<1>11. prof(i) = 1 \/ \E k \in Indici(p) : p.steps[k].out \in ins /\ prof(i) = prof(k) + 1
  <2>1. CASE Max(S) = 0
    BY <1>8, <2>1
  <2>2. CASE Max(S) # 0
    <3>1. PICK n \in ins : Max(S) = h[n]
      BY <1>7, <2>2
    <3>2. n \notin ToSet(p.inputs)
      BY <1>3, <1>5, <2>2, <3>1
    <3>3. PICK k \in Indici(p) : k < i /\ n = p.steps[k].out
      BY <3>2, IngressiDelPasso
    <3>4. Max(S) = prof(k)
      BY <1>4, <3>1, <3>3
    <3> HIDE DEF S, F
    <3>5. prof(i) = prof(k) + 1
      BY <1>8, <1>9, <3>4
    <3> QED
      BY <3>1, <3>3, <3>5
  <2> QED
    BY <2>1, <2>2
<1> QED
  BY <1>9, <1>10, <1>11

LEMMA MassimoNoto ==
    ASSUME NEW T, T \subseteq Nat, NEW k \in T, \A y \in T : y <= k
    PROVE  Max(T) = k
<1>1. Max(T) \in T /\ \A y \in T : y <= Max(T)
  BY MassimoDi
<1>2. Max(T) \in Nat /\ k <= Max(T) /\ Max(T) <= k /\ k \in Nat
  BY <1>1
<1> QED
  BY <1>2

\* A chain grows at its end.
LEMMA CatenaAllungata ==
    ASSUME NEW C, C \subseteq Nat, NEW m \in Nat, \A j \in C : j < m
    PROVE  Catena(C \cup {m}) <=> Catena(C) /\ (C # {} => Segue(Max(C), m))
<1> DEFINE E == C \cup {m}
<1>1. ASSUME NEW j \in C PROVE {i \in E : i < j} = {i \in C : i < j}
  BY <1>1
<1>2. {i \in E : i < m} = C
  <2>1. ~ (m < m)
    OBVIOUS
  <2>2. \A i : i \in E /\ i < m <=> i \in C
    BY <2>1
  <2> QED
    BY <2>2
<1>3. ASSUME NEW j \in C PROVE (\E i \in E : i < j) <=> (\E i \in C : i < j)
  BY <1>3
<1>4. (\E i \in E : i < m) <=> C # {}
  BY <1>2
<1>5. Catena(E) <=> /\ \A j \in C : (\E i \in E : i < j) => Segue(Max({i \in E : i < j}), j)
                    /\ (\E i \in E : i < m) => Segue(Max({i \in E : i < m}), m)
  BY DEF Catena
<1>6. (\A j \in C : (\E i \in E : i < j) => Segue(Max({i \in E : i < j}), j)) <=> Catena(C)
  <2> HIDE DEF E
  <2> QED
    BY <1>1, <1>3 DEF Catena
<1> HIDE DEF E
<1>7. Catena(E) <=> Catena(C) /\ (C # {} => Segue(Max(C), m))
  BY <1>2, <1>4, <1>5, <1>6
<1> QED
  BY <1>7 DEF E

\* A chain is no longer than the depth of its last step, and one is as long.
LEMMA CatenaEntroLaProfondita ==
    ASSUME PianoScritto(dati), NEW m \in Indici(dati), NEW C \in SUBSET Indici(dati),
           Catena(C), m \in C, \A j \in C : j <= m
    PROVE  Cardinality(C) <= Profondita(dati)[m][dati.steps[m].out]
<1> DEFINE I == Indici(dati)
           prof(k) == Profondita(dati)[k][dati.steps[k].out]
           Lunga(k, A) == /\ A \subseteq I /\ Catena(A) /\ k \in A /\ \A j \in A : j <= k
                          /\ ~ (Cardinality(A) <= prof(k))
           T == {k \in I : \E A : Lunga(k, A)}
<1>0. Len(dati.steps) \in Nat /\ I \subseteq Nat /\ IsFiniteSet(I)
  <2>1. Len(dati.steps) \in Nat
    BY NomiDelPiano
  <2>2. IsFiniteSet(1 .. Len(dati.steps))
    BY <2>1, FS_Interval
  <2> QED
    BY <2>1, <2>2 DEF Indici
<1> SUFFICES ASSUME T # {} PROVE FALSE
  OBVIOUS
<1>1. PICK x \in T : \A y \in T : x <= y
  <2>1. T \subseteq Nat
    BY <1>0
  <2> HIDE DEF T
  <2> QED
    BY <2>1, MinimoDi
<1>2. PICK A : Lunga(x, A)
  BY <1>1
<1> DEFINE B == A \ {x}
<1>3. x \in I /\ x \in Nat /\ A = B \cup {x} /\ B \subseteq Nat /\ B \subseteq I
  BY <1>0, <1>2
<1>4. \A j \in B : j < x
  BY <1>0, <1>2, <1>3
<1>5. Catena(B) /\ (B # {} => Segue(Max(B), x))
  <2> HIDE DEF B
  <2> QED
    BY <1>2, <1>3, <1>4, CatenaAllungata
<1>6. prof(x) \in Nat /\ prof(x) >= 1
      /\ \A k \in I : dati.steps[k].out \in ToSet(dati.steps[x].inputs) =>
           k < x /\ prof(k) \in Nat /\ prof(k) + 1 <= prof(x)
  BY <1>3, ProfonditaDelPasso
<1>7. IsFiniteSet(A) /\ IsFiniteSet(B) /\ Cardinality(A) = Cardinality(B) + 1 /\ Cardinality(B) \in Nat
  <2>1. IsFiniteSet(A) /\ IsFiniteSet(B)
    BY <1>0, <1>2, <1>3, FS_Subset
  <2>2. x \notin B
    OBVIOUS
  <2> HIDE DEF B
  <2>3. Cardinality(B \cup {x}) = Cardinality(B) + 1
    BY <2>1, <2>2, FS_AddElement
  <2> QED
    BY <1>3, <2>1, <2>3, FS_CardinalityType
<1> HIDE DEF prof
<1>8. CASE B = {}
  <2>1. Cardinality(B) = 0
    BY <1>8, FS_EmptySet
  <2> HIDE DEF B
  <2> QED
    BY <1>2, <1>6, <1>7, <2>1
<1>9. CASE B # {}
  <2> DEFINE k == Max(B)
  <2>1. k \in B /\ \A y \in B : y <= k
    <3>1. \A y \in B : y <= x
      BY <1>0, <1>3, <1>4
    <3> HIDE DEF B
    <3> QED
      BY <1>3, <1>9, <3>1, MassimoDi
  <2>2. k \in I /\ k < x /\ k \in Nat
    BY <1>0, <1>3, <1>4, <2>1
  <2>3. dati.steps[k].out \in ToSet(dati.steps[x].inputs)
    BY <1>5, <1>9 DEF Segue
  <2>4. prof(k) \in Nat /\ prof(k) + 1 <= prof(x)
    BY <1>6, <2>2, <2>3
  <2>5. k \notin T
    <3> HIDE DEF T
    <3> QED
      BY <1>1, <1>3, <2>2
  <2>6. Cardinality(B) <= prof(k)
    <3>1. ~ Lunga(k, B)
      BY <2>2, <2>5
    <3> HIDE DEF k, B
    <3> QED
      BY <1>3, <1>5, <2>1, <3>1 DEF k
  <2> HIDE DEF k, B
  <2> QED
    BY <1>2, <1>6, <1>7, <2>4, <2>6
<1> QED
  BY <1>8, <1>9

LEMMA CatenaProfonda ==
    ASSUME PianoScritto(dati), NEW m \in Indici(dati)
    PROVE  \E C \in SUBSET Indici(dati) :
             /\ Catena(C) /\ m \in C /\ \A j \in C : j <= m
             /\ Cardinality(C) = Profondita(dati)[m][dati.steps[m].out]
<1> DEFINE I == Indici(dati)
           prof(k) == Profondita(dati)[k][dati.steps[k].out]
           Giusta(k, A) == /\ A \subseteq I /\ Catena(A) /\ k \in A /\ \A j \in A : j <= k
                           /\ Cardinality(A) = prof(k)
           T == {k \in I : ~ \E A : Giusta(k, A)}
<1>0. Len(dati.steps) \in Nat /\ I \subseteq Nat /\ IsFiniteSet(I)
  <2>1. Len(dati.steps) \in Nat
    BY NomiDelPiano
  <2>2. IsFiniteSet(1 .. Len(dati.steps))
    BY <2>1, FS_Interval
  <2> QED
    BY <2>1, <2>2 DEF Indici
<1> SUFFICES ASSUME T # {} PROVE FALSE
  OBVIOUS
<1>1. PICK x \in T : \A y \in T : x <= y
  <2>1. T \subseteq Nat
    BY <1>0
  <2> HIDE DEF T
  <2> QED
    BY <2>1, MinimoDi
<1>2. x \in I /\ x \in Nat
  BY <1>0, <1>1
<1>3. \/ prof(x) = 1
      \/ \E k \in I : dati.steps[k].out \in ToSet(dati.steps[x].inputs) /\ prof(x) = prof(k) + 1
  BY <1>2, ProfonditaDelPasso
<1> HIDE DEF prof
<1>4. CASE prof(x) = 1
  <2>1. Catena({})
    BY DEF Catena
  <2>2. Catena({} \cup {x})
    BY <1>2, <2>1, CatenaAllungata
  <2>3. {} \cup {x} = {x} /\ Cardinality({x}) = 1
    BY FS_Singleton
  <2>4. Giusta(x, {x})
    BY <1>2, <1>4, <2>2, <2>3
  <2> QED
    BY <1>1, <2>4
<1>5. CASE \E k \in I : dati.steps[k].out \in ToSet(dati.steps[x].inputs) /\ prof(x) = prof(k) + 1
  <2>1. PICK k \in I : dati.steps[k].out \in ToSet(dati.steps[x].inputs) /\ prof(x) = prof(k) + 1
    BY <1>5
  <2>2. k < x /\ k \in Nat
    BY <1>0, <1>2, <2>1, IngressiDelPasso
  <2>3. k \notin T
    <3> HIDE DEF T
    <3> QED
      BY <1>1, <1>2, <2>2
  <2>4. PICK A : Giusta(k, A)
    BY <2>1, <2>3
  <2>5. A \subseteq Nat /\ A # {} /\ IsFiniteSet(A) /\ x \notin A /\ \A j \in A : j < x
    <3>1. \A j \in A : j \in Nat /\ j <= k
      BY <1>0, <2>4
    <3>2. \A j \in A : j < x
      BY <1>2, <2>2, <3>1
    <3>3. IsFiniteSet(A)
      BY <1>0, <2>4, FS_Subset
    <3>4. x \notin A
      BY <1>2, <3>2
    <3> QED
      BY <2>4, <3>1, <3>2, <3>3, <3>4
  <2>6. Max(A) = k
    BY <2>4, <2>5, MassimoNoto
  <2>7. Catena(A \cup {x})
    BY <1>2, <2>1, <2>4, <2>5, <2>6, CatenaAllungata DEF Segue
  <2>8. Cardinality(A \cup {x}) = prof(x)
    <3>1. Cardinality(A \cup {x}) = Cardinality(A) + 1
      BY <2>5, FS_AddElement
    <3> QED
      BY <2>1, <2>4, <3>1
  <2>9. Giusta(x, A \cup {x})
    <3>1. \A j \in A \cup {x} : j <= x
      BY <1>2, <2>5
    <3> QED
      BY <1>2, <2>4, <2>7, <2>8, <3>1
  <2> QED
    BY <1>1, <2>9
<1> QED
  BY <1>3, <1>4, <1>5

-----------------------------------------------------------------------------
(* Edges, and the provenance of the rows *)

\* The edges that validate counts are the inputs of the steps.
LEMMA ArchiDelPiano ==
    ASSUME PianoScritto(dati)
    PROVE  /\ Archi(dati) = ArchiDi(Nomi)
           /\ \A n \in Nomi : Consumatori(dati, n) = ArchiDi({n})
<1> DEFINE I == Indici(dati)
           Ins(i) == dati.steps[i].inputs
<1>1. ASSUME NEW i \in I
      PROVE  /\ Ins(i) \in Seq(Nomi) /\ DOMAIN Ins(i) = 1 .. Len(Ins(i)) /\ Len(Ins(i)) \in {1, 2}
             /\ \A k \in 1 .. Len(Ins(i)) : Ins(i)[k] \in Nomi
  <2>1. Ins(i) \in Seq(Nomi) /\ Len(Ins(i)) \in {1, 2}
    BY <1>1, IngressiDelPasso
  <2> HIDE DEF Ins
  <2> QED
    BY <2>1
<1>2. \A i \in I : \A k : k \in DOMAIN Ins(i) <=> k \in 1 .. 2 /\ k <= Len(Ins(i))
  <2> SUFFICES ASSUME NEW i \in I, NEW k
               PROVE  k \in DOMAIN Ins(i) <=> k \in 1 .. 2 /\ k <= Len(Ins(i))
    OBVIOUS
  <2>1. DOMAIN Ins(i) = 1 .. Len(Ins(i)) /\ Len(Ins(i)) \in {1, 2}
    BY <1>1
  <2> HIDE DEF Ins
  <2> QED
    BY <2>1
<1>3. \A a : a \in Archi(dati) <=> a \in I \X (1 .. 2) /\ a[2] <= Len(Ins(a[1]))
  <2>1. ASSUME NEW a \in Archi(dati) PROVE a \in I \X (1 .. 2) /\ a[2] <= Len(Ins(a[1]))
    <3>1. PICK i \in I : \E k \in DOMAIN Ins(i) : a = <<i, k>>
      BY <2>1 DEF Archi
    <3>2. PICK k \in DOMAIN Ins(i) : a = <<i, k>>
      BY <3>1
    <3>3. k \in 1 .. 2 /\ k <= Len(Ins(i))
      BY <1>2, <3>2
    <3> HIDE DEF Ins, I
    <3> QED
      BY <3>2, <3>3
  <2>2. ASSUME NEW a \in I \X (1 .. 2), a[2] <= Len(Ins(a[1])) PROVE a \in Archi(dati)
    <3>1. a[1] \in I /\ a[2] \in 1 .. 2 /\ a = <<a[1], a[2]>>
      BY <2>2
    <3>2. a[2] \in DOMAIN Ins(a[1])
      BY <1>2, <2>2, <3>1
    <3> QED
      BY <3>1, <3>2 DEF Archi
  <2> QED
    BY <2>1, <2>2
<1>4. \A a \in Archi(dati) : Ins(a[1])[a[2]] \in Nomi
  <2> SUFFICES ASSUME NEW a \in Archi(dati) PROVE Ins(a[1])[a[2]] \in Nomi
    OBVIOUS
  <2>1. a[1] \in I /\ a[2] \in 1 .. 2 /\ a[2] <= Len(Ins(a[1]))
    BY <1>3
  <2>2. a[2] \in DOMAIN Ins(a[1])
    BY <1>2, <2>1
  <2> HIDE DEF Ins, I
  <2> QED
    BY <1>1, <2>1, <2>2
<1>5. Archi(dati) = ArchiDi(Nomi)
  BY <1>3, <1>4 DEF ArchiDi
<1>6. ASSUME NEW n \in Nomi PROVE Consumatori(dati, n) = ArchiDi({n})
  BY <1>3 DEF Consumatori, ArchiDi
<1> QED
  BY <1>5, <1>6

\* What step i makes of the names S that carry the rows of a plan input.
ConLeRighe(p, S, i) ==
    IF p.steps[i].inputs[1] \in S /\ p.steps[i].op.conserva
      THEN S \cup {p.steps[i].out}
      ELSE S

\* g is `provenance` along the first n steps.
ProvenienzaFino(p, g, n) ==
    g = [i \in 0 .. n |-> IF i = 0 THEN ToSet(p.inputs) ELSE ConLeRighe(p, g[i - 1], i)]

LEMMA ProvenienzaEsiste ==
    ASSUME NEW p, NEW N \in Nat
    PROVE  \E g : ProvenienzaFino(p, g, N)
<1> DEFINE T == {n \in Nat : ~ \E g : ProvenienzaFino(p, g, n)}
<1> SUFFICES ASSUME T # {} PROVE FALSE
  OBVIOUS
<1>1. PICK m \in T : \A n \in T : m <= n
  <2> HIDE DEF T
  <2>1. T \subseteq Nat
    BY DEF T
  <2> QED
    BY <2>1, MinimoDi
<1>2. CASE m = 0
  <2> DEFINE g == [i \in 0 .. 0 |-> ToSet(p.inputs)]
  <2>1. g = [i \in 0 .. 0 |-> IF i = 0 THEN ToSet(p.inputs) ELSE ConLeRighe(p, g[i - 1], i)]
    OBVIOUS
  <2>2. ProvenienzaFino(p, g, 0)
    BY <2>1 DEF ProvenienzaFino
  <2> QED
    BY <1>2, <2>2
<1>3. CASE m # 0
  <2>1. m \in Nat /\ m - 1 \in Nat /\ ~ (m <= m - 1)
    BY <1>3
  <2>2. PICK h : ProvenienzaFino(p, h, m - 1)
    BY <1>1, <2>1
  <2> DEFINE g == [i \in 0 .. m |-> IF i = m THEN ConLeRighe(p, h[m - 1], m) ELSE h[i]]
  <2>3. ASSUME NEW i \in 0 .. m
        PROVE  g[i] = IF i = 0 THEN ToSet(p.inputs) ELSE ConLeRighe(p, g[i - 1], i)
    <3>1. CASE i = m
      <4>1. g[i - 1] = h[m - 1]
        BY <1>3, <3>1, <2>1
      <4> QED
        BY <1>3, <3>1, <4>1
    <3>2. CASE i # m
      <4>1. i \in 0 .. (m - 1) /\ g[i] = h[i]
        BY <2>1, <3>2
      <4>2. h[i] = IF i = 0 THEN ToSet(p.inputs) ELSE ConLeRighe(p, h[i - 1], i)
        BY <2>2, <4>1 DEF ProvenienzaFino
      <4>3. i # 0 => g[i - 1] = h[i - 1]
        BY <2>1, <3>2
      <4> QED
        BY <4>1, <4>2, <4>3
    <3> QED
      BY <3>1, <3>2
  <2>4. ProvenienzaFino(p, g, m)
    <3>1. g = [i \in 0 .. m |-> g[i]]
      OBVIOUS
    <3> HIDE DEF g
    <3>2. g = [i \in 0 .. m |-> IF i = 0 THEN ToSet(p.inputs) ELSE ConLeRighe(p, g[i - 1], i)]
      BY <2>3, <3>1
    <3> QED
      BY <3>2 DEF ProvenienzaFino
  <2> QED
    BY <2>4
<1> QED
  BY <1>2, <1>3

LEMMA ProvenienzaPassi ==
    ASSUME NEW p, Len(p.steps) \in Nat
    PROVE  /\ Provenienza(p)[0] = ToSet(p.inputs)
           /\ \A i \in Indici(p) : Provenienza(p)[i] = ConLeRighe(p, Provenienza(p)[i - 1], i)
<1> DEFINE N == Len(p.steps)
           F == CHOOSE g : ProvenienzaFino(p, g, N)
<1>1. ProvenienzaFino(p, F, N)
  BY ProvenienzaEsiste
<1>2. Provenienza(p) = F
  BY DEF Provenienza, ProvenienzaFino, ConLeRighe
<1> HIDE DEF F
<1>3. F = [i \in 0 .. N |-> IF i = 0 THEN ToSet(p.inputs) ELSE ConLeRighe(p, F[i - 1], i)]
  BY <1>1 DEF ProvenienzaFino
<1>4. F[0] = ToSet(p.inputs)
  BY <1>3
<1>5. \A i \in 1 .. N : F[i] = ConLeRighe(p, F[i - 1], i)
  BY <1>3
<1> QED
  BY <1>2, <1>4, <1>5 DEF Indici

\* Only the step that defines a name decides whether it carries the rows of an input.
LEMMA ProvenienzaStabile ==
    ASSUME NEW p, Len(p.steps) \in Nat, NEW n, NEW k \in 0 .. Len(p.steps),
           NEW i \in k .. Len(p.steps),
           \A j \in (k + 1) .. i : p.steps[j].out # n
    PROVE  n \in Provenienza(p)[i] <=> n \in Provenienza(p)[k]
<1> DEFINE N == Len(p.steps)
           F == Provenienza(p)
           T == {j \in k .. i : ~ (n \in F[j] <=> n \in F[k])}
<1>0. N \in Nat /\ k \in Nat /\ i \in Nat /\ i <= N /\ k <= i
  OBVIOUS
<1> SUFFICES ASSUME T # {} PROVE FALSE
  BY <1>0
<1>1. PICK m \in T : \A j \in T : m <= j
  <2>1. T \subseteq Nat
    BY <1>0
  <2> HIDE DEF T
  <2> QED
    BY <2>1, MinimoDi
<1>2. m \in k .. i /\ m # k
  OBVIOUS
<1>3. /\ m \in Indici(p) /\ m \in (k + 1) .. i /\ m - 1 \in k .. i /\ ~ (m <= m - 1)
  BY <1>0, <1>2 DEF Indici
<1>4. n \in F[m - 1] <=> n \in F[k]
  <2>1. m - 1 \notin T
    <3> HIDE DEF T
    <3> QED
      BY <1>1, <1>3
  <2> QED
    BY <1>3, <2>1
<1>5. F[m] = ConLeRighe(p, F[m - 1], m)
  BY <1>0, <1>3, ProvenienzaPassi
<1>6. p.steps[m].out # n
  BY <1>3
<1> HIDE DEF F
<1>7. n \in F[m] <=> n \in F[m - 1]
  BY <1>5, <1>6 DEF ConLeRighe
<1> QED
  BY <1>1, <1>4, <1>7 DEF T

\* A table carries the rows of a plan input when its step keeps those of a first input
\* that is one, or carries them.
LEMMA ProvenienzaDelPasso ==
    ASSUME NEW p, PianoScritto(p), NEW i \in Indici(p)
    PROVE  LET porta(k) == p.steps[k].out \in Provenienza(p)[Len(p.steps)]
           IN porta(i) <=>
                /\ p.steps[i].op.conserva
                /\ \/ p.steps[i].inputs[1] \in ToSet(p.inputs)
                   \/ \E k \in Indici(p) : k < i /\ p.steps[i].inputs[1] = p.steps[k].out /\ porta(k)
<1> DEFINE N == Len(p.steps)
           F == Provenienza(p)
           I == Indici(p)
           out(k) == p.steps[k].out
           porta(k) == out(k) \in F[N]
           uno == p.steps[i].inputs[1]
<1>0. N \in Nat /\ I = 1 .. N
  BY NomiDelPiano DEF Indici
<1>1. /\ \A j, k \in I : out(j) = out(k) => j = k
      /\ \A j \in I : out(j) \notin ToSet(p.inputs)
  BY NomiDelPiano
<1>2. ASSUME NEW k \in I, NEW j \in k .. N
      PROVE  out(k) \in F[j] <=> porta(k)
  <2>1. k \in 0 .. N /\ N \in k .. N /\ (k + 1) .. j \subseteq I /\ (k + 1) .. N \subseteq I
        /\ \A x \in (k + 1) .. N : x # k
    BY <1>0, <1>2
  <2>2. \A x \in (k + 1) .. N : out(x) # out(k)
    BY <1>1, <2>1
  <2>3. \A x \in (k + 1) .. j : out(x) # out(k)
    BY <1>0, <1>2, <2>2
  <2>4. out(k) \in F[j] <=> out(k) \in F[k]
    BY <1>0, <2>1, <2>3, ProvenienzaStabile
  <2>5. out(k) \in F[N] <=> out(k) \in F[k]
    BY <1>0, <2>1, <2>2, ProvenienzaStabile
  <2> QED
    BY <2>4, <2>5
<1>3. out(i) \notin F[i - 1]
  <2>1. 0 \in 0 .. N /\ i - 1 \in 0 .. N /\ (0 + 1) .. (i - 1) \subseteq I
        /\ \A x \in (0 + 1) .. (i - 1) : x # i
    BY <1>0
  <2>2. \A x \in (0 + 1) .. (i - 1) : out(x) # out(i)
    BY <1>1, <2>1
  <2>3. out(i) \in F[i - 1] <=> out(i) \in F[0]
    BY <1>0, <2>1, <2>2, ProvenienzaStabile
  <2>4. F[0] = ToSet(p.inputs)
    BY <1>0, ProvenienzaPassi
  <2> QED
    BY <1>1, <2>3, <2>4
<1>4. porta(i) <=> uno \in F[i - 1] /\ p.steps[i].op.conserva
  <2>1. F[i] = ConLeRighe(p, F[i - 1], i)
    BY <1>0, ProvenienzaPassi
  <2>2. out(i) \in F[i] <=> porta(i)
    BY <1>0, <1>2
  <2> HIDE DEF F
  <2>3. out(i) \in F[i] <=> uno \in F[i - 1] /\ p.steps[i].op.conserva
    BY <1>3, <2>1 DEF ConLeRighe
  <2> QED
    BY <2>2, <2>3
<1>5. uno \in ToSet(p.inputs) \/ \E k \in I : k < i /\ uno = out(k)
  <2>1. uno \in ToSet(p.steps[i].inputs)
    <3>1. p.steps[i].inputs \in Seq(Nomi) /\ Len(p.steps[i].inputs) \in {1, 2}
      BY IngressiDelPasso
    <3>2. 1 \in DOMAIN p.steps[i].inputs
      BY <3>1
    <3> QED
      BY <3>2 DEF ToSet
  <2> QED
    BY <2>1, IngressiDelPasso
<1>6. uno \in ToSet(p.inputs) => uno \in F[i - 1]
  <2> SUFFICES ASSUME uno \in ToSet(p.inputs) PROVE uno \in F[i - 1]
    OBVIOUS
  <2>1. 0 \in 0 .. N /\ i - 1 \in 0 .. N /\ (0 + 1) .. (i - 1) \subseteq I
    BY <1>0
  <2>2. \A x \in (0 + 1) .. (i - 1) : out(x) # uno
    BY <1>1, <2>1
  <2>3. uno \in F[i - 1] <=> uno \in F[0]
    BY <1>0, <2>1, <2>2, ProvenienzaStabile
  <2>4. F[0] = ToSet(p.inputs)
    BY <1>0, ProvenienzaPassi
  <2> QED
    BY <2>3, <2>4
<1>7. ASSUME NEW k \in I, k < i, uno = out(k)
      PROVE  uno \in F[i - 1] <=> porta(k)
  <2>1. i - 1 \in k .. N
    BY <1>0, <1>7
  <2> QED
    BY <1>2, <1>7, <2>1
<1>8. uno \in F[i - 1] <=> uno \in ToSet(p.inputs) \/ \E k \in I : k < i /\ uno = out(k) /\ porta(k)
  BY <1>5, <1>6, <1>7
<1> QED
  BY <1>4, <1>8

LEMMA MinimoNoto ==
    ASSUME NEW T, T \subseteq Nat, NEW k \in T, \A y \in T : k <= y
    PROVE  Min(T) = k
<1>1. Min(T) \in T /\ \A y \in T : Min(T) <= y
  BY MinimoDi
<1>2. Min(T) \in Nat /\ Min(T) <= k /\ k <= Min(T) /\ k \in Nat
  BY <1>1
<1> QED
  BY <1>2

\* Row-keeping steps that each take their rows from the one before.
Filo(C) ==
    /\ \A k \in C : dati.steps[k].op.conserva
    /\ \A k \in C \ {Min(C)} : TieneLeRighe(Max({i \in C : i < k}), k)
    /\ dati.steps[Min(C)].inputs[1] \in ToSet(dati.inputs)

LEMMA FiloAllungato ==
    ASSUME NEW C, C \subseteq Nat, C # {}, NEW m \in Nat, \A j \in C : j < m
    PROVE  Filo(C \cup {m}) <=> Filo(C) /\ dati.steps[m].op.conserva /\ TieneLeRighe(Max(C), m)
<1> DEFINE E == C \cup {m}
           a == Min(C)
<1>1. a \in C /\ \A y \in C : a <= y
  BY MinimoDi
<1>2. a \in Nat /\ a < m /\ a # m
  <2> HIDE DEF a
  <2>1. a \in Nat /\ a < m
    BY <1>1
  <2> QED
    BY <2>1
<1>3. Min(E) = a
  <2>1. E \subseteq Nat /\ a \in E /\ \A y \in E : a <= y
    BY <1>1, <1>2
  <2> HIDE DEF E, a
  <2> QED
    BY <2>1, MinimoNoto
<1>4. ASSUME NEW j \in C PROVE {i \in E : i < j} = {i \in C : i < j}
  BY <1>4
<1>5. {i \in E : i < m} = C
  <2>1. ~ (m < m)
    OBVIOUS
  <2>2. \A i : i \in E /\ i < m <=> i \in C
    BY <2>1
  <2> QED
    BY <2>2
<1>6. E \ {a} = (C \ {a}) \cup {m}
  BY <1>2
<1> HIDE DEF E, a
<1>7. (\A k \in E \ {a} : TieneLeRighe(Max({i \in E : i < k}), k))
        <=> /\ \A k \in C \ {a} : TieneLeRighe(Max({i \in C : i < k}), k)
            /\ TieneLeRighe(Max(C), m)
  <2> DEFINE Da(A, k) == TieneLeRighe(Max({i \in A : i < k}), k)
  <2>1. \A k \in C \ {a} : Da(E, k) <=> Da(C, k)
    BY <1>4
  <2>2. Da(E, m) <=> TieneLeRighe(Max(C), m)
    BY <1>5
  <2> HIDE DEF Da
  <2>3. (\A k \in E \ {a} : Da(E, k)) <=> (\A k \in C \ {a} : Da(C, k)) /\ TieneLeRighe(Max(C), m)
    BY <1>6, <2>1, <2>2
  <2> QED
    BY <2>3 DEF Da
<1>8. (\A k \in E : dati.steps[k].op.conserva)
        <=> (\A k \in C : dati.steps[k].op.conserva) /\ dati.steps[m].op.conserva
  BY DEF E
<1>9. Filo(E) <=> Filo(C) /\ dati.steps[m].op.conserva /\ TieneLeRighe(Max(C), m)
  BY <1>3, <1>7, <1>8 DEF Filo, a
<1> QED
  BY <1>9 DEF E

LEMMA FiloDiUno ==
    ASSUME NEW m \in Nat
    PROVE  Filo({m}) <=> dati.steps[m].op.conserva /\ dati.steps[m].inputs[1] \in ToSet(dati.inputs)
<1>1. Min({m}) = m
  <2> DEFINE T == {m}
  <2>1. T \subseteq Nat /\ m \in T /\ \A y \in T : m <= y
    OBVIOUS
  <2> HIDE DEF T
  <2>2. Min(T) = m
    BY <2>1, MinimoNoto
  <2> QED
    BY <2>2 DEF T
<1> QED
  BY <1>1 DEF Filo

\* `provenance` follows the threads of row-keeping steps back to an input.
LEMMA RigheDaUnIngresso ==
    ASSUME PianoScritto(dati), NEW m \in Indici(dati)
    PROVE  dati.steps[m].out \in Provenienza(dati)[Len(dati.steps)] <=>
             \E C \in SUBSET (1 .. m) : m \in C /\ Filo(C)
<1> DEFINE N == Len(dati.steps)
           I == Indici(dati)
           porta(k) == dati.steps[k].out \in Provenienza(dati)[N]
           Dal(k) == \E C \in SUBSET (1 .. k) : k \in C /\ Filo(C)
           T == {k \in I : ~ (porta(k) <=> Dal(k))}
<1>0. N \in Nat /\ I = 1 .. N /\ I \subseteq Nat
  BY NomiDelPiano DEF Indici
<1> SUFFICES ASSUME T # {} PROVE FALSE
  OBVIOUS
<1>1. PICK x \in T : \A y \in T : x <= y
  <2>1. T \subseteq Nat
    BY <1>0
  <2> HIDE DEF T
  <2> QED
    BY <2>1, MinimoDi
<1>2. x \in I /\ x \in Nat
  BY <1>0, <1>1
<1> DEFINE uno == dati.steps[x].inputs[1]
           cons == dati.steps[x].op.conserva
<1>3. porta(x) <=> /\ cons
                   /\ \/ uno \in ToSet(dati.inputs)
                      \/ \E k \in I : k < x /\ uno = dati.steps[k].out /\ porta(k)
  BY <1>2, ProvenienzaDelPasso
<1> HIDE DEF porta
<1>4. \A k \in I : k < x => (porta(k) <=> Dal(k))
  <2> SUFFICES ASSUME NEW k \in I, k < x PROVE porta(k) <=> Dal(k)
    OBVIOUS
  <2>1. k \notin T
    <3>1. ~ (x <= k)
      BY <1>0, <1>2
    <3> HIDE DEF T
    <3> QED
      BY <1>1, <3>1
  <2> QED
    BY <2>1
<1>5. ASSUME porta(x) PROVE Dal(x)
  <2>1. CASE uno \in ToSet(dati.inputs)
    <3>1. Filo({x})
      BY <1>2, <1>3, <1>5, <2>1, FiloDiUno
    <3>2. {x} \in SUBSET (1 .. x) /\ x \in {x}
      BY <1>0, <1>2
    <3> QED
      BY <3>1, <3>2
  <2>2. ASSUME NEW k \in I, k < x, uno = dati.steps[k].out, porta(k) PROVE Dal(x)
    <3>1. PICK C \in SUBSET (1 .. k) : k \in C /\ Filo(C)
      BY <1>4, <2>2
    <3>2. C \subseteq Nat /\ (\A j \in C : j <= k) /\ k \in Nat
      BY <1>0, <2>2
    <3>3. \A j \in C : j < x
      BY <1>2, <2>2, <3>2
    <3>4. Max(C) = k
      BY <3>1, <3>2, MassimoNoto
    <3>5. TieneLeRighe(k, x)
      BY <1>3, <1>5, <2>2 DEF TieneLeRighe
    <3>6. Filo(C \cup {x})
      <4>1. cons /\ C # {}
        BY <1>3, <1>5, <3>1
      <4>2. Filo(C \cup {x}) <=> Filo(C) /\ cons /\ TieneLeRighe(Max(C), x)
        BY <1>2, <3>2, <3>3, <4>1, FiloAllungato
      <4> QED
        BY <3>1, <3>4, <3>5, <4>1, <4>2
    <3>7. C \cup {x} \in SUBSET (1 .. x) /\ x \in C \cup {x}
      <4>1. x \in 1 .. x /\ 1 .. k \subseteq 1 .. x
        BY <1>0, <1>2, <2>2, <3>2
      <4> QED
        BY <3>1, <4>1
    <3> QED
      BY <3>6, <3>7
  <2> QED
    BY <1>3, <1>5, <2>1, <2>2
<1>6. ASSUME Dal(x) PROVE porta(x)
  <2>1. PICK C \in SUBSET (1 .. x) : x \in C /\ Filo(C)
    BY <1>6
  <2> DEFINE B == C \ {x}
  <2>2. C = B \cup {x} /\ B \subseteq Nat /\ (\A j \in B : j < x) /\ B \subseteq I
    BY <1>0, <1>2, <2>1
  <2>3. CASE B = {}
    <3>1. C = {x}
      BY <2>2, <2>3
    <3> QED
      BY <1>2, <1>3, <2>1, <3>1, FiloDiUno
  <2>4. CASE B # {}
    <3> DEFINE k == Max(B)
    <3>1. k \in B /\ \A y \in B : y <= k
      <4>1. \A y \in B : y <= x
        BY <1>2, <2>2
      <4> HIDE DEF B
      <4> QED
        BY <1>2, <2>2, <2>4, <4>1, MassimoDi
    <3>2. Filo(B) /\ cons /\ TieneLeRighe(k, x)
      <4> HIDE DEF B
      <4> QED
        BY <1>2, <2>1, <2>2, <2>4, FiloAllungato
    <3> HIDE DEF k
    <3>3. k \in I /\ k < x /\ k \in Nat
      BY <1>0, <2>2, <3>1
    <3>4. B \in SUBSET (1 .. k)
      <4> SUFFICES ASSUME NEW y \in B PROVE y \in 1 .. k
        OBVIOUS
      <4>1. y <= k /\ y \in I
        BY <2>2, <3>1
      <4> QED
        BY <1>0, <3>3, <4>1
    <3>5. porta(k)
      BY <1>4, <3>1, <3>2, <3>3, <3>4
    <3>6. uno = dati.steps[k].out
      BY <3>2 DEF TieneLeRighe
    <3> QED
      BY <1>3, <3>2, <3>3, <3>5, <3>6
  <2> QED
    BY <2>3, <2>4
<1> QED
  BY <1>1, <1>5, <1>6

-----------------------------------------------------------------------------
\* verifica_limiti_del_piano on a written plan, and the property's own words.
LEMMA LimitiEsatti ==
    ASSUME PianoScritto(dati)
    PROVE  LimitiDelPiano(dati) <=>
             /\ Len(dati.inputs) <= MaxInputs /\ Len(dati.steps) <= MaxPlanNodes
             /\ Cardinality(ArchiDi(Nomi)) <= MaxPlanEdges
             /\ \A C \in SUBSET Indici(dati) : Catena(C) => Cardinality(C) <= MaxPlanDepth
             /\ \A n \in Nomi : Cardinality(ArchiDi({n})) <= MaxFanOut
<1> DEFINE I == Indici(dati)
           prof(k) == Profondita(dati)[k][dati.steps[k].out]
<1>0. Len(dati.steps) \in Nat /\ I \subseteq Nat /\ IsFiniteSet(I) /\ MaxPlanDepth \in Nat
      /\ \A i \in I : i <= Len(dati.steps)
  <2>1. Len(dati.steps) \in Nat
    BY NomiDelPiano
  <2>2. IsFiniteSet(1 .. Len(dati.steps))
    BY <2>1, FS_Interval
  <2> QED
    BY <2>1, <2>2, LimitiDelPianoAssunti DEF Indici
<1>1. \A i \in I : ~ dati.steps[i].op.lunga
  <2> SUFFICES ASSUME NEW i \in I PROVE ~ dati.steps[i].op.lunga
    OBVIOUS
  <2>1. dati.steps[i].op \in Operazioni
    BY NomiDelPiano DEF PassiScritti
  <2> QED
    BY <2>1, FattiDellOperazione
<1>2. ASSUME \A i \in I : prof(i) <= MaxPlanDepth, NEW C \in SUBSET I, Catena(C)
      PROVE  Cardinality(C) <= MaxPlanDepth
  <2>1. CASE C = {}
    <3>1. Cardinality(C) = 0
      BY <2>1, FS_EmptySet
    <3> QED
      BY <1>0, <3>1
  <2>2. CASE C # {}
    <3>1. C \subseteq Nat /\ \A x \in C : x <= Len(dati.steps)
      BY <1>0
    <3>2. Max(C) \in C /\ \A y \in C : y <= Max(C)
      BY <1>0, <2>2, <3>1, MassimoDi
    <3>3. Cardinality(C) <= prof(Max(C))
      BY <1>2, <3>2, CatenaEntroLaProfondita
    <3>4. prof(Max(C)) \in Nat /\ prof(Max(C)) <= MaxPlanDepth
      BY <1>2, <3>2, ProfonditaDelPasso
    <3>5. Cardinality(C) \in Nat
      BY <1>0, FS_Subset, FS_CardinalityType
    <3> HIDE DEF prof
    <3> QED
      BY <1>0, <3>3, <3>4, <3>5
  <2> QED
    BY <2>1, <2>2
<1>3. ASSUME \A C \in SUBSET I : Catena(C) => Cardinality(C) <= MaxPlanDepth, NEW i \in I
      PROVE  prof(i) <= MaxPlanDepth
  <2>1. PICK C \in SUBSET I : Catena(C) /\ Cardinality(C) = prof(i)
    BY CatenaProfonda
  <2> QED
    BY <1>3, <2>1
<1>4. (\A i \in I : prof(i) <= MaxPlanDepth)
        <=> \A C \in SUBSET I : Catena(C) => Cardinality(C) <= MaxPlanDepth
  <2> HIDE DEF prof, I
  <2> QED
    BY <1>2, <1>3
<1>5. LimitiDelPiano(dati) <=>
        /\ Len(dati.inputs) <= MaxInputs /\ Len(dati.steps) <= MaxPlanNodes
        /\ Cardinality(ArchiDi(Nomi)) <= MaxPlanEdges
        /\ \A n \in Nomi : Cardinality(ArchiDi({n})) <= MaxFanOut
        /\ \A i \in I : prof(i) <= MaxPlanDepth
  BY <1>1, ArchiDelPiano DEF LimitiDelPiano
<1> QED
  BY <1>4, <1>5

\* Pipeline::validate accepts, for plans of any number of steps within any limits,
\* exactly the plans without a chain of dependent steps longer than max_plan_depth and
\* without a table feeding more than max_fan_out inputs; and its map `provenance` names
\* exactly the tables that a thread of row-keeping steps leads back to an input.
THEOREM PianoLetto == SpecCalcoli => []ValidazioneEsatta
<1>1. InvCalcoli => ValidazioneEsatta
  <2> SUFFICES ASSUME InvCalcoli, dati.tipo = "piano"
               PROVE  ValidazioneEsatta
    BY DEF ValidazioneEsatta
  <2>1. /\ PianoScritto(dati)
        /\ risposta # "attesa" => risposta = IF LimitiDelPiano(dati) THEN "ok" ELSE "InvalidPlan"
    BY DEF InvCalcoli
  <2>2. risposta # "attesa" =>
          (risposta = "ok" <=>
             /\ Len(dati.inputs) <= MaxInputs /\ Len(dati.steps) <= MaxPlanNodes
             /\ Cardinality(ArchiDi(Nomi)) <= MaxPlanEdges
             /\ \A C \in SUBSET Indici(dati) : Catena(C) => Cardinality(C) <= MaxPlanDepth
             /\ \A n \in Nomi : Cardinality(ArchiDi({n})) <= MaxFanOut)
    BY <2>1, LimitiEsatti
  <2>3. ASSUME NEW j \in Indici(dati)
        PROVE  dati.steps[j].out \in Provenienza(dati)[Len(dati.steps)] <=>
                 \E C \in SUBSET (1 .. j) :
                    /\ j \in C
                    /\ \A k \in C : dati.steps[k].op.conserva
                    /\ \A k \in C \ {Min(C)} : TieneLeRighe(Max({i \in C : i < k}), k)
                    /\ dati.steps[Min(C)].inputs[1] \in ToSet(dati.inputs)
    BY <2>1, RigheDaUnIngresso DEF Filo
  <2> QED
    BY <2>2, <2>3 DEF ValidazioneEsatta
<1> QED
  BY <1>1, CalcoliSempre, PTL
=============================================================================
