----------------------------- MODULE ErroriProofs -----------------------------
(***************************************************************************)
(* The axes of an error whose wrappers the methods of PlenoraError built:  *)
(* what every method does to the cause, the phase, the effect and the      *)
(* retry class, for chains of any length; and the chain of wrappers        *)
(* implements the record of axes (ErroreAstratto), for any number of calls *)
(* in any order.                                                           *)
(***************************************************************************)
EXTENDS MCErrori, SequenceTheorems, WellFoundedInduction, TLAPS

\* Every nonempty set of naturals has a least element.
LEMMA MinimoDi ==
    ASSUME NEW T, T \subseteq Nat, T # {}
    PROVE  \E x \in T : \A y \in T : x <= y
<1>1. PICK x \in T : \A y \in T : ~ (<<y, x>> \in OpToRel(<, Nat))
  BY NatLessThanWellFounded, WFMin
<1>2. \A y \in T : ~ (y < x)
  BY <1>1 DEF OpToRel
<1> QED
  BY <1>2

-----------------------------------------------------------------------------
(* The shape of a chain.  The methods keep the phase innermost and never leave
   two effects, or an effect `none`: what the axes are does not depend on the
   order in which the layers called them. *)

Involucro ==
    [tipo : {"Tagged", "RowDiagnostics", "WithRemoteEffect"},
     valore : Fasi \cup Effetti \cup {"righe"}]

Catene == [causa : Cause, involucri : Seq(Involucro)]

Forma(e) ==
    /\ e \in Catene
    /\ \A k \in Posti(e, "Tagged") :
         k = Len(e.involucri) /\ e.involucri[k].valore \in Fasi
    /\ \A j, k \in Posti(e, "WithRemoteEffect") : j = k
    /\ \A k \in Posti(e, "WithRemoteEffect") :
         e.involucri[k].valore \in Effetti \ {"none"}

\* The axes read off the positions.
LEMMA LetturaDegliAssi ==
    ASSUME NEW e, Forma(e)
    PROVE  /\ \A k \in Posti(e, "Tagged") : phase(e) = e.involucri[k].valore
           /\ ~ Ha(e, "Tagged") => phase(e) = FaseDellaCausa(e.causa)
           /\ \A k \in Posti(e, "WithRemoteEffect") :
                remote_effect(e) = e.involucri[k].valore
           /\ ~ Ha(e, "WithRemoteEffect") => remote_effect(e) = "none"
           /\ Ha(e, "WithRemoteEffect") <=> remote_effect(e) # "none"
           /\ remote_effect(e) \in Effetti
<1>1. e.involucri \in Seq(Involucro)
  BY DEF Forma, Catene
<1>2. ASSUME NEW t, NEW k \in Posti(e, t), \A j \in Posti(e, t) : j = k
      PROVE  Primo(e, t) = e.involucri[k].valore
  <2>1. k \in Nat
    BY <1>1 DEF Posti
  <2> DEFINE x == CHOOSE x \in Posti(e, t) : \A j \in Posti(e, t) : x <= j
  <2>2. \E y \in Posti(e, t) : \A j \in Posti(e, t) : y <= j
    <3>1. \A j \in Posti(e, t) : k <= j
      BY <1>2, <2>1
    <3> QED
      BY <3>1
  <2>3. x \in Posti(e, t)
    BY <2>2
  <2>4. x = k
    BY <1>2, <2>3
  <2> QED
    BY <2>4 DEF Primo
<1>3. ASSUME NEW k \in Posti(e, "Tagged") PROVE phase(e) = e.involucri[k].valore
  <2>1. \A j \in Posti(e, "Tagged") : j = k
    BY DEF Forma
  <2> QED
    BY <1>2, <2>1 DEF phase, Ha
<1>4. ASSUME NEW k \in Posti(e, "WithRemoteEffect")
      PROVE  /\ remote_effect(e) = e.involucri[k].valore
             /\ remote_effect(e) # "none" /\ remote_effect(e) \in Effetti
  <2>1. \A j \in Posti(e, "WithRemoteEffect") : j = k
    BY DEF Forma
  <2>2. remote_effect(e) = e.involucri[k].valore
    BY <1>2, <2>1 DEF remote_effect, Ha
  <2> QED
    BY <2>2 DEF Forma
<1>5. ~ Ha(e, "WithRemoteEffect") => remote_effect(e) = "none"
  BY DEF remote_effect
<1>6. ~ Ha(e, "Tagged") => phase(e) = FaseDellaCausa(e.causa)
  BY DEF phase
<1>7. Ha(e, "WithRemoteEffect") <=> remote_effect(e) # "none"
  BY <1>4, <1>5 DEF Ha
<1>8. remote_effect(e) \in Effetti
  BY <1>4, <1>5 DEF Ha, Effetti
<1> QED
  BY <1>3, <1>4, <1>5, <1>6, <1>7, <1>8

\* An error without wrappers.
LEMMA AssiDelNudo ==
    ASSUME NEW c \in Cause
    PROVE  /\ Forma(Nudo(c))
           /\ Nudo(c).causa = c
           /\ ~ Ha(Nudo(c), "Tagged")
           /\ phase(Nudo(c)) = FaseDellaCausa(c)
           /\ remote_effect(Nudo(c)) = "none"
<1>1. /\ Nudo(c) \in Catene /\ Nudo(c).causa = c
      /\ Nudo(c).involucri = <<>>
  BY DEF Nudo, Catene
<1>2. \A t : Posti(Nudo(c), t) = {}
  BY <1>1 DEF Posti
<1>3. Forma(Nudo(c))
  BY <1>1, <1>2 DEF Forma
<1> QED
  BY <1>1, <1>2, <1>3, LetturaDegliAssi DEF Ha

-----------------------------------------------------------------------------
(* with_phase *)

LEMMA AssiConFase ==
    ASSUME NEW e, Forma(e), NEW f \in Fasi
    PROVE  LET g == with_phase(e, f)
           IN /\ Forma(g)
              /\ g.causa = e.causa
              /\ Ha(g, "Tagged")
              /\ phase(g) = IF Ha(e, "Tagged") THEN phase(e) ELSE f
              /\ remote_effect(g) = remote_effect(e)
<1> DEFINE g == with_phase(e, f)
<1>1. CASE Ha(e, "Tagged")
  BY <1>1 DEF with_phase
<1>2. CASE ~ Ha(e, "Tagged")
  <2> DEFINE s == e.involucri
             n == Len(s)
  <2>1. s \in Seq(Involucro) /\ n \in Nat /\ e.causa \in Cause
    BY DEF Forma, Catene
  <2>2. Tagged(f) \in Involucro /\ Tagged(f).tipo = "Tagged" /\ Tagged(f).valore = f
    BY DEF Tagged, Involucro
  <2>3. g = [causa |-> e.causa, involucri |-> Append(s, Tagged(f))]
    BY <1>2 DEF with_phase, Forma, Catene
  <2> HIDE DEF g
  <2>4. /\ g.causa = e.causa
        /\ g.involucri = Append(s, Tagged(f))
        /\ g.involucri \in Seq(Involucro)
    BY <2>1, <2>2, <2>3
  <2>5. /\ Len(g.involucri) = n + 1
        /\ g.involucri[n + 1] = Tagged(f)
        /\ \A k \in 1 .. n : g.involucri[k] = s[k]
        /\ DOMAIN g.involucri = 1 .. (n + 1) /\ DOMAIN s = 1 .. n
    BY <2>1, <2>2, <2>4
  <2>6. g \in Catene
    BY <2>1, <2>3, <2>4 DEF Catene
  <2>7. Posti(e, "Tagged") = {}
    BY <1>2 DEF Ha
  <2>8. Posti(g, "Tagged") = {n + 1}
    BY <2>1, <2>2, <2>5, <2>7 DEF Posti
  <2>9. /\ Posti(g, "WithRemoteEffect") = Posti(e, "WithRemoteEffect")
        /\ \A k \in Posti(e, "WithRemoteEffect") : g.involucri[k] = s[k]
    BY <2>1, <2>2, <2>5 DEF Posti
  <2>10. Forma(g)
    <3>1. \A k \in Posti(g, "Tagged") :
            k = Len(g.involucri) /\ g.involucri[k].valore \in Fasi
      BY <2>2, <2>5, <2>8
    <3> QED
      BY <2>6, <2>9, <3>1 DEF Forma
  <2>11. Ha(g, "Tagged") /\ phase(g) = f
    BY <2>2, <2>5, <2>8, <2>10, LetturaDegliAssi DEF Ha
  <2>12. remote_effect(g) = remote_effect(e)
    <3>1. CASE Ha(e, "WithRemoteEffect")
      <4>1. PICK k : k \in Posti(e, "WithRemoteEffect")
        BY <3>1 DEF Ha
      <4> QED
        BY <2>9, <2>10, <4>1, LetturaDegliAssi
    <3>2. CASE ~ Ha(e, "WithRemoteEffect")
      BY <2>9, <2>10, <3>2, LetturaDegliAssi DEF Ha
    <3> QED
      BY <3>1, <3>2
  <2> QED
    BY <1>2, <2>4, <2>10, <2>11, <2>12 DEF g
<1> QED
  BY <1>1, <1>2

-----------------------------------------------------------------------------
(* A wrapper put on top: with_remote_effect, with_row_diagnostics *)

LEMMA AssiSopra ==
    ASSUME NEW e, Forma(e), NEW w \in Involucro, w.tipo # "Tagged",
           w.tipo = "WithRemoteEffect" =>
             ~ Ha(e, "WithRemoteEffect") /\ w.valore \in Effetti \ {"none"}
    PROVE  LET g == Sopra(w, e)
           IN /\ Forma(g)
              /\ g.causa = e.causa
              /\ Ha(g, "Tagged") <=> Ha(e, "Tagged")
              /\ phase(g) = phase(e)
              /\ remote_effect(g) =
                   IF w.tipo = "WithRemoteEffect" THEN w.valore ELSE remote_effect(e)
<1> DEFINE g == Sopra(w, e)
           s == e.involucri
           n == Len(s)
<1>1. s \in Seq(Involucro) /\ n \in Nat /\ e.causa \in Cause
  BY DEF Forma, Catene
<1>2. g = [causa |-> e.causa, involucri |-> <<w>> \o s]
  <2> DEFINE c == <<w>> \o s
  <2>1. g = [e EXCEPT !.involucri = c]
    BY DEF Sopra
  <2>2. e \in [causa : Cause, involucri : Seq(Involucro)]
    BY DEF Forma, Catene
  <2> HIDE DEF c, g
  <2>3. g = [causa |-> e.causa, involucri |-> c]
    BY <2>1, <2>2
  <2> QED
    BY <2>3 DEF c
<1> HIDE DEF g
<1>3. /\ g.causa = e.causa
      /\ g.involucri = <<w>> \o s
  BY <1>2
<1>4. /\ <<w>> \in Seq(Involucro) /\ Len(<<w>>) = 1
  OBVIOUS
<1>5. /\ g.involucri \in Seq(Involucro)
      /\ Len(g.involucri) = n + 1
      /\ g.involucri[1] = w
      /\ \A k \in 1 .. n : g.involucri[k + 1] = s[k]
  <2>1. /\ <<w>> \o s \in Seq(Involucro)
        /\ Len(<<w>> \o s) = 1 + n
        /\ \A i \in 1 .. 1 + n : (<<w>> \o s)[i] = IF i <= 1 THEN <<w>>[i] ELSE s[i - 1]
    BY <1>1, <1>4, ConcatProperties
  <2>2. ASSUME NEW k \in 1 .. n PROVE (<<w>> \o s)[k + 1] = s[k]
    <3>1. k + 1 \in 1 .. 1 + n /\ ~ (k + 1 <= 1) /\ (k + 1) - 1 = k
      BY <1>1
    <3> QED
      BY <2>1, <3>1
  <2>3. (<<w>> \o s)[1] = w
    <3>1. 1 \in 1 .. 1 + n /\ 1 <= 1
      BY <1>1
    <3> QED
      BY <2>1, <3>1
  <2> QED
    BY <1>1, <1>3, <2>1, <2>2, <2>3
<1>6. g \in Catene
  BY <1>1, <1>2, <1>3, <1>5 DEF Catene
<1>7. DOMAIN g.involucri = 1 .. (n + 1) /\ DOMAIN s = 1 .. n
  BY <1>1, <1>5
<1>8. ASSUME NEW t
      PROVE  /\ \A k \in Posti(e, t) : k + 1 \in Posti(g, t) /\ g.involucri[k + 1] = s[k]
             /\ \A k \in Posti(g, t) : (k = 1 /\ w.tipo = t) \/ k - 1 \in Posti(e, t)
             /\ w.tipo = t => 1 \in Posti(g, t)
  <2>1. ASSUME NEW k \in Posti(e, t)
        PROVE  k + 1 \in Posti(g, t) /\ g.involucri[k + 1] = s[k]
    BY <1>1, <1>5, <1>7 DEF Posti
  <2>2. ASSUME NEW k \in Posti(g, t), k # 1
        PROVE  k - 1 \in Posti(e, t)
    <3>1. k - 1 \in 1 .. n /\ (k - 1) + 1 = k
      BY <1>1, <1>7, <2>2 DEF Posti
    <3>2. g.involucri[k] = s[k - 1]
      BY <1>5, <3>1
    <3> QED
      BY <1>7, <3>1, <3>2 DEF Posti
  <2>3. 1 \in Posti(g, t) <=> w.tipo = t
    BY <1>1, <1>5, <1>7 DEF Posti
  <2> QED
    BY <2>1, <2>2, <2>3
<1>9. /\ \A k \in Posti(g, "Tagged") : k - 1 \in Posti(e, "Tagged")
      /\ \A k \in Posti(g, "Tagged") : k \in Nat
      /\ \A k \in Posti(g, "WithRemoteEffect") : k \in Nat
  <2>1. \A t : \A k \in Posti(g, t) : k \in Nat
    BY <1>1, <1>7 DEF Posti
  <2>2. \A k \in Posti(g, "Tagged") : k - 1 \in Posti(e, "Tagged")
    BY <1>8
  <2> QED
    BY <2>1, <2>2
<1>10. ASSUME NEW k \in Posti(g, "Tagged")
       PROVE  k = Len(g.involucri) /\ g.involucri[k].valore \in Fasi
  <2>1. k - 1 = n /\ s[k - 1].valore \in Fasi /\ k - 1 \in Posti(e, "Tagged")
    BY <1>9 DEF Forma
  <2>2. (k - 1) + 1 = k
    BY <1>9
  <2>3. g.involucri[k] = s[k - 1]
    BY <1>8, <2>1, <2>2
  <2>4. k = n + 1
    BY <1>9, <2>1
  <2> QED
    BY <1>5, <2>1, <2>3, <2>4
<1>11. ASSUME w.tipo = "WithRemoteEffect"
       PROVE  Forma(g) /\ remote_effect(g) = w.valore
  <2>1. Posti(g, "WithRemoteEffect") = {1}
    BY <1>8, <1>11 DEF Ha
  <2>2. Forma(g)
    BY <1>5, <1>6, <1>10, <1>11, <2>1 DEF Forma
  <2> QED
    BY <1>5, <2>1, <2>2, LetturaDegliAssi
<1>12. ASSUME w.tipo # "WithRemoteEffect"
       PROVE  Forma(g) /\ remote_effect(g) = remote_effect(e)
  <2>1. ASSUME NEW k \in Posti(g, "WithRemoteEffect")
        PROVE  /\ k - 1 \in Posti(e, "WithRemoteEffect")
               /\ g.involucri[k] = s[k - 1]
    <3>1. k - 1 \in Posti(e, "WithRemoteEffect") /\ (k - 1) + 1 = k
      BY <1>8, <1>9, <1>12
    <3> QED
      BY <1>8, <3>1
  <2>2. ASSUME NEW j \in Posti(g, "WithRemoteEffect"), NEW k \in Posti(g, "WithRemoteEffect")
        PROVE  j = k
    <3>1. j - 1 = k - 1
      BY <2>1 DEF Forma
    <3> QED
      BY <1>9, <3>1
  <2>3. Forma(g)
    BY <1>6, <1>10, <2>1, <2>2 DEF Forma
  <2>4. remote_effect(g) = remote_effect(e)
    <3>1. CASE Ha(e, "WithRemoteEffect")
      <4>1. PICK k : k \in Posti(e, "WithRemoteEffect")
        BY <3>1 DEF Ha
      <4>2. k + 1 \in Posti(g, "WithRemoteEffect") /\ g.involucri[k + 1] = s[k]
        BY <1>8, <4>1
      <4> QED
        BY <2>3, <4>1, <4>2, LetturaDegliAssi
    <3>2. CASE ~ Ha(e, "WithRemoteEffect")
      <4>1. ~ Ha(g, "WithRemoteEffect")
        BY <2>1, <3>2 DEF Ha
      <4> QED
        BY <2>3, <3>2, <4>1, LetturaDegliAssi
    <3> QED
      BY <3>1, <3>2
  <2> QED
    BY <2>3, <2>4
<1>13. Forma(g) /\ remote_effect(g) =
         IF w.tipo = "WithRemoteEffect" THEN w.valore ELSE remote_effect(e)
  BY <1>11, <1>12
<1>14. phase(g) = phase(e) /\ (Ha(g, "Tagged") <=> Ha(e, "Tagged"))
  <2>1. CASE Ha(e, "Tagged")
    <3>1. PICK k : k \in Posti(e, "Tagged")
      BY <2>1 DEF Ha
    <3>2. k + 1 \in Posti(g, "Tagged") /\ g.involucri[k + 1] = s[k]
      BY <1>8, <3>1
    <3> QED
      BY <1>13, <2>1, <3>1, <3>2, LetturaDegliAssi DEF Ha
  <2>2. CASE ~ Ha(e, "Tagged")
    <3>1. ~ Ha(g, "Tagged")
      BY <1>9, <2>2 DEF Ha
    <3> QED
      BY <1>3, <1>13, <2>2, <3>1, LetturaDegliAssi
  <2> QED
    BY <2>1, <2>2
<1> QED
  BY <1>3, <1>13, <1>14 DEF g

LEMMA AssiConEffetto ==
    ASSUME NEW e, Forma(e), NEW x \in Effetti
    PROVE  LET g == with_remote_effect(e, x)
           IN /\ Forma(g)
              /\ g.causa = e.causa
              /\ Ha(g, "Tagged") <=> Ha(e, "Tagged")
              /\ phase(g) = phase(e)
              /\ remote_effect(g) = IF remote_effect(e) = "none" THEN x ELSE remote_effect(e)
<1>1. CASE x = "none" \/ Ha(e, "WithRemoteEffect")
  <2>1. with_remote_effect(e, x) = e
    BY <1>1 DEF with_remote_effect
  <2> QED
    BY <1>1, <2>1, LetturaDegliAssi
<1>2. CASE ~ (x = "none" \/ Ha(e, "WithRemoteEffect"))
  <2>1. with_remote_effect(e, x) = Sopra(WithRemoteEffect(x), e)
    BY <1>2 DEF with_remote_effect
  <2>2. /\ WithRemoteEffect(x) \in Involucro
        /\ WithRemoteEffect(x).tipo = "WithRemoteEffect"
        /\ WithRemoteEffect(x).valore = x
    BY DEF WithRemoteEffect, Involucro
  <2>3. x \in Effetti \ {"none"}
    BY <1>2
  <2> QED
    BY <1>2, <2>1, <2>2, <2>3, AssiSopra, LetturaDegliAssi
<1> QED
  BY <1>1, <1>2

LEMMA AssiConDiagnostica ==
    ASSUME NEW e, Forma(e)
    PROVE  LET g == with_row_diagnostics(e, TRUE)
           IN /\ Forma(g)
              /\ g.causa = e.causa
              /\ Ha(g, "Tagged") <=> Ha(e, "Tagged")
              /\ phase(g) = phase(e)
              /\ remote_effect(g) = remote_effect(e)
<1>1. with_row_diagnostics(e, TRUE) = Sopra(RowDiagnostics, e)
  BY DEF with_row_diagnostics
<1>2. RowDiagnostics \in Involucro /\ RowDiagnostics.tipo = "RowDiagnostics"
  BY DEF RowDiagnostics, Involucro
<1> QED
  BY <1>1, <1>2, AssiSopra

-----------------------------------------------------------------------------
(* The wrappers of a kind removed: override_remote_effect, untag *)

\* g is the filter of SenzaTipo along the first n wrappers of s.
Filtro(s, t, g, n) ==
    g = [k \in 0 .. n |->
           IF k = 0 THEN <<>>
           ELSE IF s[k].tipo = t THEN g[k - 1] ELSE Append(g[k - 1], s[k])]

LEMMA FiltroEsiste ==
    ASSUME NEW s, NEW t, NEW N \in Nat
    PROVE  \E g : Filtro(s, t, g, N)
<1> DEFINE T == {n \in Nat : ~ \E g : Filtro(s, t, g, n)}
           Passo(h, k) == IF s[k].tipo = t THEN h[k - 1] ELSE Append(h[k - 1], s[k])
<1> SUFFICES ASSUME T # {} PROVE FALSE
  OBVIOUS
<1>1. PICK m \in T : \A n \in T : m <= n
  <2>1. T \subseteq Nat
    OBVIOUS
  <2> HIDE DEF T
  <2> QED
    BY <2>1, MinimoDi
<1>2. CASE m = 0
  <2> DEFINE g == [k \in 0 .. 0 |-> <<>>]
  <2>1. g = [k \in 0 .. 0 |-> IF k = 0 THEN <<>> ELSE Passo(g, k)]
    <3> HIDE DEF Passo
    <3> QED
      OBVIOUS
  <2>2. Filtro(s, t, g, 0)
    BY <2>1 DEF Filtro
  <2> QED
    BY <1>2, <2>2
<1>3. CASE m # 0
  <2>1. m \in Nat /\ m - 1 \in Nat /\ ~ (m <= m - 1)
    BY <1>3
  <2>2. PICK h : Filtro(s, t, h, m - 1)
    BY <1>1, <2>1
  <2> DEFINE g == [k \in 0 .. m |-> IF k = m THEN Passo(h, m) ELSE h[k]]
  <2>3. ASSUME NEW k \in 0 .. m
        PROVE  g[k] = IF k = 0 THEN <<>> ELSE Passo(g, k)
    <3>1. CASE k = m
      <4>1. g[k - 1] = h[m - 1] /\ g[k] = Passo(h, m)
        <5> HIDE DEF Passo
        <5> QED
          BY <1>3, <2>1, <3>1
      <4> HIDE DEF g
      <4> QED
        BY <1>3, <3>1, <4>1
    <3>2. CASE k # m
      <4>1. k \in 0 .. (m - 1) /\ g[k] = h[k] /\ (k # 0 => g[k - 1] = h[k - 1])
        <5> HIDE DEF Passo
        <5> QED
          BY <2>1, <3>2
      <4>2. h[k] = IF k = 0 THEN <<>> ELSE Passo(h, k)
        BY <2>2, <4>1 DEF Filtro
      <4> HIDE DEF g
      <4> QED
        BY <4>1, <4>2
    <3> QED
      BY <3>1, <3>2
  <2>4. Filtro(s, t, g, m)
    <3>1. g = [k \in 0 .. m |-> g[k]]
      OBVIOUS
    <3> HIDE DEF g
    <3>2. g = [k \in 0 .. m |-> IF k = 0 THEN <<>> ELSE Passo(g, k)]
      <4> HIDE DEF Passo
      <4> QED
        BY <2>3, <3>1
    <3> QED
      BY <3>2 DEF Filtro
  <2> QED
    BY <2>4
<1> QED
  BY <1>2, <1>3

\* The equations of the filter.
Equazioni(s, t, g) ==
    /\ g[0] = <<>>
    /\ \A k \in 1 .. Len(s) :
         g[k] = IF s[k].tipo = t THEN g[k - 1] ELSE Append(g[k - 1], s[k])

LEMMA FiltroPassi ==
    ASSUME NEW e, NEW t, e.involucri \in Seq(Involucro)
    PROVE  \E g : /\ SenzaTipo(e, t) = [e EXCEPT !.involucri = g[Len(e.involucri)]]
                  /\ Equazioni(e.involucri, t, g)
<1> DEFINE s == e.involucri
           n == Len(s)
           g == CHOOSE x : Filtro(s, t, x, n)
<1>0. n \in Nat
  OBVIOUS
<1>1. Filtro(s, t, g, n)
  BY <1>0, FiltroEsiste
<1>2. SenzaTipo(e, t) = [e EXCEPT !.involucri = g[n]]
  BY DEF SenzaTipo, Filtro
<1> HIDE DEF g
<1>3. g = [k \in 0 .. n |->
             IF k = 0 THEN <<>>
             ELSE IF s[k].tipo = t THEN g[k - 1] ELSE Append(g[k - 1], s[k])]
  BY <1>1 DEF Filtro
<1> HIDE DEF s, n
<1>4. g[0] = <<>>
  BY <1>0, <1>3
<1> DEFINE Passo(k) == IF s[k].tipo = t THEN g[k - 1] ELSE Append(g[k - 1], s[k])
<1>5. g = [k \in 0 .. n |-> IF k = 0 THEN <<>> ELSE Passo(k)]
  BY <1>3
<1>6. ASSUME NEW k \in 1 .. n PROVE g[k] = Passo(k)
  <2> HIDE DEF Passo
  <2>1. k \in 0 .. n /\ k # 0
    BY <1>0
  <2> QED
    BY <1>5, <2>1
<1> QED
  BY <1>2, <1>4, <1>6 DEF s, n, Equazioni

\* What the filter keeps: only wrappers of the other kinds, and all of them, in
\* place, as long as it has met none of its own.
LEMMA FiltroTiene ==
    ASSUME NEW s \in Seq(Involucro), NEW t, NEW g, Equazioni(s, t, g),
           NEW i \in 0 .. Len(s)
    PROVE  /\ g[i] \in Seq(Involucro)
           /\ \A m \in 1 .. Len(g[i]) :
                \E j \in 1 .. i : g[i][m] = s[j] /\ s[j].tipo # t
           /\ (\A j \in 1 .. i : s[j].tipo # t) =>
                Len(g[i]) = i /\ \A j \in 1 .. i : g[i][j] = s[j]
<1> DEFINE P(k) == /\ g[k] \in Seq(Involucro)
                   /\ \A m \in 1 .. Len(g[k]) :
                        \E j \in 1 .. k : g[k][m] = s[j] /\ s[j].tipo # t
                   /\ (\A j \in 1 .. k : s[j].tipo # t) =>
                        Len(g[k]) = k /\ \A j \in 1 .. k : g[k][j] = s[j]
           T == {k \in 0 .. Len(s) : ~ P(k)}
<1>0. Len(s) \in Nat
  OBVIOUS
<1> SUFFICES ASSUME T # {} PROVE FALSE
  OBVIOUS
<1>1. PICK k \in T : \A j \in T : k <= j
  <2>1. T \subseteq Nat
    BY <1>0
  <2> HIDE DEF T
  <2> QED
    BY <2>1, MinimoDi
<1>2. k # 0
  <2>1. P(0)
    BY DEF Equazioni
  <2> HIDE DEF P
  <2> QED
    BY <2>1
<1>3. /\ k \in Nat /\ k - 1 \in 0 .. Len(s) /\ ~ (k <= k - 1) /\ k \in 1 .. Len(s)
  BY <1>0, <1>2
<1>4. P(k - 1)
  <2> HIDE DEF P
  <2> QED
    BY <1>1, <1>3
<1>5. s[k] \in Involucro
  BY <1>3
<1>6. CASE s[k].tipo = t
  <2>1. g[k] = g[k - 1]
    BY <1>3, <1>6 DEF Equazioni
  <2>2. \A m \in 1 .. Len(g[k]) : \E j \in 1 .. k : g[k][m] = s[j] /\ s[j].tipo # t
    <3>1. 1 .. (k - 1) \subseteq 1 .. k
      BY <1>3
    <3> QED
      BY <1>4, <2>1, <3>1
  <2>3. ~ (\A j \in 1 .. k : s[j].tipo # t)
    BY <1>3, <1>6
  <2>4. P(k)
    BY <1>4, <2>1, <2>2, <2>3
  <2> HIDE DEF P
  <2> QED
    BY <2>4
<1>7. CASE s[k].tipo # t
  <2>1. g[k] = Append(g[k - 1], s[k])
    BY <1>3, <1>7 DEF Equazioni
  <2>2. g[k - 1] \in Seq(Involucro) /\ Len(g[k - 1]) \in Nat
    BY <1>4
  <2>3. /\ g[k] \in Seq(Involucro)
        /\ Len(g[k]) = Len(g[k - 1]) + 1
        /\ g[k][Len(g[k - 1]) + 1] = s[k]
        /\ \A m \in 1 .. Len(g[k - 1]) : g[k][m] = g[k - 1][m]
    BY <1>5, <2>1, <2>2, AppendProperties
  <2>4. ASSUME NEW m \in 1 .. Len(g[k])
        PROVE  \E j \in 1 .. k : g[k][m] = s[j] /\ s[j].tipo # t
    <3>1. CASE m = Len(g[k - 1]) + 1
      BY <1>3, <1>7, <2>3, <3>1
    <3>2. CASE m # Len(g[k - 1]) + 1
      <4>1. m \in 1 .. Len(g[k - 1])
        BY <2>2, <2>3, <3>2
      <4>2. PICK j \in 1 .. (k - 1) : g[k - 1][m] = s[j] /\ s[j].tipo # t
        BY <1>4, <4>1
      <4>3. j \in 1 .. k
        BY <1>3
      <4> QED
        BY <2>3, <4>1, <4>2, <4>3
    <3> QED
      BY <3>1, <3>2
  <2>5. ASSUME \A j \in 1 .. k : s[j].tipo # t
        PROVE  Len(g[k]) = k /\ \A j \in 1 .. k : g[k][j] = s[j]
    <3>1. \A j \in 1 .. (k - 1) : s[j].tipo # t
      BY <1>3, <2>5
    <3>2. Len(g[k - 1]) = k - 1 /\ \A j \in 1 .. (k - 1) : g[k - 1][j] = s[j]
      BY <1>4, <3>1
    <3>3. Len(g[k]) = k /\ g[k][k] = s[k]
      BY <1>3, <2>3, <3>2
    <3>4. ASSUME NEW j \in 1 .. k PROVE g[k][j] = s[j]
      <4>1. CASE j = k
        BY <3>3, <4>1
      <4>2. CASE j # k
        <5>1. j \in 1 .. (k - 1)
          BY <1>3, <4>2
        <5> QED
          BY <2>3, <3>2, <5>1
      <4> QED
        BY <4>1, <4>2
    <3> QED
      BY <3>3, <3>4
  <2>6. P(k)
    BY <2>3, <2>4, <2>5
  <2> HIDE DEF P
  <2> QED
    BY <2>6
<1> QED
  BY <1>6, <1>7

\* What is left is still a chain, with none of the kind removed.
LEMMA SenzaTipoCatena ==
    ASSUME NEW e, Forma(e), NEW t
    PROVE  /\ SenzaTipo(e, t) \in Catene
           /\ SenzaTipo(e, t).causa = e.causa
           /\ ~ Ha(SenzaTipo(e, t), t)
<1> DEFINE s == e.involucri
           n == Len(s)
           d == SenzaTipo(e, t)
<1>1. s \in Seq(Involucro) /\ n \in Nat /\ e.causa \in Cause
      /\ e \in [causa : Cause, involucri : Seq(Involucro)]
  BY DEF Forma, Catene
<1>2. PICK g : d = [e EXCEPT !.involucri = g[n]] /\ Equazioni(s, t, g)
  BY <1>1, FiltroPassi
<1>3. n \in 0 .. n
  BY <1>1
<1>4. /\ g[n] \in Seq(Involucro)
      /\ \A m \in 1 .. Len(g[n]) : \E j \in 1 .. n : g[n][m] = s[j] /\ s[j].tipo # t
  BY <1>1, <1>2, <1>3, FiltroTiene
<1> HIDE DEF d
<1>5. d = [causa |-> e.causa, involucri |-> g[n]]
  BY <1>1, <1>2
<1>6. d.causa = e.causa /\ d.involucri = g[n] /\ d \in Catene
  BY <1>1, <1>4, <1>5 DEF Catene
<1>7. Posti(d, t) = {}
  BY <1>4, <1>6 DEF Posti
<1> QED
  BY <1>6, <1>7 DEF Ha, d

\* The effect removed: the phase stays, innermost.
LEMMA AssiSenzaEffetto ==
    ASSUME NEW e, Forma(e)
    PROVE  LET d == SenzaTipo(e, "WithRemoteEffect")
           IN /\ Forma(d)
              /\ Ha(d, "Tagged") <=> Ha(e, "Tagged")
              /\ phase(d) = phase(e)
              /\ ~ Ha(d, "WithRemoteEffect")
<1> DEFINE s == e.involucri
           n == Len(s)
           t == "WithRemoteEffect"
           d == SenzaTipo(e, t)
<1>1. s \in Seq(Involucro) /\ n \in Nat
      /\ e \in [causa : Cause, involucri : Seq(Involucro)]
      /\ DOMAIN s = 1 .. n
  BY DEF Forma, Catene
<1>2. PICK g : d = [e EXCEPT !.involucri = g[n]] /\ Equazioni(s, t, g)
  BY <1>1, FiltroPassi
<1>3. d \in Catene /\ d.causa = e.causa /\ ~ Ha(d, t)
  BY SenzaTipoCatena
<1> HIDE DEF d
<1>4. d.involucri = g[n]
  BY <1>1, <1>2
<1>5. ASSUME NEW i \in 0 .. n
      PROVE  /\ g[i] \in Seq(Involucro)
             /\ \A m \in 1 .. Len(g[i]) : \E j \in 1 .. i : g[i][m] = s[j]
  BY <1>1, <1>2, FiltroTiene
<1>6. CASE Ha(e, "Tagged")
  <2>1. /\ n \in Posti(e, "Tagged") /\ s[n].tipo = "Tagged" /\ s[n].valore \in Fasi
        /\ n \in 1 .. n /\ n - 1 \in 0 .. n /\ n \in 0 .. n
        /\ s[n] \in Involucro
    <3>1. PICK k : k \in Posti(e, "Tagged")
      BY <1>6 DEF Ha
    <3>2. k = n /\ s[n].valore \in Fasi
      BY <3>1 DEF Forma
    <3>3. n \in 1 .. n /\ s[n].tipo = "Tagged"
      BY <1>1, <3>1, <3>2 DEF Posti
    <3> QED
      BY <1>1, <3>1, <3>2, <3>3
  <2>2. g[n] = Append(g[n - 1], s[n])
    BY <1>2, <2>1 DEF Equazioni
  <2>3. g[n - 1] \in Seq(Involucro) /\ Len(g[n - 1]) \in Nat
    BY <1>5, <2>1
  <2> DEFINE l == Len(g[n - 1])
  <2>4. /\ Len(g[n]) = l + 1
        /\ g[n][l + 1] = s[n]
        /\ \A m \in 1 .. l : g[n][m] = g[n - 1][m]
        /\ DOMAIN g[n] = 1 .. (l + 1)
    BY <2>1, <2>2, <2>3, AppendProperties
  <2>5. ASSUME NEW m \in 1 .. l PROVE g[n][m].tipo # "Tagged"
    <3>1. PICK j \in 1 .. (n - 1) : g[n - 1][m] = s[j]
      BY <1>5, <2>1
    <3>2. j \in DOMAIN s /\ j # n
      BY <1>1
    <3>3. j \notin Posti(e, "Tagged")
      BY <3>2 DEF Forma
    <3> QED
      BY <2>4, <3>1, <3>2, <3>3 DEF Posti
  <2>6. Posti(d, "Tagged") = {l + 1}
    <3>1. \A m \in 1 .. (l + 1) : m = l + 1 \/ m \in 1 .. l
      BY <2>3
    <3>2. l + 1 \in 1 .. (l + 1)
      BY <2>3
    <3> HIDE DEF l
    <3> QED
      BY <1>4, <2>1, <2>4, <2>5, <3>1, <3>2 DEF Posti
  <2>7. Forma(d)
    <3>1. Posti(d, t) = {}
      BY <1>3 DEF Ha
    <3> QED
      BY <1>3, <1>4, <2>1, <2>4, <2>6, <3>1 DEF Forma
  <2>8. phase(d) = s[n].valore
    BY <1>4, <2>4, <2>6, <2>7, LetturaDegliAssi
  <2>9. phase(e) = s[n].valore
    BY <2>1, LetturaDegliAssi
  <2> QED
    BY <1>3, <1>6, <2>6, <2>7, <2>8, <2>9 DEF Ha, d
<1>7. CASE ~ Ha(e, "Tagged")
  <2>1. n \in 0 .. n
    BY <1>1
  <2>2. Posti(d, "Tagged") = {}
    <3> SUFFICES ASSUME NEW m \in Posti(d, "Tagged") PROVE FALSE
      OBVIOUS
    <3>1. m \in 1 .. Len(g[n]) /\ g[n][m].tipo = "Tagged"
      BY <1>4, <1>5, <2>1 DEF Posti
    <3>2. PICK j \in 1 .. n : g[n][m] = s[j]
      BY <1>5, <2>1, <3>1
    <3>3. j \in Posti(e, "Tagged")
      BY <1>1, <3>1, <3>2 DEF Posti
    <3> QED
      BY <1>7, <3>3 DEF Ha
  <2>3. Forma(d)
    <3>1. Posti(d, t) = {}
      BY <1>3 DEF Ha
    <3> QED
      BY <1>3, <2>2, <3>1 DEF Forma
  <2>4. phase(d) = phase(e)
    BY <1>3, <1>7, <2>2, <2>3, LetturaDegliAssi DEF Ha
  <2> QED
    BY <1>3, <1>7, <2>2, <2>3, <2>4 DEF Ha, d
<1> QED
  BY <1>6, <1>7

LEMMA AssiSostituiti ==
    ASSUME NEW e, Forma(e), NEW x \in Effetti
    PROVE  LET g == override_remote_effect(e, x)
           IN /\ Forma(g)
              /\ g.causa = e.causa
              /\ Ha(g, "Tagged") <=> Ha(e, "Tagged")
              /\ phase(g) = phase(e)
              /\ remote_effect(g) = x
<1> DEFINE d == SenzaTipo(e, "WithRemoteEffect")
<1>1. /\ Forma(d) /\ d.causa = e.causa
      /\ Ha(d, "Tagged") <=> Ha(e, "Tagged")
      /\ phase(d) = phase(e)
      /\ ~ Ha(d, "WithRemoteEffect")
  BY AssiSenzaEffetto, SenzaTipoCatena
<1> HIDE DEF d
<1>2. CASE x = "none"
  <2>1. override_remote_effect(e, x) = d
    BY <1>2 DEF override_remote_effect, d
  <2> QED
    BY <1>1, <1>2, <2>1, LetturaDegliAssi
<1>3. CASE x # "none"
  <2>1. override_remote_effect(e, x) = Sopra(WithRemoteEffect(x), d)
    BY <1>3 DEF override_remote_effect, d
  <2>2. /\ WithRemoteEffect(x) \in Involucro
        /\ WithRemoteEffect(x).tipo = "WithRemoteEffect"
        /\ WithRemoteEffect(x).valore = x
    BY DEF WithRemoteEffect, Involucro
  <2>3. x \in Effetti \ {"none"}
    BY <1>3
  <2> QED
    BY <1>1, <2>1, <2>2, <2>3, AssiSopra
<1> QED
  BY <1>2, <1>3

\* The phase removed: it was the innermost wrapper, so the others stay in place.
LEMMA AssiSenzaFase ==
    ASSUME NEW e, Forma(e)
    PROVE  LET d == untag(e)
           IN /\ Forma(d)
              /\ d.causa = e.causa
              /\ ~ Ha(d, "Tagged")
              /\ remote_effect(d) = remote_effect(e)
<1> DEFINE s == e.involucri
           n == Len(s)
           t == "Tagged"
           d == SenzaTipo(e, t)
           w == "WithRemoteEffect"
<1>1. s \in Seq(Involucro) /\ n \in Nat
      /\ e \in [causa : Cause, involucri : Seq(Involucro)]
      /\ DOMAIN s = 1 .. n
  BY DEF Forma, Catene
<1>2. PICK g : d = [e EXCEPT !.involucri = g[n]] /\ Equazioni(s, t, g)
  BY <1>1, FiltroPassi
<1>3. d \in Catene /\ d.causa = e.causa /\ ~ Ha(d, t)
  BY SenzaTipoCatena
<1>4. untag(e) = d
  BY DEF untag
<1> HIDE DEF d
<1>5. d.involucri = g[n]
  BY <1>1, <1>2
<1> DEFINE l == IF Ha(e, t) THEN n - 1 ELSE n
<1>6. /\ l \in 0 .. n
      /\ g[n] = g[l]
      /\ \A j \in 1 .. l : s[j].tipo # t
      /\ \A j \in 1 .. n : j \in 1 .. l \/ s[j].tipo = t
  <2>1. CASE Ha(e, t)
    <3>1. PICK k : k \in Posti(e, t)
      BY <2>1 DEF Ha
    <3>2. k = n /\ n \in 1 .. n /\ s[n].tipo = t
      BY <1>1, <3>1 DEF Forma, Posti
    <3>3. l = n - 1 /\ n - 1 \in 0 .. n
      BY <1>1, <2>1, <3>2
    <3>4. g[n] = g[n - 1]
      BY <1>2, <3>2 DEF Equazioni
    <3>5. ASSUME NEW j \in 1 .. (n - 1) PROVE s[j].tipo # t
      <4>1. j \in DOMAIN s /\ j # n
        BY <1>1
      <4> QED
        BY <4>1 DEF Forma, Posti
    <3>6. \A j \in 1 .. n : j \in 1 .. (n - 1) \/ j = n
      BY <1>1
    <3> HIDE DEF l
    <3> QED
      BY <3>2, <3>3, <3>4, <3>5, <3>6
  <2>2. CASE ~ Ha(e, t)
    <3>1. l = n /\ n \in 0 .. n
      BY <1>1, <2>2
    <3>2. \A j \in 1 .. n : s[j].tipo # t
      BY <1>1, <2>2 DEF Ha, Posti
    <3> HIDE DEF l
    <3> QED
      BY <3>1, <3>2
  <2> QED
    BY <2>1, <2>2
<1> HIDE DEF l
<1>7. /\ g[l] \in Seq(Involucro)
      /\ Len(g[l]) = l /\ \A j \in 1 .. l : g[l][j] = s[j]
  BY <1>1, <1>2, <1>6, FiltroTiene
<1>8. DOMAIN d.involucri = 1 .. l
  BY <1>5, <1>6, <1>7
<1>9. /\ Posti(d, w) = Posti(e, w)
      /\ \A k \in Posti(e, w) : d.involucri[k] = s[k]
  <2>1. ASSUME NEW k \in Posti(e, w) PROVE k \in 1 .. l
    BY <1>1, <1>6 DEF Posti
  <2>2. \A j \in 1 .. l : d.involucri[j] = s[j] /\ j \in 1 .. n
    BY <1>1, <1>5, <1>6, <1>7
  <2> QED
    BY <1>1, <1>8, <2>1, <2>2 DEF Posti
<1>10. Forma(d)
  <2>1. Posti(d, t) = {}
    BY <1>3 DEF Ha
  <2> QED
    BY <1>3, <1>9, <2>1 DEF Forma
<1>11. remote_effect(d) = remote_effect(e)
  <2>1. CASE Ha(e, w)
    <3>1. PICK k : k \in Posti(e, w)
      BY <2>1 DEF Ha
    <3> QED
      BY <1>9, <1>10, <3>1, LetturaDegliAssi
  <2>2. CASE ~ Ha(e, w)
    BY <1>9, <1>10, <2>2, LetturaDegliAssi DEF Ha
  <2> QED
    BY <2>1, <2>2
<1> QED
  BY <1>3, <1>4, <1>10, <1>11


-----------------------------------------------------------------------------
(* The retry class *)

\* What is under an effect has the phase of the whole: the phase is innermost.
LEMMA FaseDentro ==
    ASSUME NEW e, Forma(e), NEW j \in 0 .. Len(e.involucri),
           Len(e.involucri) - j \in Posti(e, "WithRemoteEffect")
    PROVE  phase(Dentro(e, j)) = phase(e)
<1> DEFINE s == e.involucri
           n == Len(s)
           z == SubSeq(s, n - j + 1, n)
           d == Dentro(e, j)
<1>1. s \in Seq(Involucro) /\ n \in Nat
      /\ e \in [causa : Cause, involucri : Seq(Involucro)]
      /\ DOMAIN s = 1 .. n
  BY DEF Forma, Catene
<1>2. /\ j \in Nat /\ n - j \in 1 .. n /\ n - j + 1 \in Int /\ n \in Int
      /\ n - (n - j + 1) + 1 = j
      /\ \A i \in 1 .. j : (n - j + 1) + i - 1 = n - j + i /\ n - j + i \in 1 .. n
      /\ \A i \in (n - j + 1) .. n : i \in 1 .. n
  <2>1. n - j \in 1 .. n
    BY <1>1 DEF Posti
  <2> QED
    BY <1>1, <2>1
<1>3. \A i \in (n - j + 1) .. n : s[i] \in Involucro
  BY <1>1, <1>2
<1>4. /\ z \in Seq(Involucro)
      /\ \A i \in 1 .. j : z[i] = s[n - j + i]
      /\ Len(z) = j
  <2> HIDE DEF s, n
  <2>1. /\ z \in Seq(Involucro)
        /\ Len(z) = IF n - j + 1 <= n THEN n - (n - j + 1) + 1 ELSE 0
        /\ \A i \in 1 .. n - (n - j + 1) + 1 : z[i] = s[(n - j + 1) + i - 1]
    BY <1>2, <1>3, SubSeqProperties
  <2>2. Len(z) = j
    BY <1>1, <1>2, <2>1
  <2>3. ASSUME NEW i \in 1 .. j PROVE z[i] = s[n - j + i]
    BY <1>2, <2>1
  <2> QED
    BY <2>1, <2>2, <2>3
<1>5. d = [causa |-> e.causa, involucri |-> z]
  <2>1. d = [e EXCEPT !.involucri = z]
    BY DEF Dentro
  <2> HIDE DEF d, z
  <2> QED
    BY <1>1, <2>1
<1>6. d.causa = e.causa /\ d.involucri = z /\ d \in Catene /\ DOMAIN z = 1 .. j
  <2> HIDE DEF d, z
  <2>1. d.causa = e.causa /\ d.involucri = z
    BY <1>5
  <2>2. e.causa \in Cause
    BY <1>1 DEF Catene
  <2>3. d \in Catene
    BY <1>4, <1>5, <2>2 DEF Catene
  <2>4. DOMAIN z = 1 .. Len(z)
    BY <1>4
  <2> QED
    BY <1>4, <2>1, <2>3, <2>4
<1> HIDE DEF d, z
<1>7. ASSUME NEW t, NEW i \in Posti(d, t)
      PROVE  i \in 1 .. j /\ n - j + i \in Posti(e, t) /\ z[i] = s[n - j + i]
  <2>1. i \in 1 .. j /\ z[i].tipo = t /\ z[i] = s[n - j + i]
    BY <1>4, <1>6 DEF Posti
  <2>2. n - j + i \in DOMAIN s
    BY <1>1, <1>2, <2>1
  <2> QED
    BY <2>1, <2>2 DEF Posti
<1>8. Posti(d, "WithRemoteEffect") = {}
  <2> SUFFICES ASSUME NEW i \in Posti(d, "WithRemoteEffect") PROVE FALSE
    OBVIOUS
  <2>1. i \in 1 .. j /\ n - j + i \in Posti(e, "WithRemoteEffect")
    BY <1>7
  <2>2. n - j + i = n - j
    BY <2>1 DEF Forma
  <2> QED
    BY <1>1, <1>2, <2>1, <2>2
<1>9. CASE Ha(e, "Tagged")
  <2>1. PICK k : k \in Posti(e, "Tagged")
    BY <1>9 DEF Ha
  <2>2. k = n /\ s[n].valore \in Fasi /\ s[n].tipo = "Tagged"
    BY <2>1 DEF Forma, Posti
  <2>3. j # 0
    <3>1. s[n - j].tipo = "WithRemoteEffect"
      BY DEF Posti
    <3> QED
      BY <1>1, <2>2, <3>1
  <2>4. j \in 1 .. j /\ n - j + j = n /\ z[j] = s[n]
    <3> HIDE DEF n, s
    <3>1. j \in 1 .. j /\ n - j + j = n
      BY <1>1, <1>2, <2>3
    <3>2. z[j] = s[n - j + j]
      BY <1>4, <3>1
    <3> QED
      BY <3>1, <3>2
  <2>5. j \in Posti(d, "Tagged")
    BY <1>6, <2>2, <2>4 DEF Posti
  <2>6. ASSUME NEW i \in Posti(d, "Tagged") PROVE i = j
    <3>1. n - j + i = n /\ i \in 1 .. j
      BY <1>7 DEF Forma
    <3>2. i \in Int /\ j \in Int /\ n \in Int
      BY <1>2, <3>1
    <3> HIDE DEF n
    <3> QED
      BY <3>1, <3>2
  <2>7. Forma(d)
    BY <1>4, <1>6, <1>8, <2>2, <2>4, <2>6 DEF Forma
  <2>8. phase(d) = z[j].valore
    BY <1>6, <2>5, <2>7, LetturaDegliAssi
  <2>9. phase(e) = s[n].valore
    BY <2>1, <2>2, LetturaDegliAssi
  <2> QED
    BY <2>4, <2>8, <2>9 DEF d
<1>10. CASE ~ Ha(e, "Tagged")
  <2>1. Posti(d, "Tagged") = {}
    BY <1>7, <1>10 DEF Ha
  <2>2. Forma(d) /\ ~ Ha(d, "Tagged")
    BY <1>6, <1>8, <2>1 DEF Forma, Ha
  <2> QED
    BY <1>6, <1>10, <2>2, LetturaDegliAssi DEF d
<1> QED
  BY <1>9, <1>10


\* g is the recursion of retry_disposition along the m innermost wrappers.
Classi(e, g, m) ==
    g = [k \in 0 .. m |->
           IF k = 0 THEN RitentativoDellaCausa(e.causa)
           ELSE IF e.involucri[Len(e.involucri) - k + 1].tipo # "WithRemoteEffect"
             THEN g[k - 1]
           ELSE RitentativoConEffetto(e.involucri[Len(e.involucri) - k + 1].valore,
                                      g[k - 1], phase(Dentro(e, k - 1)))]

LEMMA ClassiEsistono ==
    ASSUME NEW e, NEW N \in Nat
    PROVE  \E g : Classi(e, g, N)
<1> DEFINE T == {n \in Nat : ~ \E g : Classi(e, g, n)}
           Passo(h, k) ==
             IF e.involucri[Len(e.involucri) - k + 1].tipo # "WithRemoteEffect"
               THEN h[k - 1]
             ELSE RitentativoConEffetto(e.involucri[Len(e.involucri) - k + 1].valore,
                                        h[k - 1], phase(Dentro(e, k - 1)))
           R == RitentativoDellaCausa(e.causa)
<1> SUFFICES ASSUME T # {} PROVE FALSE
  OBVIOUS
<1>1. PICK m \in T : \A n \in T : m <= n
  <2>1. T \subseteq Nat
    OBVIOUS
  <2> HIDE DEF T
  <2> QED
    BY <2>1, MinimoDi
<1>2. CASE m = 0
  <2> DEFINE g == [k \in 0 .. 0 |-> R]
  <2>1. g = [k \in 0 .. 0 |-> IF k = 0 THEN R ELSE Passo(g, k)]
    <3> HIDE DEF Passo, R
    <3> QED
      OBVIOUS
  <2>2. Classi(e, g, 0)
    BY <2>1 DEF Classi
  <2> QED
    BY <1>2, <2>2
<1>3. CASE m # 0
  <2>1. m \in Nat /\ m - 1 \in Nat /\ ~ (m <= m - 1)
    BY <1>3
  <2>2. PICK h : Classi(e, h, m - 1)
    BY <1>1, <2>1
  <2> DEFINE g == [k \in 0 .. m |-> IF k = m THEN Passo(h, m) ELSE h[k]]
  <2>3. ASSUME NEW k \in 0 .. m
        PROVE  g[k] = IF k = 0 THEN R ELSE Passo(g, k)
    <3>1. CASE k = m
      <4>1. g[k - 1] = h[m - 1] /\ g[k] = Passo(h, m)
        <5> HIDE DEF Passo
        <5> QED
          BY <1>3, <2>1, <3>1
      <4> HIDE DEF g, R
      <4> QED
        BY <1>3, <3>1, <4>1
    <3>2. CASE k # m
      <4>1. k \in 0 .. (m - 1) /\ g[k] = h[k] /\ (k # 0 => g[k - 1] = h[k - 1])
        <5> HIDE DEF Passo
        <5> QED
          BY <2>1, <3>2
      <4>2. h[k] = IF k = 0 THEN R ELSE Passo(h, k)
        BY <2>2, <4>1 DEF Classi
      <4> HIDE DEF g, R
      <4> QED
        BY <4>1, <4>2
    <3> QED
      BY <3>1, <3>2
  <2>4. Classi(e, g, m)
    <3>1. g = [k \in 0 .. m |-> g[k]]
      OBVIOUS
    <3> HIDE DEF g
    <3>2. g = [k \in 0 .. m |-> IF k = 0 THEN R ELSE Passo(g, k)]
      <4> HIDE DEF Passo, R
      <4> QED
        BY <2>3, <3>1
    <3> QED
      BY <3>2 DEF Classi
  <2> QED
    BY <2>4
<1> QED
  BY <1>2, <1>3

\* The retry class follows from cause, effect and phase, wherever the effect is in
\* the chain.
LEMMA Ritentativo ==
    ASSUME NEW e, Forma(e)
    PROVE  retry_disposition(e) =
             RitentativoConEffetto(remote_effect(e), RitentativoDellaCausa(e.causa),
                                   phase(e))
<1> DEFINE s == e.involucri
           n == Len(s)
           R == RitentativoDellaCausa(e.causa)
           g == CHOOSE x : Classi(e, x, n)
           C(x) == RitentativoConEffetto(x, R, phase(e))
           P(k) == /\ \A p \in Posti(e, "WithRemoteEffect") :
                        p > n - k => g[k] = C(s[p].valore)
                   /\ (\A p \in Posti(e, "WithRemoteEffect") : ~ (p > n - k)) =>
                        g[k] = R
           T == {k \in 0 .. n : ~ P(k)}
<1>0. n \in Nat /\ s \in Seq(Involucro) /\ DOMAIN s = 1 .. n
  BY DEF Forma, Catene
<1>1. Classi(e, g, n)
  BY <1>0, ClassiEsistono
<1>2. retry_disposition(e) = g[n]
  BY DEF retry_disposition, Classi
<1> HIDE DEF g
<1> DEFINE Passo(k) ==
             IF s[n - k + 1].tipo # "WithRemoteEffect" THEN g[k - 1]
             ELSE RitentativoConEffetto(s[n - k + 1].valore, g[k - 1],
                                        phase(Dentro(e, k - 1)))
<1>3. g = [k \in 0 .. n |-> IF k = 0 THEN R ELSE Passo(k)]
  BY <1>1 DEF Classi
<1>4. g[0] = R /\ \A k \in 1 .. n : g[k] = Passo(k)
  <2> HIDE DEF Passo, R, n
  <2>1. 0 \in 0 .. n /\ \A k \in 1 .. n : k \in 0 .. n /\ k # 0
    BY <1>0
  <2> QED
    BY <1>3, <2>1
<1>5. T = {}
  <2> SUFFICES ASSUME T # {} PROVE FALSE
    OBVIOUS
  <2>1. PICK k \in T : \A j \in T : k <= j
    <3>1. T \subseteq Nat
      BY <1>0
    <3> HIDE DEF T
    <3> QED
      BY <3>1, MinimoDi
  <2>2. k # 0
    <3>1. P(0)
      <4>1. \A p \in Posti(e, "WithRemoteEffect") : ~ (p > n - 0)
        BY <1>0 DEF Posti
      <4> HIDE DEF n, R, C
      <4> QED
        BY <1>4, <4>1
    <3> HIDE DEF P
    <3> QED
      BY <3>1
  <2>3. k \in Nat /\ k - 1 \in 0 .. n /\ ~ (k <= k - 1) /\ k \in 1 .. n
    BY <1>0, <2>2
  <2>4. P(k - 1)
    <3> HIDE DEF P
    <3> QED
      BY <2>1, <2>3
  <2> DEFINE p == n - k + 1
  <2>5. /\ p \in 1 .. n /\ p = n - (k - 1) /\ p > n - k
        /\ \A q \in 1 .. n : q > n - k <=> q = p \/ q > n - (k - 1)
    <3> HIDE DEF n
    <3> QED
      BY <1>0, <2>3
  <2>6. CASE s[p].tipo # "WithRemoteEffect"
    <3>1. g[k] = g[k - 1]
      BY <1>4, <2>3, <2>6
    <3>2. ASSUME NEW q \in Posti(e, "WithRemoteEffect")
          PROVE  q > n - k <=> q > n - (k - 1)
      <4>1. q \in 1 .. n /\ q # p
        BY <1>0, <2>6 DEF Posti
      <4> HIDE DEF p, n
      <4> QED
        BY <2>5, <4>1
    <3>3. P(k)
      <4> HIDE DEF n, C, R
      <4> QED
        BY <2>4, <3>1, <3>2
    <3> HIDE DEF P
    <3> QED
      BY <3>3
  <2>7. CASE s[p].tipo = "WithRemoteEffect"
    <3>1. p \in Posti(e, "WithRemoteEffect")
      BY <1>0, <2>5, <2>7 DEF Posti
    <3>2. \A q \in Posti(e, "WithRemoteEffect") : q = p
      BY <3>1 DEF Forma
    <3>3. g[k - 1] = R
      <4>1. ~ (p > n - (k - 1))
        <5> HIDE DEF n
        <5> QED
          BY <1>0, <2>3
      <4> HIDE DEF p, n, C, R
      <4> QED
        BY <2>4, <3>2, <4>1
    <3>4. phase(Dentro(e, k - 1)) = phase(e)
      <4>1. Len(e.involucri) - (k - 1) \in Posti(e, "WithRemoteEffect")
        BY <2>5, <3>1
      <4> QED
        BY <2>3, <4>1, FaseDentro
    <3>5. g[k] = C(s[p].valore)
      <4>1. g[k] = Passo(k)
        BY <1>4, <2>3
      <4> HIDE DEF R
      <4> QED
        BY <2>7, <3>3, <3>4, <4>1
    <3>6. P(k)
      <4> HIDE DEF p, n, C, R
      <4> QED
        BY <2>5, <3>1, <3>2, <3>5
    <3> HIDE DEF P
    <3> QED
      BY <3>6
  <2> QED
    BY <2>6, <2>7
<1>6. P(n)
  <2>1. n \in 0 .. n
    BY <1>0
  <2> HIDE DEF P
  <2> QED
    BY <1>5, <2>1
<1>7. \A p \in Posti(e, "WithRemoteEffect") : p > n - n
  BY <1>0 DEF Posti
<1>8. CASE Ha(e, "WithRemoteEffect")
  <2>1. PICK p : p \in Posti(e, "WithRemoteEffect")
    BY <1>8 DEF Ha
  <2>2. remote_effect(e) = s[p].valore
    BY <2>1, LetturaDegliAssi
  <2>3. g[n] = C(s[p].valore)
    <3> HIDE DEF n, C, R
    <3> QED
      BY <1>6, <1>7, <2>1
  <2> QED
    BY <1>2, <2>2, <2>3
<1>9. CASE ~ Ha(e, "WithRemoteEffect")
  <2>1. remote_effect(e) = "none"
    BY <1>9, LetturaDegliAssi
  <2>2. g[n] = R
    <3>1. \A p \in Posti(e, "WithRemoteEffect") : ~ (p > n - n)
      BY <1>9 DEF Ha
    <3> HIDE DEF n, C, R
    <3> QED
      BY <1>6, <3>1
  <2>3. RitentativoConEffetto("none", R, phase(e)) = R
    BY DEF RitentativoConEffetto
  <2> QED
    BY <1>2, <2>1, <2>2, <2>3
<1> QED
  BY <1>8, <1>9


-----------------------------------------------------------------------------
(* The errors of the boundaries: a cause, a phase, an effect *)

LEMMA ErroreDelConfine ==
    ASSUME NEW c \in Cause, NEW f \in Fasi, NEW x \in Effetti
    PROVE  LET e == with_remote_effect(with_phase(Nudo(c), f), x)
           IN /\ Forma(e)
              /\ e.causa = c
              /\ phase(e) = f
              /\ remote_effect(e) = x
<1> DEFINE d == with_phase(Nudo(c), f)
<1>1. /\ Forma(Nudo(c)) /\ Nudo(c).causa = c /\ ~ Ha(Nudo(c), "Tagged")
      /\ remote_effect(Nudo(c)) = "none"
  BY AssiDelNudo
<1>2. Forma(d) /\ d.causa = c /\ phase(d) = f /\ remote_effect(d) = "none"
  BY <1>1, AssiConFase
<1> HIDE DEF d
<1>3. LET e == with_remote_effect(d, x)
      IN Forma(e) /\ e.causa = c /\ phase(e) = f /\ remote_effect(e) = x
  BY <1>2, AssiConEffetto
<1> QED
  BY <1>3 DEF d

LEMMA ErroreConFase ==
    ASSUME NEW c \in Cause, NEW f \in Fasi
    PROVE  LET e == with_phase(Nudo(c), f)
           IN /\ Forma(e)
              /\ e.causa = c
              /\ phase(e) = f
              /\ remote_effect(e) = "none"
<1>1. /\ Forma(Nudo(c)) /\ Nudo(c).causa = c /\ ~ Ha(Nudo(c), "Tagged")
      /\ remote_effect(Nudo(c)) = "none"
  BY AssiDelNudo
<1> QED
  BY <1>1, AssiConFase

-----------------------------------------------------------------------------
\* The phase of the record, of a chain.
Tag(e) == IF Ha(e, "Tagged") THEN phase(e) ELSE "nessuno"

\* The phase and the retry class from the three axes.
LEMMA AssiDaTre ==
    ASSUME NEW e, Forma(e)
    PROVE  /\ e.causa \in Cause
           /\ Tag(e) = "nessuno" <=> ~ Ha(e, "Tagged")
           /\ phase(e) = IF Tag(e) = "nessuno" THEN FaseDellaCausa(e.causa) ELSE Tag(e)
           /\ retry_disposition(e) =
                RitentativoConEffetto(remote_effect(e), RitentativoDellaCausa(e.causa),
                                      phase(e))
<1>1. Ha(e, "Tagged") => phase(e) \in Fasi
  <2> SUFFICES ASSUME NEW k, k \in Posti(e, "Tagged") PROVE phase(e) \in Fasi
    BY DEF Ha
  <2> QED
    BY LetturaDegliAssi DEF Forma
<1>2. Tag(e) = "nessuno" <=> ~ Ha(e, "Tagged")
  BY <1>1 DEF Tag, Fasi
<1>3. ~ Ha(e, "Tagged") => phase(e) = FaseDellaCausa(e.causa)
  BY LetturaDegliAssi
<1>4. e.causa \in Cause
  BY DEF Forma, Catene
<1> QED
  BY <1>2, <1>3, <1>4, Ritentativo DEF Tag

\* The retry class of the record is that of the chain.
LEMMA StessaClasse ==
    ASSUME NEW c, NEW x, NEW f
    PROVE  RitentativoConEffetto(x, RitentativoDellaCausa(c), f)
             = Assi!RitentativoDi(c, x, f)
<1>1. RitentativoDellaCausa(c) \in {"safe", "never"}
  BY DEF RitentativoDellaCausa
<1> QED
  BY <1>1 DEF RitentativoConEffetto, Assi!RitentativoDi

LEMMA Diviene ==
    ASSUME Forma(err)', NEW c, NEW t, NEW x,
           err'.causa = c, Tag(err)' = t, remote_effect(err)' = x
    PROVE  Assi!Diventa(c, t, x)
<1>1. /\ Tag(err)' = "nessuno" <=> ~ Ha(err, "Tagged")'
      /\ phase(err)' = IF t = "nessuno" THEN FaseDellaCausa(c) ELSE t
      /\ retry_disposition(err)' =
           RitentativoConEffetto(x, RitentativoDellaCausa(c), phase(err)')
  BY AssiDaTre
<1> QED
  BY <1>1, StessaClasse DEF Assi!Diventa, Assi!FaseDi, Assi!Nessuno, Tag


\* The calls keep the shape.
LEMMA FormaConservata ==
    ASSUME Forma(err), [NextErrori]_varsErrori
    PROVE  /\ Forma(err)'
           /\ [Assi!Next]_(Assi!vars)
<1> USE FasiAssunte
<1> DEFINE e == err
<1>0. /\ e.causa \in Cause
      /\ Tag(e) = "nessuno" <=> ~ Ha(e, "Tagged")
      /\ Ha(e, "Tagged") => phase(e) = Tag(e)
  BY AssiDaTre DEF Tag
<1>1. ASSUME NEW f \in FasiUsate, Tagga(f)
      PROVE  Forma(err)' /\ Assi!Next
  <2>1. err' = with_phase(err, f) /\ f \in Fasi
    BY <1>1 DEF Tagga, Passa
  <2>2. /\ Forma(err') /\ err'.causa = err.causa
        /\ Ha(err', "Tagged")
        /\ phase(err') = IF Ha(err, "Tagged") THEN phase(err) ELSE f
        /\ remote_effect(err') = remote_effect(err)
    BY <2>1, AssiConFase
  <2>3. Tag(err)' = IF Tag(err) = "nessuno" THEN f ELSE Tag(err)
    BY <1>0, <2>2 DEF Tag
  <2>4. Assi!DaFase(f)
    BY <2>2, <2>3, Diviene DEF Assi!DaFase, Assi!Nessuno, Tag
  <2> QED
    BY <2>1, <2>2, <2>4 DEF Assi!Next
<1>2. ASSUME NEW x \in Effetti, Dichiara(x)
      PROVE  Forma(err)' /\ Assi!Next
  <2>1. err' = with_remote_effect(err, x)
    BY <1>2 DEF Dichiara, Passa
  <2>2. /\ Forma(err') /\ err'.causa = err.causa
        /\ Ha(err', "Tagged") <=> Ha(err, "Tagged")
        /\ phase(err') = phase(err)
        /\ remote_effect(err') =
             IF remote_effect(err) = "none" THEN x ELSE remote_effect(err)
    BY <2>1, AssiConEffetto
  <2>3. Tag(err)' = Tag(err)
    BY <2>2 DEF Tag
  <2>4. Assi!DichiaraEffetto(x)
    BY <2>2, <2>3, Diviene DEF Assi!DichiaraEffetto, Tag
  <2> QED
    BY <2>2, <2>4 DEF Assi!Next
<1>3. ASSUME NEW x \in Effetti, Sostituisce(x)
      PROVE  Forma(err)' /\ Assi!Next
  <2>1. err' = override_remote_effect(err, x)
    BY <1>3 DEF Sostituisce, Passa
  <2>2. /\ Forma(err') /\ err'.causa = err.causa
        /\ Ha(err', "Tagged") <=> Ha(err, "Tagged")
        /\ phase(err') = phase(err)
        /\ remote_effect(err') = x
    BY <2>1, AssiSostituiti
  <2>3. Tag(err)' = Tag(err)
    BY <2>2 DEF Tag
  <2>4. Assi!SostituisceEffetto(x)
    BY <2>2, <2>3, Diviene DEF Assi!SostituisceEffetto, Tag
  <2> QED
    BY <2>2, <2>4 DEF Assi!Next
<1>4. ASSUME Diagnostica(TRUE)
      PROVE  Forma(err)' /\ Assi!Next
  <2>1. err' = with_row_diagnostics(err, TRUE)
    BY <1>4 DEF Diagnostica, Passa
  <2>2. /\ Forma(err') /\ err'.causa = err.causa
        /\ Ha(err', "Tagged") <=> Ha(err, "Tagged")
        /\ phase(err') = phase(err)
        /\ remote_effect(err') = remote_effect(err)
    BY <2>1, AssiConDiagnostica
  <2>3. Tag(err)' = Tag(err)
    BY <2>2 DEF Tag
  <2>4. Assi!DichiaraEffetto("none")
    BY <2>2, <2>3, Diviene DEF Assi!DichiaraEffetto, Tag
  <2>5. "none" \in Effetti
    BY DEF Effetti
  <2> QED
    BY <2>2, <2>4, <2>5 DEF Assi!Next
<1>5. ASSUME Diagnostica(FALSE)
      PROVE  Forma(err)' /\ Assi!Next
  <2>1. err' = Nudo("Internal") /\ "Internal" \in Cause
    BY <1>5 DEF Diagnostica, Passa, with_row_diagnostics, Cause
  <2>2. /\ Forma(err') /\ err'.causa = "Internal"
        /\ ~ Ha(err', "Tagged")
        /\ remote_effect(err') = "none"
    BY <2>1, AssiDelNudo
  <2>3. Tag(err)' = "nessuno"
    BY <2>2 DEF Tag
  <2>4. Assi!DiagnosticaGuasta
    BY <2>2, <2>3, Diviene DEF Assi!DiagnosticaGuasta, Assi!Nessuno
  <2> QED
    BY <2>2, <2>4 DEF Assi!Next
<1>6. ASSUME Toglie
      PROVE  Forma(err)' /\ Assi!Next
  <2>1. err' = untag(err)
    BY <1>6 DEF Toglie, Passa
  <2>2. /\ Forma(err') /\ err'.causa = err.causa
        /\ ~ Ha(err', "Tagged")
        /\ remote_effect(err') = remote_effect(err)
    BY <2>1, AssiSenzaFase
  <2>3. Tag(err)' = "nessuno"
    BY <2>2 DEF Tag
  <2>4. Assi!TogliFase
    BY <2>2, <2>3, Diviene DEF Assi!TogliFase, Assi!Nessuno
  <2> QED
    BY <2>2, <2>4 DEF Assi!Next
<1>7. ASSUME Arriva \/ UNCHANGED varsErrori
      PROVE  Forma(err)' /\ UNCHANGED Assi!vars
  <2>1. err' = err
    BY <1>7 DEF Arriva, varsErrori
  <2> QED
    BY <2>1 DEF Assi!vars
<1> QED
  BY <1>1, <1>2, <1>3, <1>4, <1>5, <1>6, <1>7 DEF NextErrori

\* Every behaviour of an error on its way out is one of the record of axes: the phase,
\* the effect and the retry class that with_phase, with_remote_effect,
\* override_remote_effect, with_row_diagnostics and untag leave do not depend on where
\* in the chain of boxes the wrappers are.
THEOREM CatenaImplementaAssi == SpecErrori => AssiSenzaOrdine
<1>1. InitErrori => Forma(err) /\ Assi!Init
  <2> SUFFICES ASSUME InitErrori PROVE Forma(err) /\ Assi!Init
    OBVIOUS
  <2>1. PICK c \in Cause : err = Nudo(c)
    BY DEF InitErrori
  <2>2. /\ Forma(err) /\ err.causa = c /\ ~ Ha(err, "Tagged")
        /\ phase(err) = FaseDellaCausa(c) /\ remote_effect(err) = "none"
    BY <2>1, AssiDelNudo
  <2>3. retry_disposition(err) = RitentativoDellaCausa(c)
    BY <2>2, Ritentativo DEF RitentativoConEffetto
  <2> QED
    BY <2>2, <2>3 DEF Assi!Init, Assi!Nessuno
<1>2. Forma(err) /\ [NextErrori]_varsErrori => Forma(err)' /\ [Assi!Next]_(Assi!vars)
  BY FormaConservata
<1> QED
  BY <1>1, <1>2, PTL DEF SpecErrori, AssiSenzaOrdine, Assi!Spec
=============================================================================
