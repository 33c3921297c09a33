----------------------------- MODULE Espansione -----------------------------
(***************************************************************************)
(* The expansion limit: output rows against a base of input rows times a   *)
(* factor (plenora-core/src/limits.rs expansion_exceeded_wide, catalog.rs  *)
(* ExpansionConstraint::exceeded, and check_expansion of the runner).      *)
(*                                                                         *)
(* The factor is an f64, taken apart into mantissa * 2^esponente; the      *)
(* comparison is between integers of the wide type (u128 in the build,     *)
(* Larghezza bits here), with checked multiplication and checked shifts.   *)
(***************************************************************************)
EXTENDS Integers, Sequences

CONSTANT Larghezza      \* bits of the wide integer

ASSUME LarghezzaAssunta == Larghezza \in Nat \ {0}

\* A factor: `ordinabile` is false for NaN, the infinities, zero and negatives.
Fattori == [ordinabile : BOOLEAN, mantissa : Nat, esponente : Int]

StaNelTipo(n) == n < 2 ^ Larghezza

\* x << s in the wide type: the bits past the width are lost.
Sposta(x, s) == (x * 2 ^ s) % 2 ^ Larghezza

\* x.checked_shl(s), kept only when no bit is lost.
Spostabile_bitPersi(x, s) == s < Larghezza
Spostabile(x, s) == s < Larghezza /\ StaNelTipo(x * 2 ^ s)

expansion_exceeded(righe_out, base, fattore) ==
    LET scalato == base * fattore.mantissa
        esp == fattore.esponente
    IN IF ~ fattore.ordinabile       THEN righe_out > 0
       ELSE IF ~ StaNelTipo(scalato) THEN TRUE
       ELSE IF scalato = 0           THEN righe_out > 0
       ELSE IF esp >= 0              THEN /\ Spostabile(scalato, esp)
                                          /\ righe_out > Sposta(scalato, esp)
       ELSE IF Spostabile(righe_out, -esp)
                                     THEN Sposta(righe_out, -esp) > scalato
       ELSE righe_out # 0

\* ExpansionConstraint::exceeded: the base of a binary operation.
exceeded(vincolo, righe_out, sinistra, destra, fattore) ==
    CASE vincolo = "SumRelative"   -> expansion_exceeded(righe_out, sinistra + destra, fattore)
      [] vincolo = "LeftRelative"  -> expansion_exceeded(righe_out, sinistra, fattore)
      [] vincolo = "RightRelative" -> expansion_exceeded(righe_out, destra, fattore)
      [] vincolo = "MaxRelative"   -> \/ expansion_exceeded(righe_out, sinistra, fattore)
                                      \/ expansion_exceeded(righe_out, destra, fattore)

\* check_expansion of the runner: "ok" or the category of the refusal.  A step
\* whose config fixes the expansion must give exactly those rows.
check_expansion(op, righe_in, righe_out, fattore) ==
    LET unaria  == op.arieta = "Unary" /\ Len(righe_in) = 1
        binaria == op.arieta # "Unary" /\ Len(righe_in) = 2
    IN IF op.moltiplicatore > 0 THEN
         IF Len(righe_in) = 1 /\ righe_out = righe_in[1] * op.moltiplicatore
           THEN "ok" ELSE "Internal"
       ELSE IF op.esente THEN "ok"
       ELSE IF ~ (unaria \/ binaria) THEN "Internal"
       ELSE IF \/ unaria /\ expansion_exceeded(righe_out, righe_in[1], fattore)
               \/ binaria /\ exceeded(op.vincolo, righe_out, righe_in[1], righe_in[2], fattore)
              THEN "ResourceLimit"
       ELSE "ok"

=============================================================================
