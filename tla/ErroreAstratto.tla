--------------------------- MODULE ErroreAstratto ---------------------------
(***************************************************************************)
(* What the axes of an error promise, without its wrappers: a cause, at    *)
(* most one phase given by a boundary, at most one declared effect, and a  *)
(* retry class that is a function of the three.                            *)
(***************************************************************************)
EXTENDS Integers

CONSTANTS Cause, Fasi, Effetti,
    FaseDellaCausa(_), RitentativoDellaCausa(_)

VARIABLES causa, tag, effetto, fase, ritentativo

vars == <<causa, tag, effetto, fase, ritentativo>>

Nessuno == "nessuno"

FaseDi(c, t) == IF t = Nessuno THEN FaseDellaCausa(c) ELSE t

\* An effect that stays excludes a retry without recovery; after a proved
\* publication a failed cleanup is never retried.
RitentativoDi(c, x, f) ==
    IF x \in {"none", "rolled_back"} \/ RitentativoDellaCausa(c) = "never"
      THEN RitentativoDellaCausa(c)
    ELSE IF x = "committed" /\ f = "cleanup" THEN "never"
    ELSE "requires_recovery"

Diventa(c, t, x) ==
    /\ causa' = c
    /\ tag' = t
    /\ effetto' = x
    /\ fase' = FaseDi(c, t)
    /\ ritentativo' = RitentativoDi(c, x, FaseDi(c, t))

Init ==
    /\ causa \in Cause
    /\ tag = Nessuno
    /\ effetto = "none"
    /\ fase = FaseDellaCausa(causa)
    /\ ritentativo = RitentativoDellaCausa(causa)

\* The first phase stays.
DaFase(f) == Diventa(causa, IF tag = Nessuno THEN f ELSE tag, effetto)

\* The first effect stays.
DichiaraEffetto(x) == Diventa(causa, tag, IF effetto = "none" THEN x ELSE effetto)

SostituisceEffetto(x) == Diventa(causa, tag, x)

DiagnosticaGuasta == Diventa("Internal", Nessuno, "none")

TogliFase == Diventa(causa, Nessuno, effetto)

Next ==
    \/ \E f \in Fasi : DaFase(f)
    \/ \E x \in Effetti : DichiaraEffetto(x) \/ SostituisceEffetto(x)
    \/ DiagnosticaGuasta
    \/ TogliFase

Spec == Init /\ [][Next]_vars

=============================================================================
