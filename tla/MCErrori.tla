------------------------------ MODULE MCErrori ------------------------------
(* An error on its way out through layers that wrap it in any order. *)
EXTENDS Errori

CONSTANTS
    MaxPassi,   \* bound: calls on the way
    FasiUsate   \* the phases given by the layers

ASSUME FasiAssunte == FasiUsate \subseteq Fasi

VARIABLES
    err,        \* the error, with its wrappers
    passi       \* calls so far

varsErrori == <<err, passi>>

InitErrori == err \in {Nudo(c) : c \in Cause} /\ passi = 0

Passa(e) == passi < MaxPassi /\ passi' = passi + 1 /\ err' = e

Tagga(f) == Passa(with_phase(err, f))
Dichiara(x) == Passa(with_remote_effect(err, x))
Sostituisce(x) == Passa(override_remote_effect(err, x))
Diagnostica(valide) == Passa(with_row_diagnostics(err, valide))
Toglie == Passa(untag(err))
Arriva == passi = MaxPassi /\ UNCHANGED varsErrori

NextErrori ==
    \/ \E f \in FasiUsate : Tagga(f)
    \/ \E x \in Effetti : Dichiara(x) \/ Sostituisce(x)
    \/ \E valide \in BOOLEAN : Diagnostica(valide)
    \/ Toglie
    \/ Arriva

SpecErrori == InitErrori /\ [][NextErrori]_varsErrori

-----------------------------------------------------------------------------
Assi == INSTANCE ErroreAstratto WITH
    causa <- err.causa,
    tag <- IF Ha(err, "Tagged") THEN phase(err) ELSE "nessuno",
    effetto <- remote_effect(err),
    fase <- phase(err),
    ritentativo <- retry_disposition(err)

\* The wrappers, in whatever order the layers add them, are a record of axes: the
\* first phase and the first effect win, an override replaces the effect wherever
\* it is in the chain, and the retry class follows from cause, phase and effect.
AssiSenzaOrdine == Assi!Spec

=============================================================================
