------------------------------- MODULE Errori -------------------------------
(***************************************************************************)
(* An error and its axes: phase, effect and retry class                    *)
(* (plenora-core/src/error.rs).  The category is that of the cause.        *)
(*                                                                         *)
(* PlenoraError is a cause under any number of transparent wrappers, each  *)
(* of which boxes the next one: a phase (Tagged), the diagnostics of the   *)
(* rows (RowDiagnostics), a declared effect (WithRemoteEffect).  Here the  *)
(* wrappers are a sequence, the outermost first.  A method that recurses   *)
(* through the wrappers until it meets one of a kind takes the first of    *)
(* that kind.                                                              *)
(***************************************************************************)
EXTENDS Integers, Sequences

Fasi == {"validate", "connect", "probe", "prepare", "read", "write", "finalize",
         "commit", "rollback", "cleanup"}
Effetti == {"none", "rolled_back", "partial", "committed", "unknown"}
Disposizioni == {"never", "quarantine", "safe", "requires_idempotency_key",
                 "requires_recovery", "after"}

\* The causes, as far as the axes tell them apart; an I/O error by its ErrorKind.
CauseIo == {"io_timed_out", "io_transient", "io_not_found", "io_permission",
            "io_exists", "io_full", "io_other"}
CauseDiValidazione == {"InvalidPlan", "Unsupported", "Schema", "Crs"}
Interruzioni == {"Cancelled", "Timeout"}
Cause == CauseIo \cup CauseDiValidazione \cup Interruzioni
         \cup {"DataMapping", "Execution", "ResourceLimit", "Protocol", "Conflict",
               "InvalidConfiguration", "Internal"}

\* assi_io, and the retry class of the other variants.
RitentativoDellaCausa(c) ==
    IF c \in {"io_timed_out", "io_transient"} \cup Interruzioni THEN "safe" ELSE "never"

FaseDellaCausa(c) ==
    CASE c \in CauseDiValidazione    -> "validate"
      [] c = "InvalidConfiguration"  -> "prepare"
      [] c = "Conflict"              -> "commit"
      [] OTHER                       -> "write"

-----------------------------------------------------------------------------
(* The wrappers *)

Tagged(fase) == [tipo |-> "Tagged", valore |-> fase]
RowDiagnostics == [tipo |-> "RowDiagnostics", valore |-> "righe"]
WithRemoteEffect(effetto) == [tipo |-> "WithRemoteEffect", valore |-> effetto]

Nudo(c) == [causa |-> c, involucri |-> <<>>]
Sopra(w, e) == [e EXCEPT !.involucri = <<w>> \o @]

\* Where the wrappers of a kind are, and the value of the outermost one.
Posti(e, tipo) == {k \in DOMAIN e.involucri : e.involucri[k].tipo = tipo}
Ha(e, tipo) == Posti(e, tipo) # {}
Primo(e, tipo) ==
    e.involucri[CHOOSE k \in Posti(e, tipo) : \A j \in Posti(e, tipo) : k <= j].valore

\* The error without its wrappers of a kind, the others in their order.
SenzaTipo(e, tipo) ==
    LET s == e.involucri
        f[k \in 0 .. Len(s)] ==
          IF k = 0 THEN <<>>
          ELSE IF s[k].tipo = tipo THEN f[k - 1] ELSE Append(f[k - 1], s[k])
    IN [e EXCEPT !.involucri = f[Len(s)]]

-----------------------------------------------------------------------------
(* The axes *)

phase(e) ==
    IF Ha(e, "Tagged") THEN Primo(e, "Tagged") ELSE FaseDellaCausa(e.causa)

remote_effect(e) ==
    IF Ha(e, "WithRemoteEffect") THEN Primo(e, "WithRemoteEffect") ELSE "none"

row_diagnostics(e) == Ha(e, "RowDiagnostics")

\* The retry class under an effect: `dentro` and `fase` are those of its source.
RitentativoConEffetto(effetto, dentro, fase) ==
    IF effetto \in {"none", "rolled_back"} \/ dentro \in {"never", "quarantine"}
      THEN dentro
    ELSE IF effetto = "committed" /\ fase = "cleanup"
      THEN "never"
    ELSE "requires_recovery"

\* The k innermost wrappers of an error.
Dentro(e, k) ==
    [e EXCEPT !.involucri = SubSeq(@, Len(@) - k + 1, Len(@))]

\* The retry class, from the cause outwards.
retry_disposition(e) ==
    LET n == Len(e.involucri)
        f[k \in 0 .. n] ==
          IF k = 0 THEN RitentativoDellaCausa(e.causa)
          ELSE LET w == e.involucri[n - k + 1]
               IN IF w.tipo # "WithRemoteEffect" THEN f[k - 1]
                  ELSE RitentativoConEffetto(w.valore, f[k - 1], phase(Dentro(e, k - 1)))
    IN f[n]

-----------------------------------------------------------------------------
(* What the layers do to an error on its way out *)

\* The first tag wins; a new one goes under the other wrappers, next to the cause.
with_phase(e, fase) ==
    IF Ha(e, "Tagged") THEN e
    ELSE [e EXCEPT !.involucri = Append(@, Tagged(fase))]

\* The first declared effect wins; `none` declares nothing.
with_remote_effect(e, effetto) ==
    IF effetto = "none" \/ Ha(e, "WithRemoteEffect") THEN e
    ELSE Sopra(WithRemoteEffect(effetto), e)

\* The effect replaces whatever was declared.
override_remote_effect_soloInTesta(e, effetto) ==
    LET causa == IF e.involucri # <<>> /\ Head(e.involucri).tipo = "WithRemoteEffect"
                   THEN [e EXCEPT !.involucri = Tail(@)] ELSE e
    IN IF effetto = "none" THEN causa ELSE Sopra(WithRemoteEffect(effetto), causa)
override_remote_effect(e, effetto) ==
    LET causa == SenzaTipo(e, "WithRemoteEffect")
    IN IF effetto = "none" THEN causa ELSE Sopra(WithRemoteEffect(effetto), causa)

\* Diagnostics that are not fit for emission turn the error into an internal one.
with_row_diagnostics(e, valide) ==
    IF valide THEN Sopra(RowDiagnostics, e) ELSE Nudo("Internal")

untag(e) == SenzaTipo(e, "Tagged")

=============================================================================
