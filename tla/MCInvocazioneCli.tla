-------------------------- MODULE MCInvocazioneCli --------------------------
(* Instance of InvocazioneCli for TLC. *)
EXTENDS InvocazioneCli

Comando(utf8, leggibile, annullabile, uscite) ==
    [utf8 |-> utf8, leggibile |-> leggibile, annullabile |-> annullabile,
     uscite |-> uscite]

\* help, describe, run with one and two outputs; arguments that cannot be read.
MCComandi ==
    { Comando(TRUE, TRUE, FALSE, 0), Comando(TRUE, TRUE, TRUE, 0),
      Comando(TRUE, TRUE, TRUE, 1), Comando(TRUE, TRUE, TRUE, 2),
      Comando(TRUE, FALSE, TRUE, 1), Comando(FALSE, TRUE, TRUE, 1) }

=============================================================================
