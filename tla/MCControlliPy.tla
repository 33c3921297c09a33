---------------------------- MODULE MCControlliPy ----------------------------
(* Instance of ControlliPy for TLC. *)
EXTENDS ControlliPy

MCChiamate ==
    { [asincrona |-> a, blocchi |-> b, uscite |-> u] :
        a \in BOOLEAN, b \in {0, 1}, u \in 0 .. 2 }

=============================================================================
