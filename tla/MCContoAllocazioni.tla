------------------------- MODULE MCContoAllocazioni -------------------------
(* Instance of ContoAllocazioni for TLC: a node with two children, one of them
   also a column of its own; a node shared by two columns. *)
EXTENDS ContoAllocazioni

MCDati == 1 .. 3
MCFigli == <<<<2, 3>>, <<>>, <<>>>>
MCColonne == {<<1>>, <<1, 3>>, <<2, 2>>}
MCBuffer == {[inizio |-> 1, capacita |-> 0], [inizio |-> 1, capacita |-> 1],
             [inizio |-> 1, capacita |-> 2], [inizio |-> 2, capacita |-> 2]}

=============================================================================
