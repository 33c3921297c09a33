------------------------------ MODULE MCRunner ------------------------------
(* Instances of Runner for TLC. *)
EXTENDS Runner

CONSTANTS a, b, c, d, e     \* names

MCNomi == {a, b, c, d, e}

Op(arieta, conserva, moltiplicatore, esente, vincolo) ==
    [ nota |-> TRUE, canonico |-> TRUE, arieta |-> arieta, lunga |-> FALSE,
      prepara |-> "ok", analisi |-> "ok", conCosto |-> TRUE, conserva |-> conserva, moltiplicatore |-> moltiplicatore,
      esente |-> esente, vincolo |-> vincolo ]

Rinomina == Op("Unary", TRUE, 0, FALSE, "SumRelative")
Filtro   == Op("Unary", FALSE, 0, FALSE, "SumRelative")
Melt     == Op("Unary", FALSE, 2, FALSE, "SumRelative")
Griglia  == Op("Unary", FALSE, 0, TRUE, "SumRelative")
Join     == Op("BinaryOrdered", FALSE, 0, FALSE, "SumRelative")
Chiave   == Op("BinaryOrdered", TRUE, 0, FALSE, "LeftRelative")

P(out, op, ins) == [out |-> out, op |-> op, inputs |-> ins]

\* An input nobody uses, a table used twice, a chain.
PianoCatena ==
    [ inputs |-> <<a, b>>,
      steps |-> <<P(c, Rinomina, <<a>>), P(d, Join, <<c, a>>)>>,
      outputs |-> <<d>> ]

\* An input that is an output, a step nobody uses, an output used by a step.
PianoUscite ==
    [ inputs |-> <<a>>,
      steps |-> <<P(b, Filtro, <<a>>), P(c, Rinomina, <<b>>)>>,
      outputs |-> <<b, a>> ]

\* A self-join and a step that keeps the rows of a table that lost its source.
PianoAutojoin ==
    [ inputs |-> <<a>>,
      steps |-> <<P(b, Join, <<a, a>>), P(c, Rinomina, <<b>>)>>,
      outputs |-> <<c>> ]

\* No step at all.
PianoVuoto == [ inputs |-> <<a, b>>, steps |-> <<>>, outputs |-> <<b>> ]

\* Three steps, declared and exempt expansion, left-relative binary.
PianoRighe ==
    [ inputs |-> <<a>>,
      steps |-> <<P(b, Melt, <<a>>), P(c, Griglia, <<a>>), P(d, Chiave, <<a, b>>)>>,
      outputs |-> <<c, d>> ]

MCPiani == {PianoCatena, PianoUscite, PianoAutojoin, PianoVuoto}
MCPianiRighe == MCPiani \cup {PianoRighe}

\* Two views of the same allocation with different capacities, a second
\* allocation and a third.
MCBuffer == {[inizio |-> 1, capacita |-> 1], [inizio |-> 1, capacita |-> 2],
             [inizio |-> 2, capacita |-> 2], [inizio |-> 3, capacita |-> 1]}
MCBufferUno == {[inizio |-> 1, capacita |-> 1]}

MCFattoreDue == [ordinabile |-> TRUE, mantissa |-> 4, esponente |-> -1]
MCFattoreUno == [ordinabile |-> TRUE, mantissa |-> 2, esponente |-> -1]

=============================================================================
