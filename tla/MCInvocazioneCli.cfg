\* Every kind of command, up to two outputs and two nested barriers.
SPECIFICATION Spec
CONSTANTS
    Comandi <- MCComandi
    MaxBarriere = 2
INVARIANTS
    PaniciVistiTutti
    EffettoDelProcesso
