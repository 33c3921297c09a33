\* Calls of the three kinds, aliased paths, two steps of the other programs.
SPECIFICATION Spec
CONSTANTS
    Buffer <- MCBuffer
    MaxU64 = 4
    Richieste <- MCRichieste
    Voci = {"e1", "e2"}
    Voce <- MCVoce
    Riconosciuti <- MCRiconosciuti
    Budget = 2
    Transitori = {0, 1, 4}
    MaxAltri = 2
INVARIANTS
    EffettoVeritiero
    IngressiIntatti
    NessunaUscitaPerduta
    SpazioInLettura
PROPERTIES
    InterrottoNonRiesce
