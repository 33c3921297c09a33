\* Rows and interruptions: limits per input, edge and output, expansion, one
\* allocation; the signal and the clock against every point of the run.
SPECIFICATION Spec
CONSTANTS
    a = a  b = b  c = c  d = d  e = e
    Assente = Assente
    Nomi <- MCNomi
    NomiAmmessi <- MCNomi
    MaxInputs = 2  MaxPlanNodes = 3  MaxPlanEdges = 5  MaxFanOut = 3  MaxPlanDepth = 3
    Piani <- MCPianiRighe
    Buffer <- MCBufferUno
    MaxU64 = 2
    Larghezza = 8
    Budget = 1
    MaxInputRows = 3  MaxRowsPerEdge = 2  MaxOutputRows = 2
    Fattore <- MCFattoreUno
    MaxRighe = 4
    Previsioni = {0, 2}
INVARIANTS
    RigheEntroILimiti
    BaseFedele
    FermaAlProssimoControllo
PROPERTIES
    InterruzioneRispettata
