\* Memory: tables share and own allocations, every prediction, no row limits.
SPECIFICATION Spec
CONSTANTS
    a = a  b = b  c = c  d = d  e = e
    Assente = Assente
    Nomi <- MCNomi
    NomiAmmessi <- MCNomi
    MaxInputs = 2  MaxPlanNodes = 3  MaxPlanEdges = 5  MaxFanOut = 3  MaxPlanDepth = 3
    Piani <- MCPiani
    Buffer <- MCBuffer
    MaxU64 = 4
    Larghezza = 8
    Budget = 3
    MaxInputRows = 1  MaxRowsPerEdge = 1  MaxOutputRows = 1
    Fattore <- MCFattoreDue
    MaxRighe = 0
    Previsioni = {0, 1, 4}
INVARIANTS
    ResidentiEsatti
    BudgetAiConfini
    DifeseMaiRaggiunte
    RapportoConcatenato
