\* Every assignment of up to two buffers to the nodes; sums beyond the maximum.
SPECIFICATION SpecConto
CONSTANTS
    Buffer <- MCBuffer
    MaxU64 = 3
    Dati <- MCDati
    Figli <- MCFigli
    Colonne <- MCColonne
    MaxBuffer = 2
INVARIANTS
    TotaleEsatto
