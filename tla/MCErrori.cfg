\* Every cause, five calls in any order.
SPECIFICATION SpecErrori
CONSTANTS
    MaxPassi = 5
    FasiUsate = {"read", "finalize", "cleanup"}
PROPERTIES
    AssiSenzaOrdine
