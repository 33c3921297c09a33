\* Synchronous and asynchronous calls, up to one check of the import and two outputs.
SPECIFICATION SpecEqua
CONSTANT
    Chiamate <- MCChiamate
INVARIANTS
    EffettoAlChiamante
PROPERTIES
    AnnullamentoMaiTaciuto
    AnnullamentoFerma
