CONSTANTS
    max_rows = 6
    max_columns = 12
    Avvii <- MCAvvii
SPECIFICATION Spec
CHECK_DEADLOCK FALSE
INVARIANTS
    SchemaFedele
    AccettatoNonFallisce
    ProprietaFedeli
    IdentitaStabile
