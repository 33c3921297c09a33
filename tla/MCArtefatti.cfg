\* Up to two sources and three outputs, every failure the resolver may report.
SPECIFICATION Spec
CONSTANTS
    Richieste <- MCRichieste
    CauseDelRisolutore = {"io_timed_out", "io_exists", "io_permission"}
INVARIANTS
    EffettoDegliArtefatti
    MaiRipubblica
PROPERTIES
    InterruzioneMaiTaciuta
