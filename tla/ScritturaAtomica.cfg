\* Two concurrent writers, with and without overwrite, other programs that touch
\* the destination twice, deaths and a power failure.
SPECIFICATION Spec
CONSTANTS
    Scrittori = {w1, w2}
    Destinazioni = {d1}
    Altri = altri_programmi
    MaxAltri = 2
INVARIANTS
    EsitoVeritiero
PROPERTIES
    MantieneLaPromessa
