\* A narrow type of three bits and a wide one of six, as 64 and 128 in the build;
\* mantissas of two bits, exponents past the wide type.  Every plan of up to three
\* steps over one or two inputs.
SPECIFICATION Spec
CONSTANTS
    Larghezza = 6
    MaxMantissa = 3
    MaxEsponente = 8
    Bit = 3
    Mille = 4
    Numeratore = 3
    Denominatore = 2
    Coefficienti = {0, 1, 7}
    Quantita = {0, 3, 7}
    t1 = t1  t2 = t2  t3 = t3  t4 = t4  t5 = t5
    Nomi <- MCNomi
    NomiAmmessi <- MCNomi
    MaxInputs = 2  MaxPlanNodes = 3  MaxPlanEdges = 6  MaxFanOut = 3  MaxPlanDepth = 2
    MaxPassi = 3
    Ingressi <- MCIngressi
    Uscite <- MCUscite
    MaxLivelli = 2
    Tipi <- MCTipi
    EsattoFino = 8  MaxFinito = 32  Migliaio = 2  MaxIstante = 99  DecimaleOltre = 31
    max_string_bytes = 4  max_regex_bytes = 3
INVARIANTS
    EspansioneEsatta
    MaiPerDifetto
    ValidazioneEsatta
    ValoriEsatti
    TipoFedele
