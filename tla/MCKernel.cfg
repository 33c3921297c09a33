\* Chunks of one or two rows, limits that some cases pass and others meet exactly.
SPECIFICATION SpecKernel
CONSTANTS
    Nulla = Nulla  NaN = NaN  Panico = Panico  Altra = Altra
    k1 = k1  k2 = k2  k3 = k3
    SogliaProbe = 3
    ChunkProbe = 2
    MaxUsize = 5
    MaxByte = 15
    BytePerCoppia = 2
    BytePerVicino = 2
    MaxErrore = 1
    MargineRelativo = 1
    Chiavi <- MCChiavi
    Blocco <- MCBlocco
    Simili <- MCSimili
    CasiJoin <- MCCasiJoin
    CasiFuzzy <- MCCasiFuzzy
    CasiSpaziali <- MCCasiSpaziali
    CasiVicini <- MCCasiVicini
    CasiDbscan <- MCCasiDbscan
INVARIANTS
    JoinComeRelazione
    FuzzyComeScansione
    SpazialeDeterministico
    ViciniEsatti
    DbscanEsatto
    TenutoEntroIlLimite
