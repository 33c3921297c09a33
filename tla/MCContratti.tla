---------------------------- MODULE MCContratti ----------------------------
(***************************************************************************)
(* Plans over small input tables: geometries with and without a primary, a *)
(* table without rows, nested columns, dates.                              *)
(***************************************************************************)
EXTENDS Contratti

Col(nome, tipo, nullable) == Colonna(nome, tipo, nullable)
Geo(nome) == [Colonna(nome, "Binary", TRUE) EXCEPT !.geo = TRUE]
Tab(colonne, righe, chiave) == [colonne |-> colonne, righe |-> righe, chiave |-> chiave]

\* A key with repetitions and no order, a text with a null, a geometry.
ConGeometria == Tab(<<Col("k", "Int64", FALSE), Col("s", "Utf8", TRUE), Geo("g")>>,
                    <<<<1, 0, 1>>, <<0, Nulla, 0>>, <<1, 1, Nulla>>>>, 0)
Destra == Tab(<<Col("k", "Int64", TRUE), Col("w", "Float64", TRUE)>>, <<<<1, 0>>, <<Nulla, 1>>>>, 0)
DueGeometrie == Tab(<<Col("k", "Int64", FALSE), Geo("g"), Geo("h")>>, <<<<1, 0, 1>>, <<0, 1, Nulla>>>>, 3)
Breve == Tab(<<Col("k", "Int64", TRUE)>>, <<<<1>>, <<0>>>>, 0)
\* Its second geometry has more than one part.
SoloGeometria == Tab(<<Geo("g")>>, <<<<0>>, <<2>>>>, 0)
SenzaPrimaria == Tab(<<Col("k", "Int64", TRUE), Geo("g")>>, <<<<1, 0>>>>, -1)
Vuota == Tab(<<Col("k", "Utf8", FALSE), Col("d", "Date32", TRUE)>>, <<>>, 0)
Annidata == Tab(<<Col("k", "Utf8", FALSE), Col("l", "List", TRUE), Col("u", "Struct", TRUE)>>,
                <<<<1, 2, 0>>, <<0, Nulla, 1>>>>, 0)

Caso(t, passi, nomi, uscite) == [tavole |-> t, passi |-> passi, nomi |-> nomi, uscite |-> uscite]
Tutti == {"k", "s", "g", "h", "d", "l", "u", "n", "k_L"}
\* Plans of two steps over every column, and of three steps over a key or a geometry alone.
MCAvvii == { Caso(<<ConGeometria, Destra>>, 2, Tutti, {"k"}),
             Caso(<<DueGeometrie, SenzaPrimaria>>, 2, Tutti, {"g"}),
             Caso(<<Annidata, Vuota>>, 2, Tutti, {"n", "k"}),
             Caso(<<Breve>>, 3, {"k"}, {}),
             Caso(<<SoloGeometria>>, 3, {}, {}) }
=============================================================================
