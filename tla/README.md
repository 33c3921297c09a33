# A TLA+ model of plenora-data-tools

plenora-data-tools runs *plans*: sequences of table and geometry operations over
whole Arrow tables, in memory or from files to files, from a command line, a Rust
library or Python. Three things can go wrong without a test noticing, and they are
what this project models:

- around the operations: which tables are alive and how many bytes they hold, what a
  cancellation or a deadline finds done and leaves undone, what is on disk after an
  error, and what the error says about it;
- between the analysis of a plan and its run: a contract is derived for every table
  before any data is read, by code that is not the code of the kernels, and later steps
  trust it;
- inside the operations that have two implementations of one meaning: a parallel or
  indexed kernel and its sequential definition, a compiled program and an interpreter.

Names follow the source, which is Italian; comments are in English. An operator
`X_something` just before `X` is a mutant of `X`, a plausible mistake in the same
code: no specification uses it, and PROJECT.json names the property that catches it.

## Inventory

| component | state | operations | interacts with | hard behaviour |
|---|---|---|---|---|
| Plan and validation (`plenora-pipeline/src/piano.rs`, `validazione.rs`) | names defined, depth, consumers, provenance | `Pipeline::validate` | catalogue, contracts, CRS | order of the refusals; depth and provenance along a graph |
| Runner (`plenora-pipeline/src/esecuzione.rs`) | `vivi`, report, interruption | `run_interrompibile` | plan, kernels, cost model, caller's thread | releases, budget at every boundary, cancellation and deadline races |
| Live bytes (`plenora-core/src/memoria.rs`) | map from start to capacity | `byte_vivi` | runner, files | shared and sliced allocations, nested columns, overflow |
| Expansion limits (`plenora-core/src/limits.rs`, `catalog.rs`) | none | `expansion_exceeded`, `exceeded` | runner | shifts past 128 bits, empty base |
| Cost model (`plenora-pipeline/src/budget.rs`, `costi_*.rs`) | none | `costo_di`, `base`, `picco` | runner | saturation, under-estimates |
| Atomic write (`plenora-io/src/atomico.rs`) | temporary, destination | `scrivi_atomico` | file system, other programs | crashes, races, failed cleanup |
| From files to files (`plenora-io/src/esecuzione.rs`) | tables loaded, outputs published, canonical paths | `esegui_ingressi`, `esegui_in_memoria`, `valida_ingressi` | runner, atomic write, live bytes | aliases, partial failure, interruption between outputs |
| Codecs (`ipc.rs`, `parquet_io.rs`, `geoparquet.rs`, `wkb.rs`, `confine.rs`) | none | read, write, verify | arrow and parquet crates | malformed files |
| Errors (`plenora-core/src/error.rs`) | wrappers around a cause | `with_phase`, `with_remote_effect`, `override_remote_effect`, `retry_disposition` | everything | order in which wrappers are added |
| Artefact protocol (`plenora-cli/src/artefatti.rs`) | private directory, artefacts published | `data.run` 3 | host, files to files | publication fails half way, cleanup fails after it |
| Invocation (`plenora-cli/src/cli.rs`, `plenora-core/src/panic_policy.rs`) | panic counter, exit code | one command | signal handler, standard output | panics on other threads |
| Python SDK (`plenora-data-py`) | worker thread, signal | `Controlli::esegui`, `_in_thread` | interpreter, runner | a result and a cancellation at the same time |
| Contracts (`plenora-core/src/contract*`, `analyze/` of `plenora-kernels-table` and `plenora-kernels-geo`) | fields with identities, active geometry, proven order and row count | one `analyze_*` per operation | validation, kernels | properties that outlive what made them true; two derivations of one schema |
| Table kernels (`plenora-kernels-table`) | none | 70 operations | runner, contracts | parallel probes with shared counters; limits; two evaluators of expressions and of formulas |
| Geometry kernels (`plenora-kernels-geo`) | none | operations on geometries | runner, memory margin | R-tree windows, shared ceilings, floating point |

## Modules

`A` → `B`: B extends A, instantiates it or refines it. `Piano`, `Memoria`, `Espansione` → `Runner`;
`Memoria` → `EsecuzioneFile`, `ContoAllocazioni`; `ScritturaAstratta` → `ScritturaAtomica`;
`Errori` → `Artefatti`, `ControlliPy`, `InvocazioneCli`, `MCErrori`; `ErroreAstratto` → `MCErrori`;
`Ordine` → `KernelTabella` → `Analisi` → `Contratti`;
`Margine`, `Ordine` → `JoinParallelo`, `FuzzyParallelo`, `SpatialJoin`, `Vicini`, `Dbscan` → `MCKernel`;
`Scalari` → `Espressioni` → `ProgrammaVeloce`;
`Piano`, `Espansione`, `Budget` → `Calcoli` → `MCCalcoli`, which also takes `Espressioni` and
`ProgrammaVeloce`. `Ordine` lists a finite set in an order, for every kernel that sorts.
The proofs are in modules of their own: `RunnerProofs`, `EsecuzioneProofs`, `ArtefattiProofs`,
`ControlliProofs` and `CliProofs` extend the component they are about;
`ErroriProofs` holds the refinement of `MCErrori` and the lemmas about the error axes, which
the last three cite; `MisureProofs` extends `ContoAllocazioni` and `Calcoli`, what is
measured before it is decided; `ConcorrenzaProofs` extends `ScritturaAtomica` and `MCKernel`,
the actors that meet without knowing of one another.

- **Memoria** says what `byte_vivi` promises: a buffer is a start and a capacity, the
  bytes of a set of buffers are the largest capacity of every start, summed. Whether
  the sum fits a u64 (`MaxU64`) is `NonRappresentabile`.
- **ContoAllocazioni** is the traversal: one action per iteration of the loops of
  `byte_vivi` (`ProssimaColonna`), `per_ogni_buffer` (`Prende` pops a node, `Registra` takes
  one buffer, `Estende` pushes the children) and `totale` (`Somma`). It computes what
  Memoria says of the buffers the columns reach.
- **Piano** is the plan and `validate`, as operators. A step carries the facts of its
  catalogue descriptor that the control flow depends on; the verdict of the schema,
  CRS and contract analysis of a step is a field of it (`prepara`, `analisi`), and the
  plan-wide ones are the argument `altro` of `validate`.
- **Espansione** is the decision of the expansion limit with checked arithmetic of
  width `Larghezza` (128 in the build).
- **Runner** is `run_interrompibile`. `vivi` is the map of the same name; `pc` says
  where the code is: `ingressi` (loading the caller's tables), `segnale` and `orologio`
  (the two reads of `Interruzione::verifica`), `previsione` (budget before the kernel),
  `kernel`, `finale`, `fine`. One action is the code between two points where the
  other thread or the clock can matter, so `KernelRende` holds the whole rest of the
  loop body: row limits, expansion, budget, insertion, releases, report. What a
  kernel returns is any table over the buffers of its inputs and new ones.
  The tables `CaricaIngresso` takes are the caller's after `normalize`.
- **ScritturaAstratta** is what an atomic write promises: a destination changes in one
  step, to a whole file, never over an existing one without the option.
  **ScritturaAtomica** is `scrivi_atomico` with one action per system call, for any
  number of concurrent writers, and `MantieneLaPromessa` is the refinement.
  A power failure leaves at each destination any entry it has shown (renames may not
  have reached the disk), in part if its data was not synced.
- **EsecuzioneFile** is a call of plenora-io: `r` is the request, one of three kinds
  (`file`, `memoria`, `valida`). Paths are names of directory entries (`Voce`), several
  names may have the same entry. The runner is one step, with the guarantees Runner
  shows, and `Interruzione::verifica` is atomic here; its two halves are in Runner.
  `scrivi_tabella` is one step, with the guarantees of ScritturaAtomica.
- **Errori** is `PlenoraError` as a cause under a sequence of wrappers, outermost
  first, with the methods that read and add them. **ErroreAstratto** is what they
  promise: a record of axes. MCErrori lets layers call the methods in any order;
  `AssiSenzaOrdine` is the refinement. The other modules build their errors with these
  calls, so that what they check is the effect and the retry class a reader sees.
- **Artefatti** is `esegui_artefatti`. The execution on the private files is one step
  that may fail with any effect; the resolver is external and says of a failed
  publication what it can prove. An early return drops the private directory, and a
  removal that fails there is not seen, as in the code. `cartella` is that directory.
- **ControlliPy** is a call of the SDK: the caller's thread (`pc`, one step per read of
  a token, of the interpreter's signals and of the flag), the worker (`lavoro`), the
  channel, and the task of `_in_thread` with its own token. The work computes as long
  as it likes and then writes its outputs one by one in the control of `scrivi_uscite`,
  without the paths (they are in EsecuzioneFile): the check before each output, the write,
  the canonical path of what was just written, the final check. The effect is set where
  the code sets it: `FallisceScrittura` is the `partial` of `esegui_ingressi`, put on any
  error after the first output, `FallisceFinale` the `committed` of `verifica_finale`, and
  a temporary that stays says `unknown`. `partial` therefore does not mean that something
  is missing: when the canonical path of the last output fails, everything is on disk.
- **InvocazioneCli** is `main`, `proteggi` and `consegna`: the count of the panics and its
  base, the barriers of the main thread, the handler's thread that may die, the envelope.
  The command writes its outputs as the worker of ControlliPy does (`RendeScrittura`,
  `RendeFinale`, `Canonico`).
  `fuori` observes the panics the final check has to see.
- **Budget** is the prediction: the quantities of a step and `picco`, for a narrow type
  of `Bit` bits and a wide one of twice as many. **Calcoli** calls it, the expansion limit
  and `validate`, each on arguments of its own, and states what they should answer without
  rounding, overflow or bookkeeping.
- **KernelTabella** begins with a table as the kernels see it: columns with name, type,
  nullability and
  the mark of a geometry, rows of cells, the schema key of the primary geometry, and the
  helpers every kernel shares (`replace_or_append`, `select_rows`, `compose`, `vertical`).
  `origine` is an observer: it says which step made the cells of a column.
  Then it holds one operator per kernel, of one input, of checks and changes of
  shape, and of two inputs:
  which columns, which rows in which order, which refusals. What a value becomes is a
  new small number.
- **Analisi** is the contract and its transformations (`helpers.rs`), then one operator per
  `analyze_*` of the table operations; **Contratti** begins with those of the geometry
  operations and their kernels. There the runner puts the columns of the kernel
  on the schema of the contract (`monta`), so what can diverge is their number, their
  types and a null in a column that admits none; the cell of a geometry is the number of
  its parts, since an operation may tell empty, single and multiple geometries apart.
  **Contratti** has one action per table operation, and one per shape of geometry
  operation (the 17 transformations of one geometry in another are `geo_transform`): the
  analysis on the contracts of the inputs, and where it accepts, the kernel on their
  tables. The run compares the two after every step of a chain.
- **JoinParallelo**, **FuzzyParallelo**, **SpatialJoin**, **Vicini** are the parallel kernels, one
  action per piece of work a thread does between two accesses to what the threads share
  (counters, flags, marks); **Dbscan** is sequential, with a queue and a cache. **Margine** is
  the memory margin all of the geometry ones are limited by. Predicates and similarities
  are what they answer; a distance is the true one plus a bounded error.
- **Scalari** and **Espressioni** are the interpreter of `table.expression`, with
  doubles of few bits (`EsattoFino`, `MaxFinito`), so that integers beyond the exact range,
  infinities and overflow all happen. Espressioni begins with what the schema decides,
  acceptance and output type, and ends with `table.formula`: the recursive evaluation and
  the postfix program on a stack, in its two tiers. **ProgrammaVeloce** is the compiled program of `fast.rs`, with its own
  comparison, arithmetic and functions as in the code.

## Runs

| run | instance | what it shows |
|---|---|---|
| `runner_memoria` | four plans of up to two steps: an unused input, a table used twice, an input that is an output, a step nobody uses, a self-join, no step; four buffers on three allocations, two of them views of the same one; budget 3, maximum 4; predictions 0, 1, 4 | residency, budget, report |
| `runner_righe` | three plans of up to three steps, declared and exempt expansion, rows 0–4 around limits 2 and 3, factor 1; signal and clock at any point | row limits, the base an expansion is measured from, interruption |
| `conto_allocazioni` | three nodes, shared children, up to two of four buffers per node, maximum 3 | the traversal is exact |
| `calcoli` | counts of 3 bits, mantissas of 2, exponents −8..8, wide type of 6 bits: the proportions of 64, 53, 128; coefficients 0, 1, 7 and quantities 0, 3, 7, at the edges of the narrow type; every plan of up to three steps over two inputs; every tree of up to two operators around a leaf (`MaxLivelli`), with siblings, on batches of plain, edge, zero and null rows | the expansion comparison is exact; a prediction is never below its formula; depth, fan-out, provenance; compiled columns equal interpreted ones, and every cell is null or of the type the schema alone decides |
| `scrittura` | two writers on a destination, with and without overwrite, two steps of other programs, deaths, one power failure | refinement and truth of the answers |
| `esecuzione_file` | calls with two names for each of two entries, two outputs on one entry, an output on the input, unknown formats, tables in memory before and after files; budget 2, maximum 4 | effects, aliases, room for the reader, interruption |
| `errori` | every cause, five calls in any order, three phases, every effect | refinement to the axes, whatever the order of the calls |
| `artefatti` | up to two sources and three outputs, every failure the resolver reports, interruptions, a cleanup that fails | effect and retry class against what was published |
| `controlli_py` | synchronous and asynchronous calls, no output to two, a failure at every output and after the last, tokens, Ctrl-C, deadline, task cancelled, call discarded by the executor | true effect to the caller, nothing runs after the answer, a cancellation stops any work |
| `invocazione_cli` | every kind of command, a failure at every output and after the last, deadline and Ctrl-C, two nested barriers, panics of both threads, standard output that fails | exit code and envelope are true |
| `kernel` | joins of up to three by two rows with null and repeated keys in chunks of two, fuzzy joins in chunks of one or two, spatial joins with rows that fail, points and segments on a line with distances off by one, limits met exactly and passed by one | each kernel gives what the sequential definition gives, in any order of its threads, and holds no more than its limit |
| `contratti` | plans of two steps over every column of three pairs of tables (geometries with and without a primary, nested columns, dates, no rows), of three steps over a key alone and over a geometry alone | contracts are true of the tables, accepted steps do not fail on schema |

The bounds let every case happen: sums exceed `MaxU64`, shared allocations make the
live bytes differ from the sum of the tables, predictions fit exactly or exceed by one,
row counts lie on both sides of every limit. Plans of three steps contain every shape
the bookkeeping tells apart (chain, diamond, self-join, dead step). The proofs below
remove the bounds for the properties they cover.

Two tables suffice for the pairs of a prediction, two outputs for a partial
publication, two barriers for a nested one; `Mille = 4` is the least denominator for
which the sums of `base` fit the wide type, as 1000 does in the build.

Two operators around a leaf reach every operator over the result of every other, which
is where kinds, nulls and errors meet; a batch of two rows has a row that is marked and
one that is not. In `contratti` two steps suffice to prove something of a table and to
break it; three steps over a key or a geometry carry it through an operation that keeps it.

**Fairness.** Only `AnnullamentoFerma` of ControlliPy needs it. `SpecEqua` assumes
weak fairness of the caller's thread, of the worker and of the event loop, each on its
own: the operating system keeps scheduling them, and none holds a lock the others wait
for. The worker may compute for ever between its checks, so the property is not that
work ends but that a cancellation ends it. Nothing is assumed of the user, the tokens or
the clock. That the loops of Runner and EsecuzioneFile end is not stated: they run over
finite lists.

**Deadlock** is checked in every run but `contratti`, where a chain of steps ends when its
length is reached or a kernel fails; the other specifications have an explicit stuttering
action for the end of a call.

## Proofs

TLAPS proves, for every value of the constants that the ASSUMEs admit, the type
invariants, the refinements and every safety property of the components with state, the
three calculations of the runner, the limits of the parallel kernels, and that the threads
of a fuzzy join give what one thread gives.
The ASSUMEs say only what the types and the earlier checks of the code say: buffers
are finitely many, budgets and predictions are u64 and the budget is not zero, the
plans given to the runner are validated, the paths of a request are paths, a request
has the fields it has. For the calculations: two counts times a mantissa fit the wide type
of the expansion limit (`DominioAssunto`, the domain `limits.rs` states), a coefficient and a
quantity fit the narrow type, the narrow type has two bits or more, the thousandths are at
least four and the fraction of the prediction has a denominator that fits (`BudgetAssunto`),
names are distinct and allowed (`PianiAssunti`). For the kernels: columns are finite sequences,
limits are in the types of the code, a chunk is not empty (`CasiAssunti`, `LimitiAssunti`),
and every key that is a value has a blocking key (`BlocchiAssunti`).
TLC evaluates all of them in the runs.

| module | theorem | property |
|---|---|---|
| RunnerProofs | `TipiCorretti`, `ResidentiSempreEsatti`, `BudgetRispettato`, `DifeseIrraggiungibili`, `FermaSempre`, `InterruzioneSempreRispettata` | types, `ResidentiEsatti`, `BudgetAiConfini`, `DifeseMaiRaggiunte`, `FermaAlProssimoControllo`, `InterruzioneRispettata` |
| RunnerProofs | `RigheSempreEntroILimiti`, `BaseSempreFedele`, `RapportoSempreConcatenato` | `RigheEntroILimiti`, `BaseFedele`, `RapportoConcatenato` |
| ConcorrenzaProofs | `ScritturaTipata`, `ScritturaMantieneLaPromessa`, `EsitoSempreVeritiero` | types, `MantieneLaPromessa`, `EsitoVeritiero` |
| EsecuzioneProofs | `EffettoSempreVeritiero`, `IngressiSempreIntatti`, `UsciteMaiPerdute`, `SpazioSempreNelBudget`, `InterrottoMaiRiesce` | `EffettoVeritiero`, `IngressiIntatti`, `NessunaUscitaPerduta`, `SpazioInLettura`, `InterrottoNonRiesce` |
| ErroriProofs | `CatenaImplementaAssi` | `AssiSenzaOrdine` |
| ArtefattiProofs | `EffettoSempreDegliArtefatti`, `MaiPubblicaDueVolte`, `InterruzioneSempreDetta` | `EffettoDegliArtefatti`, `MaiRipubblica`, `InterruzioneMaiTaciuta` |
| ControlliProofs | `EffettoSempreAlChiamante`, `AnnullamentoSempreDetto` | `EffettoAlChiamante`, `AnnullamentoMaiTaciuto` |
| CliProofs | `PaniciSempreVisti`, `EffettoSempreDetto` | `PaniciVistiTutti`, `EffettoDelProcesso` |
| MisureProofs | `ContoEsatto` | `TotaleEsatto` |
| MisureProofs | `LimiteEsatto`, `PrevisionePerEccesso`, `PianoLetto` | `EspansioneEsatta`, `MaiPerDifetto`, `ValidazioneEsatta` |
| ConcorrenzaProofs | `TenutoSempre`, `FuzzyComeUnThread` | `TenutoEntroIlLimite`, `FuzzyComeScansione` |

**Runner.** The invariant `IInv` is the conjunction of typing, of exact residency (also
between the loop of the inputs and the start, where only loaded inputs are resident), of
the budget at the boundaries and of where the interruption was raised. Exact residency is
what makes the rest inductive: `Necessari(p, i + 1)` is `Necessari(p, i)` plus the output
of step i less `Liberati(p, i)`, by single assignment; with it no input of a step is
missing. That live bytes only grow when a table is added (monotonicity of `byte_vivi`)
makes the subtraction of the report safe and the defensive return unreachable. The
temporal properties of the interruption follow from one inductive predicate each.
The rows need that the limits already hold of the resident tables and of the outputs as
they are taken (`Limiti`); the report that its last record ends at the live bytes of now
and that record i released `Liberati(piano, i)` (`Rapporto`); the base of the indices that
a resident table carries the rows of a plan input exactly when the provenance, a recursive
function that `validate` computes on the plan alone, says so of its name (`Attribuzione`).

**Atomic write.** A temporary about to be renamed is whole and synced, and every file
ever shown at a destination is whole, and synced if a writer of the model made it; so a
power failure shows only what the abstract failure may show. For the answers
(`Risposte`): only a call that answered `scritto` has shown its file, it has no temporary
left, and its entry is not free again unless somebody else removed it.

**From files to files.** `IInv` says which loop is under way in which mode and how far;
that the names published are the first ones of the plan and `restanti` the others; that
every path looked at is still what the check saw unless another program touched its
entry; that the canonical paths are those of the outputs written. The last two are what
aliases need: a destination about to be written is not an entry already written, since
its canonical path would have been found. The room for a reader is the budget less the
live bytes of everything resident, and `byte_vivi` is monotone.

**Errors.** `Forma` is what the methods keep of a chain: a phase is outermost if there is
one, at most one declared effect, and it is not `none`. Under it phase, effect and retry
class after each method are functions of those before it, which is the refinement to the
record of axes (`CatenaImplementaAssi`), for chains of any length. `SenzaTipo`, the removal of a
kind of wrapper from a chain, is a recursive function; its facts are proved by the
least counterexample of the well-founded order on lengths. The lemma
`Ritentativo` (the retry class follows from cause, phase and effect, wherever the effect is
in the chain) is what the artefact protocol needs.

**Artefacts.** At the loop of publication the destinations before the i-th are published
and the others untouched; the error of an answer has the form above and its effect is
true of them. Proving it showed that a request without outputs has no truthful success,
and the code does refuse such a plan (`validate`): the guard is in `Esegue`.

**Python.** `InvPy` says where the caller's thread, the worker and the task can be
together (before the worker starts nothing is written; from the delivery on its result is
in the channel; an answered call has no worker), and that each result handed on, from
the channel to the answer to the task, is true of the outputs: `none` wrote nothing,
`partial` something and perhaps everything, `committed` everything, and an error of an
interruption says `committed` exactly when everything is on disk. The cancellation follows
from three predicates that no step leaves once they hold: a pending signal, a token
in sight of the delivery, a token up before the start. Proving it showed a CASE of the
model with two guards true at once for a call without outputs; they are disjoint now.

**Command line.** Until the final check of `proteggi` the count differs from its base if
and only if a thread panicked outside the barriers (the observer `fuori`); the envelope
then has a true effect, in the sense above, and an internal error has a cause; the exit code is decided by
what reached standard output.

**Live bytes.** A buffer is the set of the bytes from its start to its capacity. `InvConto`
says that at every moment the bytes of the map, and those still to be met (the rest of the
popped node, its children, the stack, the columns not begun), are together the bytes the
columns reach; during the sum, the total is the number of bytes of the keys already summed.
A node's subtree is the node and the subtrees of its children, which is what keeps a child
from being lost; keeping the larger capacity of a start is the union of two sets of bytes,
which is what keeps a slice from being counted twice. The error is exact because a part that
does not fit makes the whole not fit.

**Expansion and prediction.** `InvCalcoli` says that an answer is the one for the arguments of
the call; the rest is arithmetic on one call. A left shift that loses no bit is a product
by a power of two, one that loses a bit exceeds every number the other side can have, and a
shift by the width or more does so unless the number is zero: these three cases make the
comparison exact. For the prediction, each ceiling is at least its quotient, the sums of `base`
fit the wide type, and a product that saturates is the largest u64.

**Plan.** The depth of a step is one more than the largest of its inputs': a step of depth d
has a chain of d steps that ends in it (the chain of its deepest input and the step) and no
longer one, both by the least counterexample on the number of the step. The provenance is
the same argument on chains of row-keeping steps. The counts of consumers and edges are
cardinalities of sets of places.

**Kernels.** `InvKernel` has a part per kernel, about the call in progress. The join allocates
after the count, so its part says only that what is allocated is within `max_rows`. For the
fuzzy join, the rows counted are at most the shared counter and at most the limit; a chunk
whose addition passes the limit keeps its last rows out of the count. For the spatial join
and the nearest neighbours, the pairs held by all the rows are among those counted, and the
counter never passes the ceiling, since a `fetch_update` adds only within it.
`TettoEntroIlMargine` then says that a number within `tetto`, each of its bytes counted, fits
the memory margin, also where the bytes per result saturate. The theorem holds for any number
of rows, chunks and threads, any limit and any order of their steps. DBSCAN has no such limit.

**The fuzzy join and one thread.** `InvScansione` says what `InvFuzzy` does not: that a chunk
holds the part of the sequential output that belongs to the rows it has done, and that the
shared counter is at most the number of places of that output that chunks have counted. The
second part is what excludes a false refusal. Chunks are disjoint intervals of rows, so the
places counted and those about to be counted are different places of one output; a sum past
`max_rows` (or past `usize`, which leaves the counter as it is) therefore means that the
output is too long, and the flag is raised only then, whichever chunk meets it. The
opposite comes from `InvFuzzy`: without the flag every chunk has finished and counted all
its rows, these cover every place of the output, and they are at most `max_rows`. That the
chunks' outputs in order are the output (`ChunkInOrdine`) needs what `FlattenSeq` does: the
sequences laid end to end, each from where the earlier ones end (`Distese`), and that there
is one way to lay them.

Every inductive invariant was checked by TLC on the instance of its run before it was
proved.

Only model-checked:

- liveness (`AnnullamentoFerma`), which needs fairness;
- `ValoriEsatti` and `TipoFedele`: expressions and formulas are recursive operators, which
  the prover cannot take;
- that the other parallel or indexed kernels give what their sequential definitions give
  (`JoinComeRelazione`, `SpazialeDeterministico`, `ViciniEsatti`, `DbscanEsatto`): these also
  need that a list sorted by row, by key or by label is the one the code builds in another
  order, which is induction over the data;
- the contracts (`SchemaFedele`, `ProprietaFedeli`, `IdentitaStabile`, `AccettatoNonFallisce`),
  whose operators are too many and too deep for the proof to say more than the run.

The library's induction theorems have an operator as a parameter, which no installed prover
can instantiate; where a definition is a recursive function the proofs use a least
counterexample instead.

## What is not modelled

- Geometry on coordinates: overlay, buffer, validity, polygonization, reprojection, and the WKB, IPC and
  Parquet codecs. They are floating point or byte formats; the models see a result or a
  failure. The tables of EPSG codes, costs and catalogue entries are data.
  About half of the repository's lines are tests and oracles inside the source files, and
  most of the rest is of this kind, so the map can only cover a small share of the lines.
- In the table kernels, the values operations other than expressions compute, and the
  failures only values explain (a text that is not a number, a text too long). `transpose`
  always refuses; `table_diff`, `assert_metadata`, alphabetical reordering, tolerances and
  directions of `asof_join`, concatenations of more than two tables and field identities
  given from outside are left out. `max_split_columns` is taken equal to `max_columns`,
  `input_format` as given.
- In the contracts of the geometry operations, the resolution of the CRS and what an
  operation requires of it, dimensions, declared geometry types, precision, the metadata
  of schemas and the domains of the parameters; in their kernels, what only coordinates
  decide. Two geometries meet where their cells are equal, which lets every combination of
  meeting and missing rows happen. `explode` stands for `delaunay` and `split`,
  `geo_distance` for every measure that may be null on a geometry that is there.
- A number of rows is proven only by the few operations that know it: in Contratti only
  `reconcile` makes one, and `generate_grid` an estimated one, as in the code, and it is
  then carried by the operations that keep it.
- In expressions, the bounds of `audit` on depth and width of the tree, UInt64 columns,
  dictionary keys that point to a null, and the parser of formulas. The documentation of
  `formula()` says that it makes no check that a result is finite; the code does
  (`risultato_finito`), and so does the model.
- When Runner and EsecuzioneFile call a kernel or a codec, any result it can return,
  failures included.
- In Runner, the `Internal` returns for a validated plan that lacks the contract of a
  name: `PipelineValidata` is built by `validate` alone, and its fields are private.
- In ScritturaAtomica the directory is not synced, as in the code: a power failure may
  undo a rename. The property says only that what is shown is whole.
- In EsecuzioneFile a symbolic link as the last component of a destination; aliases
  are names of one entry, however they come about. Directories as destinations are the
  argument `guasto` of `VerificaUscita`.
- Another program that replaces an input by an alias of an output between the checks
  and the write: `IngressiIntatti` and `NessunaUscitaPerduta` exempt the entries others
  touched.
- In ControlliPy, panics of the caller's own thread inside the native function, and
  what `Controlli::nuovi` refuses; both end before the worker starts or after it was
  joined. A worker that dies without a result (a panic while its result is built)
  leaves a `KeyboardInterrupt` without a cause: `EffettoAlChiamante` says so.
- In InvocazioneCli, several invocations in one process: the code's own documentation
  says that a panic of one makes the others fail.
- In Budget, quantities beyond the narrow type are capped before the model is applied,
  as in the code; `MaiPerDifetto` is about the capped ones. The coefficients are data.
- In Artefatti, the `Internal` return for an output without a record in the manifest:
  the records are made from the same list.
- Test probes (`sonda.rs`, `sonde.rs`), which the release builds do not contain.

## Plan

Done: the modules above; the proofs of every safety property of Runner, ContoAllocazioni,
ScritturaAtomica, EsecuzioneFile, Errori, Artefatti, ControlliPy and InvocazioneCli, of the
calculations of Calcoli, of what the parallel kernels hold and of the rows of the fuzzy join.

Next, in this order:

1. `SpazialeDeterministico` and `JoinComeRelazione` for every call: the first needs that the
   first failing row is a minimum, the second that the offsets of the chunks are prefix sums
   of the counts.
2. EsecuzioneFile over the runner's and the writer's own modules instead of their
   guarantees, for the smallest call, to check that the guarantees are the right ones.
3. CRS, dimensions and declared types of a geometry in Analisi: each is a small lattice
   that the analysis transforms beside the fields.
