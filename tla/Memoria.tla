------------------------------ MODULE Memoria ------------------------------
(***************************************************************************)
(* The memory measure of the workspace (plenora-core/src/memoria.rs).      *)
(*                                                                         *)
(* An Arrow buffer is a view on an allocation.  What the budget counts is  *)
(* the memory the resident tables keep alive: every allocation once, keyed *)
(* by its start address, however many columns, tables or slices reach it.  *)
(* Two views that declare the same start and different capacities (memory  *)
(* imported from outside) count as the larger one.                         *)
(*                                                                         *)
(* The measure is stated here as the number of distinct bytes reached:     *)
(* byte k of the allocation that starts at p is the pair <<p, k>>.  The    *)
(* loop that computes it (Allocazioni::registra and totale) is the module  *)
(* ContoAllocazioni, which is checked against this definition.             *)
(***************************************************************************)
EXTENDS Naturals, FiniteSets

CONSTANTS
    Buffer,     \* the buffers of the model: records of start and capacity
    MaxU64      \* largest value of a u64 (2^64 - 1 in the build)

ASSUME BufferAssunti ==
    /\ IsFiniteSet(Buffer)
    /\ Buffer \subseteq [inizio : Nat, capacita : Nat]

ASSUME MaxU64Assunto == MaxU64 \in Nat

\* The bytes of the allocation a buffer is a view on; none when the capacity is
\* zero (the dangling pointer of an empty allocation).
ByteDelBuffer(b) == {b.inizio} \X (1 .. b.capacita)

\* The bytes reached from a set of buffers.
ByteRaggiunti(S) == UNION {ByteDelBuffer(b) : b \in S}

\* byte_vivi of a set of buffers, before the conversion to u64.
byte_vivi(S) == Cardinality(ByteRaggiunti(S))

\* The sum does not fit a u64: byte_vivi returns Internal.
NonRappresentabile(S) == byte_vivi(S) > MaxU64

=============================================================================
