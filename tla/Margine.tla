------------------------------ MODULE Margine ------------------------------
(***************************************************************************)
(* The memory margin of the geometry kernels                               *)
(* (plenora-kernels-geo/src/margine.rs): how many results a kernel may     *)
(* keep, and which of its two limits stops it.  The arithmetic is that of  *)
(* u64, saturating where the code saturates; MaxByte is the largest value, *)
(* and a margin of that many bytes is no margin at all.                    *)
(***************************************************************************)
EXTENDS Integers

CONSTANT MaxByte

ASSUME MargineAssumption == MaxByte \in Nat \ {0}

SaturaByte(n) == IF n > MaxByte THEN MaxByte ELSE n

\* A margin: the bytes, and the bytes the caller spends in its output for a result.
Margini == [byte : 0 .. MaxByte, uscita_per_risultato : 0 .. MaxByte]

byte_per_risultato(m, nel_kernel) == SaturaByte(nel_kernel + m.uscita_per_risultato)

risultati_massimi(m, nel_kernel) ==
    LET per == byte_per_risultato(m, nel_kernel)
    IN  IF per = 0 \/ m.byte = MaxByte THEN MaxByte ELSE m.byte \div per

\* Mutant: only the kernel's own limit.
tetto_soloLimite(limite, m, nel_kernel) == limite

\* TettoRisultati: the smaller of the kernel's own limit and of what the margin holds.
tetto(limite, m, nel_kernel) ==
    LET massimi == risultati_massimi(m, nel_kernel)
    IN  IF limite < massimi THEN limite ELSE massimi

\* Which of the two stopped the kernel: the margin only when it is the smaller one.
superato_dalla_memoria(limite, m, nel_kernel) ==
    limite > risultati_massimi(m, nel_kernel)

\* The fetch_update on the counter that the rows share: n more results are taken
\* only when the sum exists in u64 and does not exceed the cap.
Accettati(conto, n, tetto_) == conto + n <= MaxByte /\ conto + n <= tetto_
============================================================================
