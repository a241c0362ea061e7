------------------------------ MODULE MCReader ------------------------------
(* Two readers, two pieces, a channel that holds one event.                *)
EXTENDS Reader, TLC

CONSTANTS r1, r2

MCReaders == {r1, r2}
MCSymmetry == Permutations(MCReaders)
=============================================================================
