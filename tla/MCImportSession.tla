--------------------------- MODULE MCImportSession ---------------------------
(* Instances of ImportSession for TLC: two request slots, two rows.        *)
EXTENDS ImportSession, TLC
CONSTANTS r1, r2

MCRequests == {r1, r2}
MCRows == {1, 2}
OneRow == {1}
MCSymmetry == Permutations(MCRequests)
=============================================================================
