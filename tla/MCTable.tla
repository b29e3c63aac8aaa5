-------------------------------- MODULE MCTable -------------------------------
(* Small instances of TachesEtTable: two universes.                          *)
EXTENDS TachesEtTable, TLC

CONSTANTS u1, u2

\* The script may wait for any universe from any task.
ToutLeMondeAttend == Taches \X Univers

Symetrie == Permutations(Univers)
=============================================================================
