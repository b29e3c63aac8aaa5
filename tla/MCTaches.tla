------------------------------- MODULE MCTaches -------------------------------
(* Small instances of Taches: one or two universes.                          *)
EXTENDS Taches, TLC

CONSTANTS u1, u2

\* The script waits for every universe from the main task, as tache2.gpp does.
UnSeulAttend == {Principal} \X Univers

\* The script may wait for any universe from any task.
ToutLeMondeAttend == Taches \X Univers

Symetrie == Permutations(Univers)
=============================================================================
