------------------------------- MODULE MCAppels -------------------------------
(* Small instances of Appels.                                                *)
EXTENDS Appels

CONSTANTS x, y, o1, o2, v1, v2

Symetrie ==
  Permutations(Valeurs) \cup Permutations(Objets) \cup Permutations(Lieux)
=============================================================================
