----------------------------- MODULE MCTableTaches ----------------------------
(* A small instance of TableTaches: two universes, created by one task.       *)
EXTENDS TableTaches

CONSTANTS u1, u2, c1
=============================================================================
