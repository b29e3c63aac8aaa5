----------------------------- MODULE MCCollections -----------------------------
(* Small instances of Hachage and of Troupeaux: one behaviour is about the   *)
(* tables or about the flocks.                                               *)
EXTENDS Hachage, TLC

CONSTANTS x1, x2, y1, p1, o1, o2, k1, k2, k3, v1, b1, b2, Nul

VARIABLES genre, memoire, place, lu, natif

\* Two keys have the same hash value, the third a smaller one.
Empreintes == [c \in Clefs |-> IF c = k3 THEN -1 ELSE 1]
Rangs == [c \in Clefs |-> IF c = k1 THEN 0 ELSE IF c = k2 THEN 1 ELSE 2]

T == INSTANCE Troupeaux WITH
       Variables <- {y1}, Blocs <- {b1, b2}, Indices <- 0 .. 1,
       Boites <- {<<>>, <<v1, v1>>},
       Poids <- [w \in Valeurs \cup {Inconnu} |-> IF w = v1 THEN 2 ELSE 0],
       m <- memoire, ref <- place, resultat <- lu

ASSUME T!Hypotheses

varsCollections == <<vars, genre, memoire, place, lu, natif>>

InitCollections ==
  /\ Init /\ T!Init
  /\ genre \in {"tables", "troupeaux"}

NextCollections ==
  /\ UNCHANGED genre
  /\ \/ genre = "tables" /\ Next /\ UNCHANGED <<memoire, place, lu, natif>>
     \/ genre = "troupeaux" /\ T!Next /\ UNCHANGED vars

SpecCollections == InitCollections /\ [][NextCollections]_varsCollections

\* bound: pairs of the two tables, elements of the two flocks; one less while
\* a native function runs.
Petites ==
  /\ l[o1] + l[o2] <= 3
  /\ memoire.l[o1] + memoire.l[o2] <= IF natif = T!Repos THEN 3 ELSE 2
  /\ natif # T!Repos => lu = Inconnu

\* bound: while a native function runs, the other tasks do what changes the
\* memory, until they have changed its flock.
PeuDeTaches ==
  natif # T!Repos =>
    /\ natif' = natif => memoire' # memoire
    /\ natif' # T!Repos /\ natif.touche => memoire' = memoire

Symetrie == Permutations(Variables) \cup Permutations(Objets) \cup Permutations({b1, b2})

\* See Troupeaux and Hachage; a behaviour about one leaves the other where it
\* began.
NatifsJustes == T!NatifsJustes
TroupeauxListes == T!Abs!Init /\ [][genre = "troupeaux" => T!Abs!Next]_(T!Abs!vars)
TablesDictionnaires == Abs!Init /\ [][genre = "tables" => Abs!Next]_(Abs!vars)
=============================================================================
