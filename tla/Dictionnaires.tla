----------------------------- MODULE Dictionnaires -----------------------------
(***************************************************************************)
(* What the hash tables of the language promise: a table gives a value to  *)
(* each of its keys and keeps the keys in the order they were added, a     *)
(* reference designates one key of one table, "=" copies a table and "=="  *)
(* shares it.                                                              *)
(***************************************************************************)
EXTENDS Integers, Sequences

CONSTANTS
  Variables,  \* variables of the script that hold tables
  Pointeurs,  \* variables of the script that hold references
  Objets,     \* tables
  Clefs, Valeurs,
  Inconnu,    \* the value of an element nobody wrote to
  Aucun,      \* "not a table", "not a reference"
  Bout        \* the place after the last key of a table

VARIABLES
  table,      \* the table of each variable
  ordre,      \* the keys of each table
  contenu,    \* their values
  ref,        \* the table and the key of each reference
  resultat    \* the last value read

vars == <<table, ordre, contenu, ref, resultat>>

Init ==
  /\ table = [x \in Variables |-> Aucun]
  /\ ordre = [o \in Objets |-> <<>>]
  /\ contenu = [o \in Objets |-> [c \in {} |-> Inconnu]]
  /\ ref = [p \in Pointeurs |-> Aucun]
  /\ resultat = Inconnu

\* Nothing in the script leads to table o.
Libre(o) ==
  /\ \A x \in Variables : table[x] # o
  /\ \A p \in Pointeurs : ref[p] # Aucun => ref[p].base # o

Valeur(o, c) ==
  IF o # Aucun /\ c \in DOMAIN contenu[o] THEN contenu[o][c] ELSE Inconnu

\* Key c is added to table o; references at the end of o now designate it.
Ajouter(o, c) ==
  /\ ordre' = [ordre EXCEPT ![o] = Append(@, c)]
  /\ contenu' = [contenu EXCEPT ![o] =
       [d \in DOMAIN contenu[o] \cup {c} |-> IF d = c THEN Inconnu ELSE contenu[o][d]]]

Pointer(p, o, c) == ref' = [q \in Pointeurs |->
  IF q = p THEN [base |-> o, clef |-> c]
  ELSE IF ref[q] = [base |-> o, clef |-> Bout] /\ c \notin DOMAIN contenu[o]
       THEN [base |-> o, clef |-> c] ELSE ref[q]]

\* p, if it is one of them, designates the element of key c, which is there
\* from now on.
Designer(x, c, p) ==
  /\ table[x] # Aucun
  /\ Pointer(p, table[x], c)
  /\ IF c \in DOMAIN contenu[table[x]] THEN UNCHANGED <<ordre, contenu>> ELSE Ajouter(table[x], c)
  /\ UNCHANGED <<table, resultat>>

Lire(x, c) ==
  /\ resultat' = Valeur(table[x], c)
  /\ UNCHANGED <<table, ordre, contenu, ref>>

Designe(p) == ref[p] # Aucun /\ ref[p].clef # Bout

\* Through a reference.
LireRef(p) ==
  /\ Designe(p)
  /\ resultat' = Valeur(ref[p].base, ref[p].clef)
  /\ UNCHANGED <<table, ordre, contenu, ref>>

Ecrire(p, w) ==
  /\ Designe(p)
  /\ contenu' = [contenu EXCEPT ![ref[p].base][ref[p].clef] = w]
  /\ UNCHANGED <<table, ordre, ref, resultat>>

\* PremierPingouin.
Premier(p, x) ==
  /\ table[x] # Aucun => ordre[table[x]] # <<>>
  /\ ref' = [ref EXCEPT ![p] = IF table[x] = Aucun THEN Aucun
                               ELSE [base |-> table[x], clef |-> Head(ordre[table[x]])]]
  /\ UNCHANGED <<table, ordre, contenu, resultat>>

\* "++" goes through the keys in the order they were added.
Suivant(p) ==
  /\ Designe(p)
  /\ LET o == ref[p].base
         n == 1 + CHOOSE i \in DOMAIN ordre[o] : ordre[o][i] = ref[p].clef
     IN ref' = [ref EXCEPT ![p].clef = IF n \in DOMAIN ordre[o] THEN ordre[o][n] ELSE Bout]
  /\ UNCHANGED <<table, ordre, contenu, resultat>>

\* A variable becomes an empty table.
Devenir(x, o) ==
  /\ table[x] = Aucun /\ Libre(o)
  /\ table' = [table EXCEPT ![x] = o]
  /\ ordre' = [ordre EXCEPT ![o] = <<>>]
  /\ contenu' = [contenu EXCEPT ![o] = [c \in {} |-> Inconnu]]
  /\ UNCHANGED <<ref, resultat>>

\* "=": x holds a table of its own with the same elements.
Copier(x, y, o) ==
  /\ table[y] # Aucun /\ Libre(o)
  /\ table' = [table EXCEPT ![x] = o]
  /\ ordre' = [ordre EXCEPT ![o] = ordre[table[y]]]
  /\ contenu' = [contenu EXCEPT ![o] = contenu[table[y]]]
  /\ UNCHANGED <<ref, resultat>>

\* "==": x holds the table of y.
Partager(x, y) ==
  /\ table' = [table EXCEPT ![x] = table[y]]
  /\ UNCHANGED <<ordre, contenu, ref, resultat>>

Next ==
  \/ \E x \in Variables, c \in Clefs : Lire(x, c) \/ \E p \in Pointeurs \cup {Aucun} : Designer(x, c, p)
  \/ \E x, y \in Variables :
       Partager(x, y) \/ \E o \in Objets : Devenir(x, o) \/ Copier(x, y, o)
  \/ \E p \in Pointeurs :
       \/ LireRef(p) \/ Suivant(p)
       \/ \E w \in Valeurs : Ecrire(p, w)
       \/ \E x \in Variables : Premier(p, x)

Spec == Init /\ [][Next]_vars
=============================================================================
