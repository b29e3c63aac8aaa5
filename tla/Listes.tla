-------------------------------- MODULE Listes --------------------------------
(***************************************************************************)
(* What the flocks of the language (its arrays) promise: a flock is a      *)
(* list, a reference designates a place in one, "=" copies a flock, one    *)
(* level deep, and "==" shares it.  A flock can be in a flock.             *)
(***************************************************************************)
EXTENDS SequencesExt

CONSTANTS
  Variables, Pointeurs, Objets, Valeurs,
  Inconnu,    \* the value of an element nobody wrote to
  Aucun,      \* not a reference
  Indices,    \* 0 .. n: the subscripts a script uses
  Boites      \* the lists given to BOITEAPINGOUINS

VARIABLES
  table,      \* the value of each variable
  liste,      \* the elements of each flock
  ref,        \* the place each reference designates
  resultat    \* the last value read

vars == <<table, liste, ref, resultat>>

Init ==
  /\ table = [x \in Variables |-> Inconnu]
  /\ liste = [o \in Objets |-> <<>>]
  /\ ref = [p \in Pointeurs |-> Aucun]
  /\ resultat = Inconnu

\* A variable, or a reference on an element that is there.
Lieux ==
  Variables \cup {p \in Pointeurs : ref[p] # Aucun /\ ref[p].rang < Len(liste[ref[p].base])}

Contenu(r) == IF r \in Variables THEN table[r] ELSE liste[ref[r].base][ref[r].rang + 1]
EstTroupeau(r) == Contenu(r) \in Objets

\* Nothing leads to flock o.
Libre(o) ==
  /\ resultat # o
  /\ \A x \in Variables : table[x] # o
  /\ \A p \in Pointeurs : ref[p] # Aucun => ref[p].base # o
  /\ \A q \in Objets : \A i \in DOMAIN liste[q] : liste[q][i] # o

Poser(r, w) ==
  IF r \in Variables THEN table' = [table EXCEPT ![r] = w] /\ UNCHANGED liste
  ELSE liste' = [liste EXCEPT ![ref[r].base][ref[r].rang + 1] = w] /\ UNCHANGED table

\* r becomes the new flock o, with the elements s.
Naitre(r, o, s) ==
  /\ Libre(o)
  /\ IF r \in Variables
     THEN table' = [table EXCEPT ![r] = o] /\ liste' = [liste EXCEPT ![o] = s]
     ELSE UNCHANGED table
          /\ liste' = [[liste EXCEPT ![ref[r].base][ref[r].rang + 1] = o] EXCEPT ![o] = s]

\* The flock of r, an empty one if it had none, goes from s to F(s).
Modifier(r, o, F(_)) ==
  \/ Contenu(r) = o /\ liste' = [liste EXCEPT ![o] = F(@)] /\ UNCHANGED table
  \/ ~EstTroupeau(r) /\ Naitre(r, o, F(<<>>))

Rendre(r, V(_)) == resultat' = V(IF EstTroupeau(r) THEN liste[Contenu(r)] ELSE <<>>)

Element(s, i) == IF i \in DOMAIN s THEN s[i] ELSE Inconnu

\* Reading one place past the end gives anything; further, nothing.
Lire(r, i) ==
  /\ resultat' \in {Element(IF EstTroupeau(r) THEN liste[Contenu(r)] ELSE <<>>, i + 1)}
                   \cup (IF EstTroupeau(r) /\ i = Len(liste[Contenu(r)])
                         THEN Valeurs \cup Objets \cup {Inconnu} ELSE {})
  /\ UNCHANGED <<table, liste, ref>>

\* The list gets long enough to have a place i.
Designer(r, i, p) ==
  \E o \in Objets :
    /\ Modifier(r, o, LAMBDA s : s \o [k \in 1 .. i + 1 - Len(s) |-> Inconnu])
    /\ ref' = [ref EXCEPT ![p] = [base |-> o, rang |-> i]]
    /\ UNCHANGED resultat

\* With a subscript below 0 nothing happens but that.
Former(r) == \E o \in Objets : Modifier(r, o, LAMBDA s : s) /\ UNCHANGED <<ref, resultat>>

LireRef(p) ==
  /\ p \in Lieux
  /\ resultat' = Contenu(p)
  /\ UNCHANGED <<table, liste, ref>>

Ecrire(r, w) == Poser(r, w) /\ UNCHANGED <<ref, resultat>>

\* "=" and "==".
Copier(r, q) ==
  /\ IF EstTroupeau(q) THEN \E o \in Objets : Naitre(r, o, liste[Contenu(q)])
                       ELSE Poser(r, Contenu(q))
  /\ UNCHANGED <<ref, resultat>>
InstanceDe(r, q) == Poser(r, Contenu(q)) /\ UNCHANGED <<ref, resultat>>

Pousse(r, w) ==
  \E o \in Objets : Modifier(r, o, LAMBDA s : Append(s, w)) /\ UNCHANGED <<ref, resultat>>
MetsDessous(r, w) ==
  \E o \in Objets : Modifier(r, o, LAMBDA s : <<w>> \o s) /\ UNCHANGED <<ref, resultat>>

\* The i-th element leaves, the next ones take one place less.
Sans(s, i) == IF i \in DOMAIN s THEN RemoveAt(s, i) ELSE s
Enleve(r, I(_)) ==
  /\ Rendre(r, LAMBDA s : Element(s, I(s)))
  /\ \E o \in Objets : Modifier(r, o, LAMBDA s : Sans(s, I(s)))
  /\ UNCHANGED ref
Plop(r) == Enleve(r, Len)
EnleveDessous(r) == Enleve(r, LAMBDA s : 1)
EnleveMilieu(r, i) == Enleve(r, LAMBDA s : i + 1)

Boite(x, s) == \E o \in Objets : Naitre(x, o, s) /\ UNCHANGED <<ref, resultat>>

\* PremierPingouin and "++".
Premier(p, r) ==
  /\ EstTroupeau(r) => liste[Contenu(r)] # <<>>
  /\ ref' = [ref EXCEPT ![p] = IF EstTroupeau(r) THEN [base |-> Contenu(r), rang |-> 0] ELSE Aucun]
  /\ UNCHANGED <<table, liste, resultat>>
Suivant(p) ==
  /\ p \in Lieux
  /\ ref' = [ref EXCEPT ![p].rang = @ + 1]
  /\ UNCHANGED <<table, liste, resultat>>

Next ==
  \/ \E r \in Lieux :
       \/ Plop(r) \/ EnleveDessous(r) \/ Former(r)
       \/ \E i \in Indices : Lire(r, i) \/ EnleveMilieu(r, i) \/ \E p \in Pointeurs : Designer(r, i, p)
       \/ \E w \in Valeurs \cup {resultat} : Pousse(r, w) \/ MetsDessous(r, w)
       \/ \E w \in Valeurs : Ecrire(r, w)
       \/ \E q \in Lieux : Copier(r, q) \/ InstanceDe(r, q)
       \/ \E p \in Pointeurs : Premier(p, r)
  \/ \E p \in Pointeurs : LireRef(p) \/ Suivant(p)
  \/ \E x \in Variables, s \in Boites : Boite(x, s)

Spec == Init /\ [][Next]_vars
=============================================================================
