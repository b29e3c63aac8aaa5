-------------------------------- MODULE Hachage --------------------------------
(***************************************************************************)
(* hachageval, the hash tables of the language.  The pairs are in an array *)
(* in the order they were added, and Index holds their numbers sorted by   *)
(* hash value, then by key.  ObtId looks a key up in Index by bisection    *)
(* and, when it is not there, says where ObtRef must insert it.            *)
(*                                                                         *)
(* A reference is the address of the table and the number of a pair, so    *)
(* that it can outlive insertions and reallocations.  The virtual machine  *)
(* has one task in it at a time (see Taches), and so does this module; the *)
(* values of the elements are numbers, never tables.                       *)
(***************************************************************************)
EXTENDS Integers

CONSTANTS
  Variables, Pointeurs, Objets, Clefs, Valeurs, Inconnu, Aucun, Bout,
  Empreinte,  \* CalculerHache of each key, as an int
  Rang,       \* the order of czcmp
  Pas         \* places added by a reallocation (128 in the code)

ASSUME HachageAssumption ==
  /\ Empreinte \in [Clefs -> Int]
  /\ Rang \in [Clefs -> Nat]
  /\ \A c, d \in Clefs : Rang[c] = Rang[d] => c = d
  /\ Pas \in Nat \ {0}
  /\ Aucun \notin Objets \cup Pointeurs

\* Aucun is not a reference and Bout is not a key.
ASSUME ReferencesAssumption ==
  /\ Aucun \notin [BaseH : Objets, Decalage : Nat]
  /\ Aucun \notin [base : Objets, clef : Clefs \cup {Bout}]
  /\ Bout \notin Clefs

VARIABLES
  table,      \* the table of each variable
  ref,        \* r.BaseH and r.Decalage of each reference
  resultat,   \* the last value read
  v, l, a,    \* the pairs of each table, their number, the places allocated
  Index,      \* the sorted index of each table
  op,         \* the instruction that calls ObtId
  inf, sup    \* the variables of ObtId

vars == <<table, ref, resultat, v, l, a, Index, op, inf, sup>>

Paires == [Clef : Clefs, Val : Valeurs \cup {Inconnu}]
Entrees == [i : Nat, hache : Int]
Repos == [nom |-> "repos"]
Ops == [nom : {"ref"}, x : Variables, clef : Clefs, p : Pointeurs \cup {Aucun}]
         \cup [nom : {"val"}, x : Variables, clef : Clefs]

TypeOK ==
  /\ table \in [Variables -> Objets \cup {Aucun}]
  /\ ref \in [Pointeurs -> [BaseH : Objets, Decalage : Nat] \cup {Aucun}]
  /\ resultat \in Valeurs \cup {Inconnu}
  /\ l \in [Objets -> Nat] /\ a \in [Objets -> Nat]
  /\ DOMAIN v = Objets /\ DOMAIN Index = Objets
  /\ \A o \in Objets :
       /\ l[o] <= a[o]
       /\ v[o] \in [0 .. l[o] - 1 -> Paires]
       /\ Index[o] \in [0 .. l[o] - 1 -> Entrees]
  /\ op \in Ops \cup {Repos}
  /\ op # Repos => table[op.x] # Aucun
  /\ inf \in Int /\ sup \in Int

Rien == [i \in {} |-> Aucun]

Init ==
  /\ table = [x \in Variables |-> Aucun]
  /\ ref = [p \in Pointeurs |-> Aucun]
  /\ resultat = Inconnu
  /\ v = [o \in Objets |-> Rien] /\ Index = [o \in Objets |-> Rien]
  /\ l = [o \in Objets |-> 0] /\ a = [o \in Objets |-> 0]
  /\ op = Repos /\ inf = 0 /\ sup = 0

tas == <<v, l, a, Index>>
recherche == <<op, inf, sup>>

\* Memory the collector may give again.
Libre(o) ==
  /\ \A x \in Variables : table[x] # o
  /\ \A p \in Pointeurs : ref[p] # Aucun => ref[p].BaseH # o

\* A table with k pairs, all of them allocated.
Remplir(o, pairs, index, k) ==
  /\ v' = [v EXCEPT ![o] = pairs] /\ Index' = [Index EXCEPT ![o] = index]
  /\ l' = [l EXCEPT ![o] = k] /\ a' = [a EXCEPT ![o] = k]

-----------------------------------------------------------------------------
(* I_HACHAGEREF and I_HACHAGEVAL. *)

\* EnTableHachage.
Devenir(x, o) ==
  /\ op = Repos
  /\ table[x] = Aucun /\ Libre(o)
  /\ table' = [table EXCEPT ![x] = o]
  /\ Remplir(o, Rien, Rien, 0)
  /\ UNCHANGED <<ref, resultat>>

\* The beginning of ObtId.
Chercher(o, n) ==
  /\ op' = n
  /\ inf' = -1
  /\ sup' = l[o]

\* The reference goes to p, or stays on the stack (Aucun).
HachageRef(x, c, p) ==
  LET n == [nom |-> "ref", x |-> x, clef |-> c, p |-> p]
  IN /\ op = Repos
     /\ \/ /\ table[x] # Aucun
           /\ Chercher(table[x], n)
           /\ UNCHANGED <<table, ref, resultat, tas>>
        \/ \E o \in Objets : Devenir(x, o) /\ op' = n /\ inf' = -1 /\ sup' = 0

\* Mutant: reading makes the table, as writing does.
HachageValCree(x, c) ==
  LET n == [nom |-> "val", x |-> x, clef |-> c]
  IN /\ op = Repos
     /\ \/ /\ table[x] # Aucun
           /\ Chercher(table[x], n)
           /\ UNCHANGED <<table, ref, resultat, tas>>
        \/ \E o \in Objets : Devenir(x, o) /\ op' = n /\ inf' = -1 /\ sup' = 0

HachageVal(x, c) ==
  /\ op = Repos
  /\ IF table[x] = Aucun
     THEN resultat' = Inconnu /\ UNCHANGED recherche
     ELSE Chercher(table[x], [nom |-> "val", x |-> x, clef |-> c]) /\ UNCHANGED resultat
  /\ UNCHANGED <<table, ref, tas>>

Moins(hache, c, d) == Empreinte[c] < hache \/ (Empreinte[c] = hache /\ Rang[c] < Rang[d])
Plus(hache, c, d) == Empreinte[c] > hache \/ (Empreinte[c] = hache /\ Rang[c] > Rang[d])

Base == table[op.x]
mil == (inf + sup) \div 2
Entree == Index[Base][mil]
ClefDe(o, e) == v[o][e.i].Clef

EnRecherche == op # Repos /\ inf < sup - 1

\* Mutant: the place that was looked at stays between the bounds.
RetenirMil == mil + 1

SupApres == mil

Avancer ==
  /\ EnRecherche
  /\ \/ Moins(Entree.hache, op.clef, ClefDe(Base, Entree)) /\ sup' = SupApres /\ UNCHANGED inf
     \/ Plus(Entree.hache, op.clef, ClefDe(Base, Entree)) /\ inf' = mil /\ UNCHANGED sup
  /\ UNCHANGED <<table, ref, resultat, tas, op>>

\* ObtId returns.
Fin == op' = Repos /\ inf' = 0 /\ sup' = 0

\* The end of the instruction, with the pair number n of the table.
Rendre(n) ==
  /\ Fin
  /\ \/ /\ op.nom = "ref"
        /\ ref' = [q \in Pointeurs |-> IF q = op.p THEN [BaseH |-> Base, Decalage |-> n] ELSE ref[q]]
        /\ UNCHANGED resultat
     \/ /\ op.nom = "val"
        /\ resultat' = v[Base][n].Val
        /\ UNCHANGED ref
  /\ UNCHANGED table

Trouver ==
  /\ EnRecherche
  /\ Empreinte[op.clef] = Entree.hache /\ op.clef = ClefDe(Base, Entree)
  /\ Rendre(Entree.i)
  /\ UNCHANGED tas

\* I_HACHAGEVAL on a key that is not there.
Absent ==
  /\ op # Repos /\ op.nom = "val"
  /\ inf >= sup - 1
  /\ Fin /\ resultat' = Inconnu
  /\ UNCHANGED <<table, ref, tas>>

\* Mutant: the arrays grow once the new pair is in them.
PlacesTropTard == IF l[Base] + 1 = a[Base] THEN a[Base] + Pas ELSE a[Base]

Places == IF l[Base] = a[Base] THEN a[Base] + Pas ELSE a[Base]

\* Mutant: the entry goes one place too far.
InsererApres(e) ==
  [k \in 0 .. l[Base] |->
     IF k <= sup /\ k < l[Base] THEN Index[Base][k]
     ELSE IF k = sup + 1 \/ k = sup THEN e ELSE Index[Base][k - 1]]

\* The index with e at OuInserer = sup.
Inserer(e) ==
  [k \in 0 .. l[Base] |->
     IF k < sup THEN Index[Base][k] ELSE IF k = sup THEN e ELSE Index[Base][k - 1]]

\* Mutant: the number of the new pair is its place in the index.
NumeroDansIndex == sup

Numero == l[Base]

\* The rest of ObtRef: the pair goes to the end of v.
Ajouter ==
  /\ op # Repos /\ op.nom = "ref"
  /\ inf >= sup - 1
  /\ a' = [a EXCEPT ![Base] = Places]
  /\ l' = [l EXCEPT ![Base] = @ + 1]
  /\ Index' = [Index EXCEPT ![Base] =
                 Inserer([i |-> Numero, hache |-> Empreinte[op.clef]])]
  /\ v' = [v EXCEPT ![Base] =
             [k \in 0 .. l[Base] |->
                IF k = l[Base] THEN [Clef |-> op.clef, Val |-> Inconnu] ELSE v[Base][k]]]
  /\ Rendre(Numero)

-----------------------------------------------------------------------------
(* What a script does with references and whole tables. *)

\* Deref accepts the reference.
Valide(p) == ref[p] # Aucun /\ ref[p].Decalage < l[ref[p].BaseH]

LireRef(p) ==
  /\ op = Repos /\ Valide(p)
  /\ resultat' = v[ref[p].BaseH][ref[p].Decalage].Val
  /\ UNCHANGED <<table, ref, tas, recherche>>

\* I_DEFINIR on an element.
Ecrire(p, w) ==
  /\ op = Repos /\ Valide(p)
  /\ v' = [v EXCEPT ![ref[p].BaseH][ref[p].Decalage].Val = w]
  /\ UNCHANGED <<table, ref, resultat, l, a, Index, recherche>>

\* PremierPingouin.  On an empty table it would read a reference it has not
\* initialised: see JamaisVide.
Premier(p, x) ==
  /\ op = Repos
  /\ table[x] # Aucun => l[table[x]] # 0
  /\ ref' = [ref EXCEPT ![p] = IF table[x] = Aucun THEN Aucun
                               ELSE [BaseH |-> table[x], Decalage |-> 0]]
  /\ UNCHANGED <<table, resultat, tas, recherche>>

\* "++", by one, not further than one place after the last pair.
Suivant(p) ==
  /\ op = Repos /\ Valide(p)
  /\ ref' = [ref EXCEPT ![p].Decalage = @ + 1]
  /\ UNCHANGED <<table, resultat, tas, recherche>>

\* "=", with hachageval::Copier.
Copier(x, y, o) ==
  LET t == table[y]
  IN /\ op = Repos
     /\ t # Aucun /\ Libre(o)
     /\ table' = [table EXCEPT ![x] = o]
     /\ Remplir(o, v[t], Index[t], l[t])
     /\ UNCHANGED <<ref, resultat, recherche>>

\* "==".
InstanceDe(x, y) ==
  /\ op = Repos
  /\ table' = [table EXCEPT ![x] = table[y]]
  /\ UNCHANGED <<ref, resultat, tas, recherche>>

ObtId == Avancer \/ Trouver \/ Absent \/ Ajouter

Next ==
  \/ \E x \in Variables, c \in Clefs :
       HachageVal(x, c) \/ \E p \in Pointeurs \cup {Aucun} : HachageRef(x, c, p)
  \/ ObtId
  \/ \E p \in Pointeurs :
       \/ LireRef(p) \/ Suivant(p)
       \/ \E w \in Valeurs : Ecrire(p, w)
       \/ \E x \in Variables : Premier(p, x)
  \/ \E x, y \in Variables : InstanceDe(x, y) \/ \E o \in Objets : Copier(x, y, o)

Spec == Init /\ [][Next]_vars

-----------------------------------------------------------------------------
(* Properties. *)

Avant(c, d) == Empreinte[c] < Empreinte[d] \/ (Empreinte[c] = Empreinte[d] /\ Rang[c] < Rang[d])

\* The key of the k-th entry of the index of o.
ClefIndex(o, k) == v[o][Index[o][k].i].Clef

\* Each entry designates a pair and holds the hash value of its key; the
\* entries are sorted, and each pair has one.
EntreesJustes ==
  \A o \in Objets : \A k \in 0 .. l[o] - 1 :
    /\ Index[o][k].i \in 0 .. l[o] - 1
    /\ Index[o][k].hache = Empreinte[ClefIndex(o, k)]
Croissant ==
  \A o \in Objets : \A j, k \in 0 .. l[o] - 1 :
    j < k => Avant(ClefIndex(o, j), ClefIndex(o, k))
Complet ==
  \A o \in Objets : \A n \in 0 .. l[o] - 1 : \E k \in 0 .. l[o] - 1 : Index[o][k].i = n

\* "Index vers les clefs triees": what bisection relies on, after any
\* sequence of insertions, copies and reallocations.
Trie == EntreesJustes /\ Croissant /\ Complet

\* What ObtId knows of the places it has looked at.
Cadre ==
  op # Repos =>
    /\ inf \in -1 .. sup - 1 /\ sup \in 0 .. l[Base]
    /\ \A k \in 0 .. l[Base] - 1 :
         /\ k <= inf => Avant(ClefIndex(Base, k), op.clef)
         /\ k >= sup => Avant(op.clef, ClefIndex(Base, k))

\* A table never has two pairs with the same key.
ClefsUniques ==
  \A o \in Objets : \A m, n \in 0 .. l[o] - 1 : v[o][m].Clef = v[o][n].Clef => m = n

\* A table a script can see has an element: PremierPingouin never reads the
\* reference it has not initialised.
JamaisVide == op = Repos => \A x \in Variables : table[x] # Aucun => l[table[x]] > 0

\* Each turn of the loop of ObtId halves what is left to search, wherever the
\* key is and whatever hash values the keys share: every search ends, in a
\* number of turns that is the logarithm of the size of the table.
RechercheDivise ==
  [][op # Repos /\ op' = op => 2 * (sup' - inf') <= sup - inf + 1]_vars

\* What the tables stand for.
OrdreAbs == [o \in Objets |-> [n \in 1 .. l[o] |-> v[o][n - 1].Clef]]
ContenuAbs ==
  [o \in Objets |-> [c \in {v[o][n].Clef : n \in 0 .. l[o] - 1} |->
     v[o][CHOOSE n \in 0 .. l[o] - 1 : v[o][n].Clef = c].Val]]
RefAbs ==
  [p \in Pointeurs |->
     IF ref[p] = Aucun THEN Aucun
     ELSE [base |-> ref[p].BaseH,
           clef |-> IF Valide(p) THEN v[ref[p].BaseH][ref[p].Decalage].Clef ELSE Bout]]

Abs == INSTANCE Dictionnaires WITH ordre <- OrdreAbs, contenu <- ContenuAbs, ref <- RefAbs

\* "Une reference sur l'element dont la clef est chaine1", "Renvoie la valeur
\* de l'element": bisection, insertion and copies give the tables of
\* Dictionnaires, where references follow their key whatever is added.
AbsSpec == Abs!Spec
=============================================================================
