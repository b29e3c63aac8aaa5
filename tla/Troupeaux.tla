------------------------------- MODULE Troupeaux -------------------------------
(***************************************************************************)
(* tableauval, the flocks (arrays) of the language, and the functions on   *)
(* them.  A flock is an object with a number of elements, l, and the       *)
(* address of the block that holds them, v; each change of length may give *)
(* the block back and take another.  A reference is an object and a place  *)
(* in it, looked up again each time it is used.                            *)
(*                                                                         *)
(* The instructions and the functions that take the interpreter keep the   *)
(* mutex: each is one action.  ChoisisUnEntier (TableauPoids) and          *)
(* Marijuana (Joindre) are called without it: they read a flock step by    *)
(* step while other tasks change it.                                       *)
(*                                                                         *)
(* A flock is not an element of itself: the functions that move elements   *)
(* look their flock up once, and would go on with what has come to its     *)
(* address.                                                                *)
(***************************************************************************)
EXTENDS Integers, SequencesExt

CONSTANTS
  Variables, Pointeurs, Objets, Valeurs,
  Blocs,      \* what the collector gives
  Nul,        \* the null address
  Inconnu,    \* TYPE_INCONNU
  Aucun,      \* not a reference
  Indices,    \* 0 .. n: the subscripts a script uses
  Boites,     \* the lists given to BOITEAPINGOUINS
  Poids       \* Flottant() of each value

Hypotheses ==
  /\ Poids \in [Valeurs \cup {Inconnu} -> Nat]
  /\ Indices \subseteq Nat
  /\ Boites \subseteq Seq(Valeurs)
  /\ Variables \cap Pointeurs = {}
  /\ Aucun \notin [base : Objets, rang : Nat] \cup [Base : Objets, Decalage : Nat]
  /\ Nul \notin Blocs /\ Inconnu \notin Valeurs \cup Objets

VARIABLES
  m,          \* the memory: table, the value of each variable; l and v of each
              \* flock; bloc, the contents of each block
  ref,        \* r.Base and r.Decalage of each reference
  resultat,   \* the last value read
  natif       \* the variables of the function that runs without the mutex

vars == <<m, ref, resultat, natif>>

Repos == [etape |-> "repos"]

Init ==
  /\ m = [table |-> [x \in Variables |-> Inconnu],
          l |-> [o \in Objets |-> 0], v |-> [o \in Objets |-> Nul],
          bloc |-> [b \in Blocs |-> <<>>]]
  /\ ref = [p \in Pointeurs |-> Aucun]
  /\ resultat = Inconnu
  /\ natif = Repos

-----------------------------------------------------------------------------
(* The methods of tableauval and valeur, from memory to memory. *)

\* The elements of flock o.
Elements(n, o) == IF n.l[o] = 0 THEN <<>> ELSE SubSeq(n.bloc[n.v[o]], 1, n.l[o])

\* What Deref accepts: a variable, or a place of a flock that is there.
Lieux == Variables \cup {p \in Pointeurs : ref[p] # Aucun /\ ref[p].Decalage < m.l[ref[p].Base]}

Contenu(n, r) ==
  IF r \in Variables THEN n.table[r] ELSE n.bloc[n.v[ref[r].Base]][ref[r].Decalage + 1]

\* valeur::operator=.
Poser(n, r, w) ==
  IF r \in Variables THEN [n EXCEPT !.table[r] = w]
  ELSE [n EXCEPT !.bloc[n.v[ref[r].Base]][ref[r].Decalage + 1] = w]

\* Nothing leads to flock o: the collector may have taken it.
Libre(o) ==
  /\ resultat # o
  /\ \A x \in Variables : m.table[x] # o
  /\ \A p \in Pointeurs : ref[p] # Aucun => ref[p].Base # o
  /\ \A q \in Objets : ~ o \in ToSet(Elements(m, q))
  /\ natif # Repos => natif.o # o

\* The flock a function that starts with EnTableau works on.
Cible(r, o) == IF Contenu(m, r) \in Objets THEN o = Contenu(m, r) ELSE Libre(o)

\* Flock o has the elements s, in block b; the block it had is given back.
Installer(n, o, s, b) ==
  [n EXCEPT !.l[o] = Len(s), !.v[o] = b,
            !.bloc = [c \in Blocs |-> IF c = b THEN s ELSE IF c = n.v[o] THEN <<>> ELSE n.bloc[c]]]

\* new tableauval(): an object without elements.
Nouveau(n, o) == Installer(n, o, <<>>, Nul)

EnTableau(n, r, o) == IF Contenu(n, r) \in Objets THEN n ELSE Poser(Nouveau(n, o), r, o)

BlocsLibres(n) == {b \in Blocs : \A o \in Objets : n.v[o] # b}

\* GC_REALLOC stays where it is or takes another block.
Places(n, o) == BlocsLibres(n) \cup ({n.v[o]} \ {Nul})

\* GC_REALLOC(v, t * sizeof(valeur)) at b, then the loop that makes the new
\* elements.
Reallouer(n, o, t, b) ==
  LET avant == Elements(n, o)
  IN Installer(n, o, [k \in 1 .. t |-> IF k <= Len(avant) THEN avant[k] ELSE Inconnu], b)

\* tableauval::Dim.
Dim(n, o, t, b) == IF t # 0 THEN Reallouer(n, o, t, b) ELSE Installer(n, o, <<>>, Nul)

\* tableauval::Get and the growth of ObtRef.
Get(n, o, i, b) == IF i >= n.l[o] THEN Reallouer(n, o, i + 1, b) ELSE n

\* v[i] = w.
Mettre(n, o, i, w) == [n EXCEPT !.bloc[n.v[o]][i + 1] = w]

\* tableauval::Copier, into the new object q with block b.
CopierTableau(n, o, q, b) == Installer(n, q, Elements(n, o), b)

\* memmove of k elements from place i to place j.
Deplacer(n, o, j, i, k) ==
  [n EXCEPT !.bloc[n.v[o]] =
     [e \in DOMAIN @ |-> IF e - 1 \in j .. j + k - 1 THEN @[e - j + i] ELSE @[e]]]

-----------------------------------------------------------------------------
(* Instructions and functions that keep the mutex. *)

\* w is not the flock that r is a place of.
Ailleurs(r, w) == r \in Pointeurs => w # ref[r].Base

\* I_TABLEAUREF, I_CTABLEAUREF.
TableauRef(r, i, p) ==
  \E o \in Objets :
    /\ Cible(r, o)
    /\ LET n == EnTableau(m, r, o)
       IN \E b \in Places(n, o) : m' = Get(n, o, i, b)
    /\ ref' = [ref EXCEPT ![p] = [Base |-> o, Decalage |-> i]]
    /\ UNCHANGED resultat

\* The same with a subscript below 0: ObtRef throws, once r is a flock.
TableauRefNegatif(r) ==
  /\ \E o \in Objets : Cible(r, o) /\ m' = EnTableau(m, r, o)
  /\ UNCHANGED <<ref, resultat>>

\* What tableauval::ObtPtr leads to.  It accepts the place after the last one,
\* which may hold a flock just taken out.
ObtPtr(n, o, i) ==
  IF n.v[o] = Nul \/ i > n.l[o] THEN {Inconnu}
  ELSE IF i = n.l[o] THEN Valeurs \cup Objets \cup {Inconnu}
  ELSE {Elements(n, o)[i + 1]}

\* I_TABLEAUVAL, I_CTABLEAUVAL.
TableauVal(r, i) ==
  /\ resultat' \in IF Contenu(m, r) \in Objets THEN ObtPtr(m, Contenu(m, r), i) ELSE {Inconnu}
  /\ UNCHANGED <<m, ref>>

\* I_DEFINIR (CopieDe) and I_INSTANCEDE (operator=), from q to r.
Definir(r, q) ==
  LET w == Contenu(m, q)
  IN /\ \/ /\ w \in Objets
           /\ \E o \in Objets : \E b \in BlocsLibres(m) :
                Libre(o) /\ m' = Poser(CopierTableau(m, w, o, b), r, o)
        \/ w \notin Objets /\ m' = Poser(m, r, w)
     /\ UNCHANGED <<ref, resultat>>
InstanceDe(r, w) == Ailleurs(r, w) /\ m' = Poser(m, r, w) /\ UNCHANGED <<ref, resultat>>

LireRef(p) == p \in Lieux /\ resultat' = Contenu(m, p) /\ UNCHANGED <<m, ref>>

\* "++" on a reference.
Suivant(p) ==
  /\ p \in Lieux
  /\ ref' = [ref EXCEPT ![p].Decalage = @ + 1]
  /\ UNCHANGED <<m, resultat>>

\* biPremierPingouin; on an empty flock it would read a reference it has not
\* initialised.
PremierPingouin(p, r) ==
  /\ Contenu(m, r) \in Objets => m.l[Contenu(m, r)] # 0
  /\ ref' = [ref EXCEPT ![p] = IF Contenu(m, r) \in Objets
                               THEN [Base |-> Contenu(m, r), Decalage |-> 0] ELSE Aucun]
  /\ UNCHANGED <<m, resultat>>

\* biTab, into a variable.
BoiteAPingouins(x, s) ==
  /\ \E o \in Objets : \E b \in BlocsLibres(m) :
       Libre(o) /\ m' = Poser(Installer(m, o, s, IF s = <<>> THEN Nul ELSE b), x, o)
  /\ UNCHANGED <<ref, resultat>>

\* A function that changes the flock of r with F, at some block.
Changer(r, F(_, _, _)) ==
  \E o \in Objets :
    /\ Cible(r, o)
    /\ LET n == EnTableau(m, r, o)
       IN \E b \in Places(n, o) : m' = F(n, o, b)
    /\ UNCHANGED ref

\* The element the function returns: that of place I(l), if there is one.
Retourne(r, I(_)) ==
  LET e == IF Contenu(m, r) \in Objets THEN Elements(m, Contenu(m, r)) ELSE <<>>
  IN resultat' = IF I(Len(e)) \in 0 .. Len(e) - 1 THEN e[I(Len(e)) + 1] ELSE Inconnu

\* biPousse.
Pousse(r, w) ==
  /\ w # Contenu(m, r)
  /\ Changer(r, LAMBDA n, o, b : Mettre(Get(n, o, n.l[o], b), o, n.l[o], w))
  /\ UNCHANGED resultat

\* Mutant: the elements are moved before there is a place for the last one.
MoveAvantDim(n, o, b, w) ==
  Mettre(Dim(IF n.l[o] = 0 THEN n ELSE Deplacer(n, o, 1, 0, n.l[o] - 1), o, n.l[o] + 1, b), o, 0, w)

\* The body of biMetsDessous.
FaireDessous(n, o, b, w) ==
  Mettre(Deplacer(Dim(n, o, n.l[o] + 1, b), o, 1, 0, n.l[o]), o, 0, w)

MetsDessous(r, w) ==
  /\ w # Contenu(m, r)
  /\ Changer(r, LAMBDA n, o, b : FaireDessous(n, o, b, w))
  /\ UNCHANGED resultat

\* The element of place i leaves.
Retirer(n, o, i, b) ==
  IF i \in 0 .. n.l[o] - 1 THEN Dim(Deplacer(n, o, i, i + 1, n.l[o] - i - 1), o, n.l[o] - 1, b)
  ELSE n

\* biPlop.
Plop(r) ==
  /\ Retourne(r, LAMBDA t : t - 1)
  /\ Changer(r, LAMBDA n, o, b : Retirer(n, o, n.l[o] - 1, b))

\* biEnleveDessous.
EnleveDessous(r) ==
  /\ Retourne(r, LAMBDA t : 0)
  /\ Changer(r, LAMBDA n, o, b : Retirer(n, o, 0, b))

\* biEnleveMilieu.
EnleveMilieu(r, i) ==
  /\ Retourne(r, LAMBDA t : i)
  /\ Changer(r, LAMBDA n, o, b : Retirer(n, o, i, b))

Instruction ==
  \/ \E r \in Lieux :
       \/ Plop(r) \/ EnleveDessous(r) \/ TableauRefNegatif(r)
       \/ \E i \in Indices :
            TableauVal(r, i) \/ EnleveMilieu(r, i) \/ \E p \in Pointeurs : TableauRef(r, i, p)
       \/ \E w \in Valeurs \cup {resultat} : Pousse(r, w) \/ MetsDessous(r, w)
       \/ \E w \in Valeurs : InstanceDe(r, w)
       \/ \E q \in Lieux : Definir(r, q) \/ InstanceDe(r, Contenu(m, q))
       \/ \E p \in Pointeurs : PremierPingouin(p, r)
  \/ \E p \in Pointeurs : LireRef(p) \/ Suivant(p)
  \/ \E x \in Variables, s \in Boites : BoiteAPingouins(x, s)

Flottant(n, w) == IF w \in Objets THEN n.l[w] ELSE Poids[w]

\* All that a reader of flock o can find there.
Vu(n, o) == <<n.v[o], [k \in 1 .. n.l[o] |-> <<Elements(n, o)[k], Flottant(n, Elements(n, o)[k])>>]>>

\* A task executes an instruction; touche: the flock that a native function
\* reads is not what it was when it started.
ParUneTache ==
  /\ Instruction
  /\ natif' = IF natif = Repos THEN Repos
              ELSE [natif EXCEPT !.touche = @ \/ Vu(m', natif.o) # Vu(m, natif.o)]

-----------------------------------------------------------------------------
(* Functions that gave the mutex up: one action for each access to the       *)
(* flock.                                                                    *)

\* LireTableauValeurs, then the function: TableauPoids begins with the
\* address, Joindre with the length.
Appeler(r) ==
  /\ natif = Repos /\ Contenu(m, r) \in Objets
  /\ \E e \in {"adresse", "taille"} :
       natif' = [etape |-> e, o |-> Contenu(m, r), v |-> Nul, n |-> 0, i |-> 0,
                 total |-> 0, t2 |-> 0, h |-> 0, dest |-> <<>>, touche |-> FALSE]
  /\ UNCHANGED <<m, ref, resultat>>

\* What is at place i from the address v: anything if the flock is not there
\* any more, or does not go that far.
Acces ==
  IF natif.v # Nul /\ m.v[natif.o] = natif.v /\ natif.i < m.l[natif.o]
  THEN {m.bloc[natif.v][natif.i + 1]} ELSE Valeurs \cup {Inconnu}

\* One step of the function: its variables become n.
Etape(e, n) == natif.etape = e /\ natif' = n /\ UNCHANGED <<m, ref, resultat>>

\* biTableauPoids: the address, the number, the sum of the weights, then the
\* address again for a second pass with the same number.
Adresse == Etape("adresse", [natif EXCEPT !.v = m.v[natif.o], !.etape = "nombre"])
Nombre == Etape("nombre", [natif EXCEPT !.n = m.l[natif.o], !.etape = "somme"])
Somme ==
  /\ natif # Repos /\ natif.i < natif.n
  /\ \E w \in Acces :
       Etape("somme", [natif EXCEPT !.total = @ + Flottant(m, w), !.i = @ + 1])
Tirage ==
  /\ natif # Repos /\ natif.i = natif.n
  /\ \E h \in 0 .. natif.total :
       Etape("somme", [natif EXCEPT !.h = h, !.v = m.v[natif.o], !.i = 0, !.etape = "choix"])

\* Mutant: a sum that reaches the number drawn goes on to the next element.
AtteintApres(t2) == t2 > natif.h

Atteint(t2) == t2 >= natif.h

Choix ==
  \/ /\ natif # Repos /\ natif.i < natif.n
     /\ \E w \in Acces :
          LET t2 == natif.t2 + Flottant(m, w)
          IN Etape("choix", IF Atteint(t2) THEN [natif EXCEPT !.etape = "entier"]
                            ELSE [natif EXCEPT !.t2 = t2, !.i = @ + 1])
  \/ natif # Repos /\ natif.i = natif.n /\ Etape("choix", [natif EXCEPT !.etape = "entier"])

\* biJoindre, which copies the flock first: the length of the copy, its
\* block, the address, and as many elements as the flock has at each turn.
\* Writing or reading after the end of the copy: what follows is not modelled.
Taille == Etape("taille", [natif EXCEPT !.n = m.l[natif.o], !.etape = "place"])
Place ==
  Etape("place", [natif EXCEPT !.dest = [k \in 1 .. m.l[natif.o] |-> Inconnu], !.etape = "source"])
Source == Etape("source", [natif EXCEPT !.v = m.v[natif.o], !.etape = "copie"])
Copie ==
  /\ natif # Repos /\ natif.i < m.l[natif.o]
  /\ \E w \in Acces :
       Etape("copie", IF natif.i < Len(natif.dest)
                      THEN [natif EXCEPT !.dest[natif.i + 1] = w, !.i = @ + 1]
                      ELSE [natif EXCEPT !.etape = "deborde"])
Texte ==
  /\ natif # Repos /\ natif.i >= m.l[natif.o]
  /\ Etape("copie", [natif EXCEPT !.etape = IF natif.n <= Len(natif.dest) THEN "texte" ELSE "deborde"])

\* Retourner takes the mutex.
Retourner ==
  /\ natif.etape \in {"entier", "texte"}
  /\ natif' = Repos
  /\ UNCHANGED <<m, ref, resultat>>

Natif ==
  \/ \E r \in Lieux : Appeler(r)
  \/ Adresse \/ Nombre \/ Somme \/ Tirage \/ Choix
  \/ Taille \/ Place \/ Source \/ Copie \/ Texte
  \/ Retourner

Next == ParUneTache \/ Natif

Spec == Init /\ [][Next]_vars

-----------------------------------------------------------------------------
(* Properties. *)

\* The weights of the elements s, and the partial sums of weights p.
PoidsDe(n, s) == [k \in 1 .. Len(s) |-> Flottant(n, s[k])]
Sommes(p) ==
  LET somme[k \in 0 .. Len(p)] == IF k = 0 THEN 0 ELSE somme[k - 1] + p[k]
  IN somme

\* "choisi un entier au hasard en fonction du poids correspondant" (hasard.cpp),
\* "Joint les differents pingouins d'un troupeau" (chaines.cpp): on a flock
\* that no other task changed, the number drawn falls in the share of the
\* element that is returned, and the text has each element once, in order.
NatifsJustes ==
  natif # Repos /\ ~natif.touche =>
    LET e == Elements(m, natif.o)
        somme == Sommes(PoidsDe(m, e))
    IN /\ natif.etape # "deborde"
       /\ natif.etape = "texte" => natif.n = Len(e) /\ natif.dest = e
       /\ natif.etape = "entier" /\ e # <<>> =>
            /\ natif.total = somme[Len(e)]
            /\ natif.i < Len(e) /\ natif.h <= somme[natif.i + 1]
            /\ natif.i > 0 => somme[natif.i] < natif.h

\* What the flocks stand for.
Abs == INSTANCE Listes WITH
         table <- m.table,
         liste <- [o \in Objets |-> Elements(m, o)],
         ref <- [p \in Pointeurs |-> IF ref[p] = Aucun THEN Aucun
                                      ELSE [base |-> ref[p].Base, rang |-> ref[p].Decalage]]

\* "Rajoute un element en bout de troupeau", "Enleve un element au milieu du
\* tableau": through blocks, reallocations and moves, the flocks are the
\* lists of Listes, and a reference designates a place of one of them.
AbsSpec == Abs!Spec
=============================================================================
