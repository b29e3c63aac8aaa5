---------------------------- MODULE Troupeaux_proof ----------------------------
(***************************************************************************)
(* Proofs about Troupeaux, for any flocks, blocks and values: however      *)
(* flocks grow, shrink, move and are copied, each has a block of its own,  *)
(* exactly as long as the flock.  The lemmas say it of each method of      *)
(* tableauval, from memory to memory; every instruction is a sequence of   *)
(* methods.                                                                *)
(***************************************************************************)
EXTENDS Troupeaux, SequenceTheorems, FiniteSetTheorems, WellFoundedInduction, TLAPS

W == Objets \cup Valeurs \cup {Inconnu}

Memoires ==
  [table : [Variables -> W], l : [Objets -> Nat],
   v : [Objets -> Blocs \cup {Nul}], bloc : [Blocs -> Seq(W)]]

\* A flock that has a block has all of it; one that has none is empty.
Exacts(n) ==
  \A o \in Objets : n.l[o] = IF n.v[o] = Nul THEN 0 ELSE Len(n.bloc[n.v[o]])

\* Two flocks have no block in common.
Separes(n) == \A o, q \in Objets : n.v[o] = n.v[q] /\ n.v[o] # Nul => o = q

Sain(n) == n \in Memoires /\ Exacts(n) /\ Separes(n)

RefsJustes ==
  /\ ref \in [Pointeurs -> {Aucun} \cup [Base : Objets, Decalage : Nat]]
  /\ resultat \in W

\* The blocks of the flocks in memory, and the references that lead there.
BlocsSepares == Sain(m) /\ RefsJustes

\* What can be written to: a variable, or a place of a flock of memory n.
Accessible(n, r) ==
  \/ r \in Variables
  \/ r \in Pointeurs /\ ref[r] \in [Base : Objets, Decalage : Nat] /\ ref[r].Decalage < n.l[ref[r].Base]

-----------------------------------------------------------------------------
(* The methods. *)

\* What an instruction takes from the stack as an index is a natural number.
LEMMA Entiers == ASSUME Hypotheses, NEW i \in Indices PROVE i \in Nat /\ i \in Int
BY DEF Hypotheses

LEMMA ElementsJustes ==
  ASSUME Hypotheses, NEW n, Sain(n), NEW o \in Objets
  PROVE  /\ Elements(n, o) \in Seq(W) /\ Len(Elements(n, o)) = n.l[o]
         /\ \A k \in 1 .. n.l[o] : Elements(n, o)[k] = n.bloc[n.v[o]][k]
<1>1. CASE n.l[o] = 0
  BY <1>1 DEF Elements
<1>2. CASE n.l[o] # 0
  <2>1. n.v[o] \in Blocs /\ n.bloc[n.v[o]] \in Seq(W) /\ Len(n.bloc[n.v[o]]) = n.l[o] /\ n.l[o] \in Nat
    BY <1>2 DEF Sain, Exacts, Memoires
  <2>2. \A k \in 1 .. n.l[o] : n.bloc[n.v[o]][k] \in W
    BY <2>1
  <2>3. Elements(n, o) = SubSeq(n.bloc[n.v[o]], 1, n.l[o])
    BY <1>2 DEF Elements
  <2>. QED BY <1>2, <2>1, <2>2, <2>3, SubSeqProperties
<1>. QED BY <1>1, <1>2

\* Block b has the values s.
Ecrit(n, b, s) == [n EXCEPT !.bloc[b] = s]

\* From memory n to memory p, flock o gets the length t and no other changes.
Longueur(n, p, o, t) == \A q \in Objets : p.l[q] = IF q = o THEN t ELSE n.l[q]

\* Writing in a block without changing its length.
LEMMA Ecriture ==
  ASSUME Hypotheses, NEW n, Sain(n), NEW b \in Blocs, NEW s \in Seq(W), Len(s) = Len(n.bloc[b])
  PROVE  Sain(Ecrit(n, b, s)) /\ Ecrit(n, b, s).l = n.l /\ Ecrit(n, b, s).v = n.v
<1>. DEFINE p == Ecrit(n, b, s)
<1>1. p \in Memoires /\ p.l = n.l /\ p.v = n.v /\ p.bloc = [n.bloc EXCEPT ![b] = s]
  BY DEF Ecrit, Sain, Memoires
<1>. HIDE DEF p
<1>2. \A c \in Blocs : Len(p.bloc[c]) = Len(n.bloc[c])
  BY <1>1 DEF Sain, Memoires
<1>3. Sain(p)
  BY <1>1, <1>2 DEF Sain, Exacts, Separes, Memoires
<1>. QED BY <1>1, <1>3 DEF p

LEMMA MettreJuste ==
  ASSUME Hypotheses, NEW n, Sain(n), NEW o \in Objets, NEW i \in Nat, i < n.l[o], NEW w \in W
  PROVE  Sain(Mettre(n, o, i, w)) /\ Mettre(n, o, i, w).l = n.l /\ Mettre(n, o, i, w).v = n.v
<1>. DEFINE b == n.v[o]
            s == [n.bloc[b] EXCEPT ![i + 1] = w]
<1>1. b \in Blocs /\ n.bloc[b] \in Seq(W) /\ i + 1 \in 1 .. Len(n.bloc[b])
  BY DEF Sain, Exacts, Memoires
<1>2. s \in Seq(W) /\ Len(s) = Len(n.bloc[b])
  BY <1>1, ExceptSeq
<1>3. Mettre(n, o, i, w) = Ecrit(n, b, s)
  BY DEF Mettre, Ecrit
<1>. HIDE DEF b, s
<1>. QED BY <1>1, <1>2, <1>3, Ecriture

LEMMA PoserJuste ==
  ASSUME Hypotheses, NEW n, Sain(n), NEW r, Accessible(n, r), NEW w \in W
  PROVE  Sain(Poser(n, r, w)) /\ Poser(n, r, w).l = n.l /\ Poser(n, r, w).v = n.v
<1>1. CASE r \in Variables
  BY <1>1 DEF Poser, Sain, Exacts, Separes, Memoires
<1>2. CASE r \notin Variables
  <2>1. /\ ref[r].Base \in Objets /\ ref[r].Decalage \in Nat /\ ref[r].Decalage < n.l[ref[r].Base]
        /\ Poser(n, r, w) = Mettre(n, ref[r].Base, ref[r].Decalage, w)
    BY <1>2 DEF Accessible, Poser, Mettre
  <2>. QED BY <2>1, MettreJuste
<1>. QED BY <1>1, <1>2

\* memmove inside the elements of the flock.
LEMMA DeplacerJuste ==
  ASSUME Hypotheses, NEW n, Sain(n), NEW o \in Objets, n.l[o] # 0,
         NEW i \in Nat, NEW j \in Nat, NEW k \in Nat, i + k <= n.l[o]
  PROVE  /\ Sain(Deplacer(n, o, j, i, k))
         /\ Deplacer(n, o, j, i, k).l = n.l /\ Deplacer(n, o, j, i, k).v = n.v
<1>. DEFINE b == n.v[o]
            a == n.bloc[b]
            s == [e \in DOMAIN a |-> IF e - 1 \in j .. j + k - 1 THEN a[e - j + i] ELSE a[e]]
<1>1. b \in Blocs /\ a \in Seq(W) /\ Len(a) = n.l[o] /\ n.l[o] \in Nat
  BY DEF Sain, Exacts, Memoires
<1>2. DOMAIN a = 1 .. Len(a) /\ \A e \in 1 .. Len(a) : a[e] \in W
  BY <1>1
<1>3. \A e \in 1 .. Len(a) : e - 1 \in j .. j + k - 1 => e - j + i \in 1 .. Len(a)
  BY <1>1
<1>4. s \in [1 .. Len(a) -> W]
  BY <1>2, <1>3
<1>5. Deplacer(n, o, j, i, k) = Ecrit(n, b, s)
  BY DEF Deplacer, Ecrit
<1>. HIDE DEF b, s
<1>6. s \in Seq(W) /\ Len(s) = Len(a)
  BY <1>1, <1>4
<1>. QED BY <1>1, <1>5, <1>6, Ecriture

LEMMA PlacesLibres ==
  ASSUME Hypotheses, NEW n, Sain(n), NEW o \in Objets, NEW b \in Places(n, o)
  PROVE  b \in Blocs /\ b # Nul /\ \A q \in Objets \ {o} : n.v[q] # b
BY DEF Hypotheses, Sain, Separes, Memoires, Places, BlocsLibres

\* Other elements for flock o, in a block no other flock has.
LEMMA InstallerJuste ==
  ASSUME Hypotheses, NEW n, Sain(n), NEW o \in Objets, NEW s \in Seq(W), NEW b \in Blocs \cup {Nul},
         IF b = Nul THEN s = <<>> ELSE \A q \in Objets \ {o} : n.v[q] # b
  PROVE  /\ Sain(Installer(n, o, s, b))
         /\ Longueur(n, Installer(n, o, s, b), o, Len(s))
<1>. DEFINE f == [c \in Blocs |-> IF c = b THEN s ELSE IF c = n.v[o] THEN <<>> ELSE n.bloc[c]]
            p == Installer(n, o, s, b)
<1>1. n \in Memoires /\ f \in [Blocs -> Seq(W)] /\ Len(s) \in Nat
  BY EmptySeq DEF Sain, Memoires
<1>2. p = [n EXCEPT !.l[o] = Len(s), !.v[o] = b, !.bloc = f]
  BY DEF Installer
<1>3. p \in Memoires /\ p.l = [n.l EXCEPT ![o] = Len(s)] /\ p.v = [n.v EXCEPT ![o] = b] /\ p.bloc = f
  <2>. HIDE DEF f, p
  <2>. QED BY <1>1, <1>2 DEF Memoires
<1>. HIDE DEF p
<1>4. Separes(p)
  BY <1>3 DEF Hypotheses, Sain, Separes, Memoires
<1>5. Exacts(p)
  BY <1>3, EmptySeq DEF Hypotheses, Sain, Exacts, Separes, Memoires
<1>6. Longueur(n, p, o, Len(s))
  BY <1>3 DEF Longueur, Sain, Memoires
<1>. QED BY <1>3, <1>4, <1>5, <1>6 DEF Sain, p

LEMMA ReallouerJuste ==
  ASSUME Hypotheses, NEW n, Sain(n), NEW o \in Objets, NEW t \in Nat, NEW b \in Places(n, o)
  PROVE  /\ Sain(Reallouer(n, o, t, b))
         /\ Longueur(n, Reallouer(n, o, t, b), o, t)
<1>. DEFINE avant == Elements(n, o)
            apres == [k \in 1 .. t |-> IF k <= Len(avant) THEN avant[k] ELSE Inconnu]
<1>1. avant \in Seq(W) /\ Len(avant) \in Nat
  BY ElementsJustes
<1>2. apres \in [1 .. t -> W]
  BY <1>1 DEF W
<1>3. apres \in Seq(W) /\ Len(apres) = t
  BY <1>2
<1>4. Reallouer(n, o, t, b) = Installer(n, o, apres, b)
  BY DEF Reallouer
<1>. HIDE DEF apres
<1>. QED BY <1>3, <1>4, PlacesLibres, InstallerJuste

LEMMA DimJuste ==
  ASSUME Hypotheses, NEW n, Sain(n), NEW o \in Objets, NEW t \in Nat, NEW b \in Places(n, o)
  PROVE  Sain(Dim(n, o, t, b)) /\ Longueur(n, Dim(n, o, t, b), o, t)
<1>1. CASE t = 0
  <2>1. <<>> \in Seq(W) /\ Len(<<>>) = 0 /\ Nul \in Blocs \cup {Nul}
    BY EmptySeq
  <2>. QED BY <1>1, <2>1, InstallerJuste DEF Dim
<1>2. CASE t # 0
  BY <1>2, ReallouerJuste DEF Dim
<1>. QED BY <1>1, <1>2

LEMMA GetJuste ==
  ASSUME Hypotheses, NEW n, Sain(n), NEW o \in Objets, NEW i \in Nat, NEW b \in Places(n, o)
  PROVE  Sain(Get(n, o, i, b)) /\ Get(n, o, i, b).l[o] > i
<1>1. n.l \in [Objets -> Nat]
  BY DEF Sain, Memoires
<1>2. CASE i >= n.l[o]
  BY <1>1, <1>2, ReallouerJuste DEF Get, Longueur
<1>3. CASE ~(i >= n.l[o])
  BY <1>1, <1>3 DEF Get
<1>. QED BY <1>2, <1>3

\* biMetsDessous and the functions that remove an element.
LEMMA FaireDessousJuste ==
  ASSUME Hypotheses, NEW n, Sain(n), NEW o \in Objets, NEW b \in Places(n, o), NEW w \in W
  PROVE  Sain(FaireDessous(n, o, b, w))
<1>. DEFINE t == n.l[o]
            p == Dim(n, o, t + 1, b)
            q == Deplacer(p, o, 1, 0, t)
<1>1. t \in Nat /\ n.l \in [Objets -> Nat]
  BY DEF Sain, Memoires
<1>2. Sain(p) /\ p.l[o] = t + 1
  <2>1. t + 1 \in Nat
    BY <1>1
  <2>. HIDE DEF t
  <2>. QED BY <2>1, DimJuste DEF Longueur
<1>. HIDE DEF p
<1>3. Sain(q) /\ q.l = p.l
  <2>. DEFINE i == 0
              j == 1
  <2>1. i \in Nat /\ j \in Nat /\ p.l[o] # 0 /\ i + t <= p.l[o]
    BY <1>1, <1>2
  <2>2. q = Deplacer(p, o, j, i, t)
    OBVIOUS
  <2>. HIDE DEF t, q, i, j
  <2>. QED BY <1>1, <1>2, <2>1, <2>2, DeplacerJuste, SMTT(20)
<1>4. FaireDessous(n, o, b, w) = Mettre(q, o, 0, w)
  BY DEF FaireDessous, p
<1>. HIDE DEF q
<1>. QED BY <1>1, <1>2, <1>3, <1>4, MettreJuste

LEMMA RetirerJuste ==
  ASSUME Hypotheses, NEW n, Sain(n), NEW o \in Objets, NEW b \in Places(n, o), NEW i \in Int
  PROVE  Sain(Retirer(n, o, i, b))
<1>. DEFINE t == n.l[o]
            q == Deplacer(n, o, i, i + 1, t - i - 1)
<1>1. t \in Nat /\ n.l \in [Objets -> Nat]
  BY DEF Sain, Memoires
<1>2. CASE i \in 0 .. t - 1
  <2>1. i \in Nat /\ i + 1 \in Nat /\ t - i - 1 \in Nat /\ t - 1 \in Nat /\ t # 0
        /\ i + 1 + (t - i - 1) <= t
    BY <1>1, <1>2
  <2>2. Sain(q) /\ q.l = n.l /\ q.v = n.v
    BY <2>1, DeplacerJuste
  <2>3. Retirer(n, o, i, b) = Dim(q, o, t - 1, b)
    BY <1>2 DEF Retirer
  <2>. HIDE DEF q
  <2>4. b \in Places(q, o)
    BY <2>2 DEF Places, BlocsLibres
  <2>. QED BY <2>1, <2>2, <2>3, <2>4, DimJuste
<1>3. CASE i \notin 0 .. t - 1
  BY <1>3 DEF Retirer
<1>. QED BY <1>2, <1>3

-----------------------------------------------------------------------------
(* The instructions. *)

LEMMA LieuJuste ==
  ASSUME Hypotheses, BlocsSepares, NEW r \in Lieux
  PROVE  Accessible(m, r) /\ Contenu(m, r) \in W
<1>1. CASE r \in Variables
  BY <1>1 DEF Accessible, Contenu, BlocsSepares, Sain, Memoires
<1>2. CASE r \notin Variables
  <2>1. /\ r \in Pointeurs /\ ref[r] \in [Base : Objets, Decalage : Nat]
        /\ ref[r].Decalage < m.l[ref[r].Base]
    BY <1>2 DEF Lieux, BlocsSepares, RefsJustes
  <2>. DEFINE a == m.bloc[m.v[ref[r].Base]]
  <2>2. a \in Seq(W) /\ ref[r].Decalage + 1 \in 1 .. Len(a)
    <3>1. m.v[ref[r].Base] \in Blocs /\ m.l[ref[r].Base] = Len(a) /\ m.l[ref[r].Base] \in Nat
      BY <2>1 DEF BlocsSepares, Sain, Exacts, Memoires
    <3>. QED BY <2>1, <3>1 DEF BlocsSepares, Sain, Memoires
  <2>. QED BY <1>2, <2>1, <2>2 DEF Accessible, Contenu
<1>. QED BY <1>1, <1>2

LEMMA EnTableauJuste ==
  ASSUME Hypotheses, BlocsSepares, NEW r \in Lieux, NEW o \in Objets, Cible(r, o)
  PROVE  Sain(EnTableau(m, r, o))
<1>1. CASE Contenu(m, r) \in Objets
  BY <1>1 DEF EnTableau, BlocsSepares
<1>2. CASE Contenu(m, r) \notin Objets
  <2>. DEFINE n == Nouveau(m, o)
  <2>1. Libre(o) /\ Accessible(m, r)
    BY <1>2, LieuJuste DEF Cible
  <2>2. Sain(n) /\ Longueur(m, n, o, 0)
    <3>1. <<>> \in Seq(W) /\ Len(<<>>) = 0 /\ Nul \in Blocs \cup {Nul} /\ Sain(m)
      BY EmptySeq DEF BlocsSepares
    <3>. QED BY <3>1, InstallerJuste DEF Nouveau
  <2>3. Accessible(n, r)
    <3>. HIDE DEF n
    <3>1. r \in Pointeurs /\ r \notin Variables => ref[r].Base # o \/ ref[r] = Aucun
      BY <2>1 DEF Libre
    <3>2. r \notin Variables => r \in Pointeurs /\ ref[r] # Aucun
      BY DEF Lieux
    <3>. QED BY <2>1, <2>2, <3>1, <3>2 DEF Accessible, Longueur
  <2>4. EnTableau(m, r, o) = Poser(n, r, o)
    BY <1>2 DEF EnTableau
  <2>. HIDE DEF n
  <2>. QED BY <2>2, <2>3, <2>4, PoserJuste DEF W
<1>. QED BY <1>1, <1>2

\* The element a function returns is one of the flock.
LEMMA ElementRendu ==
  ASSUME Hypotheses, BlocsSepares, NEW r \in Lieux, NEW i \in Int,
         NEW e, e = IF Contenu(m, r) \in Objets THEN Elements(m, Contenu(m, r)) ELSE <<>>
  PROVE  (IF i \in 0 .. Len(e) - 1 THEN e[i + 1] ELSE Inconnu) \in W
<1>1. e \in Seq(W)
  BY ElementsJustes, EmptySeq DEF BlocsSepares
<1>2. i \in 0 .. Len(e) - 1 => e[i + 1] \in W
  BY <1>1
<1>. QED BY <1>2 DEF W

LEMMA InstructionJuste == Hypotheses /\ BlocsSepares /\ Instruction => BlocsSepares'
<1>. SUFFICES ASSUME Hypotheses, BlocsSepares, Instruction PROVE BlocsSepares'
  OBVIOUS
<1>. USE DEF BlocsSepares
<1>. DEFINE E(r) == IF Contenu(m, r) \in Objets THEN Elements(m, Contenu(m, r)) ELSE <<>>
<1>0. \A r \in Lieux : E(r) \in Seq(W) /\ Len(E(r)) \in Nat
  BY ElementsJustes, EmptySeq
<1>1. ASSUME NEW r \in Lieux, Plop(r) PROVE BlocsSepares'
  <2>1. PICK o \in Objets : /\ Cible(r, o)
                            /\ \E b \in Places(EnTableau(m, r, o), o) :
                                 m' = Retirer(EnTableau(m, r, o), o, EnTableau(m, r, o).l[o] - 1, b)
    BY <1>1 DEF Plop, Changer
  <2>2. Sain(EnTableau(m, r, o)) /\ EnTableau(m, r, o).l[o] - 1 \in Int
    BY <2>1, EnTableauJuste DEF Sain, Memoires
  <2>3. Sain(m')
    BY <2>1, <2>2, RetirerJuste
  <2>4. resultat' = IF Len(E(r)) - 1 \in 0 .. Len(E(r)) - 1 THEN E(r)[Len(E(r)) - 1 + 1] ELSE Inconnu
    BY <1>1 DEF Plop, Retourne
  <2>5. Len(E(r)) - 1 \in Int
    BY <1>0
  <2>6. resultat' \in W
    <3>. HIDE DEF E
    <3>. QED BY <2>4, <2>5, ElementRendu DEF E
  <2>. QED BY <1>1, <2>3, <2>6 DEF Plop, Changer, RefsJustes
<1>2. ASSUME NEW r \in Lieux, EnleveDessous(r) PROVE BlocsSepares'
  <2>1. PICK o \in Objets : /\ Cible(r, o)
                            /\ \E b \in Places(EnTableau(m, r, o), o) :
                                 m' = Retirer(EnTableau(m, r, o), o, 0, b)
    BY <1>2 DEF EnleveDessous, Changer
  <2>2. Sain(m')
    BY <2>1, EnTableauJuste, RetirerJuste
  <2>3. resultat' = IF 0 \in 0 .. Len(E(r)) - 1 THEN E(r)[0 + 1] ELSE Inconnu
    BY <1>2 DEF EnleveDessous, Retourne
  <2>4. resultat' \in W
    BY <2>3, ElementRendu
  <2>. QED BY <1>2, <2>2, <2>4 DEF EnleveDessous, Changer, RefsJustes
<1>3. ASSUME NEW r \in Lieux, NEW i \in Indices, EnleveMilieu(r, i) PROVE BlocsSepares'
  <2>1. PICK o \in Objets : /\ Cible(r, o)
                            /\ \E b \in Places(EnTableau(m, r, o), o) :
                                 m' = Retirer(EnTableau(m, r, o), o, i, b)
    BY <1>3 DEF EnleveMilieu, Changer
  <2>2. i \in Int
    BY Entiers
  <2>3. Sain(m')
    BY <2>1, <2>2, EnTableauJuste, RetirerJuste
  <2>4. resultat' = IF i \in 0 .. Len(E(r)) - 1 THEN E(r)[i + 1] ELSE Inconnu
    BY <1>3 DEF EnleveMilieu, Retourne
  <2>5. resultat' \in W
    BY <2>2, <2>4, ElementRendu
  <2>. QED BY <1>3, <2>3, <2>5 DEF EnleveMilieu, Changer, RefsJustes
<1>4. ASSUME NEW r \in Lieux, TableauRefNegatif(r) PROVE BlocsSepares'
  BY <1>4, EnTableauJuste DEF TableauRefNegatif, RefsJustes
<1>5. ASSUME NEW r \in Lieux, NEW i \in Indices, TableauVal(r, i) PROVE BlocsSepares'
  <2>. DEFINE o == Contenu(m, r)
  <2>1. m' = m /\ ref' = ref /\ resultat' \in IF o \in Objets THEN ObtPtr(m, o, i) ELSE {Inconnu}
    BY <1>5 DEF TableauVal
  <2>2. i \in Nat
    BY Entiers
  <2>3. o \in Objets => ObtPtr(m, o, i) \subseteq W
    <3>. SUFFICES ASSUME o \in Objets PROVE ObtPtr(m, o, i) \subseteq W
      OBVIOUS
    <3>1. m.l[o] \in Nat /\ Elements(m, o) \in Seq(W) /\ Len(Elements(m, o)) = m.l[o]
      BY ElementsJustes DEF Sain, Memoires
    <3>2. i < m.l[o] => Elements(m, o)[i + 1] \in W
      BY <2>2, <3>1
    <3>. QED BY <2>2, <3>1, <3>2 DEF ObtPtr, W
  <2>4. resultat' \in W
    BY <2>1, <2>3 DEF W
  <2>. QED BY <2>1, <2>4 DEF RefsJustes
<1>6. ASSUME NEW r \in Lieux, NEW i \in Indices, NEW p \in Pointeurs, TableauRef(r, i, p)
      PROVE  BlocsSepares'
  <2>1. PICK o \in Objets : /\ Cible(r, o)
                            /\ \E b \in Places(EnTableau(m, r, o), o) :
                                 m' = Get(EnTableau(m, r, o), o, i, b)
                            /\ ref' = [ref EXCEPT ![p] = [Base |-> o, Decalage |-> i]]
    BY <1>6 DEF TableauRef
  <2>2. i \in Nat
    BY Entiers
  <2>3. Sain(m')
    BY <2>1, <2>2, EnTableauJuste, GetJuste
  <2>. QED BY <1>6, <2>1, <2>2, <2>3 DEF TableauRef, RefsJustes
<1>7. ASSUME NEW r \in Lieux, NEW w \in W, Pousse(r, w) PROVE BlocsSepares'
  <2>1. PICK o \in Objets : /\ Cible(r, o)
                            /\ \E b \in Places(EnTableau(m, r, o), o) :
                                 m' = Mettre(Get(EnTableau(m, r, o), o, EnTableau(m, r, o).l[o], b),
                                             o, EnTableau(m, r, o).l[o], w)
    BY <1>7 DEF Pousse, Changer
  <2>2. Sain(EnTableau(m, r, o)) /\ EnTableau(m, r, o).l[o] \in Nat
    BY <2>1, EnTableauJuste DEF Sain, Memoires
  <2>3. Sain(m')
    BY <2>1, <2>2, GetJuste, MettreJuste
  <2>. QED BY <1>7, <2>3 DEF Pousse, Changer, RefsJustes
<1>8. ASSUME NEW r \in Lieux, NEW w \in W, MetsDessous(r, w) PROVE BlocsSepares'
  <2>1. PICK o \in Objets : /\ Cible(r, o)
                            /\ \E b \in Places(EnTableau(m, r, o), o) :
                                 m' = FaireDessous(EnTableau(m, r, o), o, b, w)
    BY <1>8 DEF MetsDessous, Changer
  <2>2. Sain(m')
    BY <2>1, EnTableauJuste, FaireDessousJuste
  <2>. QED BY <1>8, <2>2 DEF MetsDessous, Changer, RefsJustes
<1>9. ASSUME NEW r \in Lieux, NEW w \in W, InstanceDe(r, w) PROVE BlocsSepares'
  BY <1>9, LieuJuste, PoserJuste DEF InstanceDe, RefsJustes
<1>10. ASSUME NEW r \in Lieux, NEW q \in Lieux, Definir(r, q) PROVE BlocsSepares'
  <2>. DEFINE w == Contenu(m, q)
  <2>1. w \in W /\ Accessible(m, r)
    BY LieuJuste
  <2>2. CASE w \notin Objets
    BY <1>10, <2>1, <2>2, PoserJuste DEF Definir, RefsJustes
  <2>3. CASE w \in Objets
    <3>1. PICK o \in Objets, b \in BlocsLibres(m) :
            Libre(o) /\ m' = Poser(CopierTableau(m, w, o, b), r, o)
      BY <1>10, <2>3 DEF Definir
    <3>. DEFINE n == CopierTableau(m, w, o, b)
    <3>2. Sain(n) /\ \A x \in Objets : x # o => n.l[x] = m.l[x]
      <4>1. b \in Blocs \cup {Nul} /\ b # Nul /\ \A x \in Objets \ {o} : m.v[x] # b
        BY DEF BlocsLibres, Hypotheses
      <4>2. Elements(m, w) \in Seq(W)
        BY <2>3, ElementsJustes
      <4>. QED BY <4>1, <4>2, InstallerJuste DEF CopierTableau, Longueur
    <3>3. Accessible(n, r)
      <4>. HIDE DEF n
      <4>1. r \notin Variables => r \in Pointeurs /\ ref[r] # Aucun
        BY DEF Lieux
      <4>. QED BY <2>1, <3>1, <3>2, <4>1 DEF Accessible, Libre
    <3>4. Sain(m')
      BY <3>1, <3>2, <3>3, PoserJuste DEF W
    <3>. QED BY <1>10, <3>4 DEF Definir, RefsJustes
  <2>. QED BY <2>2, <2>3
<1>11. ASSUME NEW r \in Lieux, NEW p \in Pointeurs, PremierPingouin(p, r) PROVE BlocsSepares'
  BY <1>11 DEF PremierPingouin, RefsJustes
<1>12. ASSUME NEW p \in Pointeurs, LireRef(p) PROVE BlocsSepares'
  BY <1>12, LieuJuste DEF LireRef, RefsJustes
<1>13. ASSUME NEW p \in Pointeurs, Suivant(p) PROVE BlocsSepares'
  <2>1. CASE ref[p] = Aucun
    BY <1>13, <2>1 DEF Suivant, Lieux, Hypotheses
  <2>2. CASE ref[p] # Aucun
    BY <1>13, <2>2 DEF Suivant, RefsJustes
  <2>. QED BY <2>1, <2>2
<1>14. ASSUME NEW x \in Variables, NEW s \in Boites, BoiteAPingouins(x, s) PROVE BlocsSepares'
  <2>. DEFINE A(b) == IF s = <<>> THEN Nul ELSE b
  <2>1. PICK o \in Objets, b \in BlocsLibres(m) : m' = Poser(Installer(m, o, s, A(b)), x, o)
    BY <1>14 DEF BoiteAPingouins
  <2>2. s \in Seq(W)
    BY DEF Hypotheses, W
  <2>3. A(b) \in Blocs \cup {Nul} /\ IF A(b) = Nul THEN s = <<>> ELSE \A q \in Objets \ {o} : m.v[q] # A(b)
    BY DEF BlocsLibres, Hypotheses
  <2>. HIDE DEF A
  <2>4. Sain(Installer(m, o, s, A(b)))
    BY <2>2, <2>3, InstallerJuste
  <2>5. Sain(m')
    BY <2>1, <2>4, PoserJuste DEF Accessible, W
  <2>. QED BY <1>14, <2>5 DEF BoiteAPingouins, RefsJustes
<1>. QED BY <1>1, <1>2, <1>3, <1>4, <1>5, <1>6, <1>7, <1>8, <1>9, <1>10, <1>11, <1>12, <1>13, <1>14,
            LieuJuste DEF Instruction, RefsJustes, W

\* A native function reads; it does not write.
LEMMA EtapeJuste == Hypotheses /\ BlocsSepares /\ [Next]_vars => BlocsSepares'
<1>. SUFFICES ASSUME Hypotheses, BlocsSepares, [Next]_vars PROVE BlocsSepares'
  OBVIOUS
<1>1. CASE ParUneTache
  BY <1>1, InstructionJuste DEF ParUneTache
<1>2. CASE Natif
  <2>1. m' = m /\ ref' = ref /\ resultat' = resultat
    BY <1>2 DEF Natif, Appeler, Adresse, Nombre, Somme, Tirage, Choix, Taille, Place, Source, Copie,
                Texte, Retourner, Etape
  <2>. QED BY <2>1 DEF BlocsSepares, RefsJustes
<1>3. CASE UNCHANGED vars
  BY <1>3 DEF vars, BlocsSepares, RefsJustes
<1>. QED BY <1>1, <1>2, <1>3 DEF Next

\* Whatever the tasks do to the flocks, a flock has a block of its own, as
\* long as it has elements, and a reference leads to a flock: what
\* tableauval::Dim, Get, Copier and the functions of tableaux.cpp keep among
\* themselves.
THEOREM ChacunSonBloc == Hypotheses => (Spec => []BlocsSepares)
<1>. SUFFICES ASSUME Hypotheses PROVE Spec => []BlocsSepares
  OBVIOUS
<1>1. Init => BlocsSepares
  BY EmptySeq DEF Init, BlocsSepares, Sain, Exacts, Separes, Memoires, RefsJustes, W
<1>2. BlocsSepares /\ [Next]_vars => BlocsSepares'
  BY EtapeJuste
<1>. QED BY <1>1, <1>2, PTL DEF Spec

-----------------------------------------------------------------------------
(* The lists. *)

\* What the flocks of memory n stand for.
Listage(n) == [o \in Objets |-> Elements(n, o)]

\* The same, with the elements s for flock o.
Avec(n, o, s) == [Listage(n) EXCEPT ![o] = s]

\* The list s with t places; k elements of s, from place i on, at place j.
Ajuste(s, t) == [k \in 1 .. t |-> IF k <= Len(s) THEN s[k] ELSE Inconnu]
Deplaces(s, j, i, k) ==
  [e \in DOMAIN s |-> IF e - 1 \in j .. j + k - 1 THEN s[e - j + i] ELSE s[e]]

LEMMA ElementsDuBloc ==
  ASSUME Hypotheses, NEW n, Sain(n), NEW o \in Objets
  PROVE  Elements(n, o) = IF n.v[o] = Nul THEN <<>> ELSE n.bloc[n.v[o]]
<1>1. Elements(n, o) \in Seq(W) /\ Len(Elements(n, o)) = n.l[o]
      /\ \A k \in 1 .. n.l[o] : Elements(n, o)[k] = n.bloc[n.v[o]][k]
  BY ElementsJustes
<1>2. CASE n.v[o] = Nul
  BY <1>2 DEF Elements, Sain, Exacts
<1>3. CASE n.v[o] # Nul
  <2>1. n.bloc[n.v[o]] \in Seq(W) /\ Len(n.bloc[n.v[o]]) = n.l[o]
    BY <1>3 DEF Sain, Exacts, Memoires
  <2>2. Elements(n, o) = n.bloc[n.v[o]]
    <3>. HIDE DEF Elements
    <3>. QED BY <1>1, <2>1, SeqEqual
  <2>. QED BY <1>3, <2>2
<1>. QED BY <1>2, <1>3

LEMMA ListageInstaller ==
  ASSUME Hypotheses, NEW n, Sain(n), NEW o \in Objets, NEW s \in Seq(W), NEW b \in Blocs \cup {Nul},
         IF b = Nul THEN s = <<>> ELSE \A q \in Objets \ {o} : n.v[q] # b
  PROVE  /\ Listage(Installer(n, o, s, b)) = Avec(n, o, s)
         /\ Installer(n, o, s, b).table = n.table
<1>. DEFINE p == Installer(n, o, s, b)
<1>1. Sain(p)
  BY InstallerJuste
<1>2. /\ p.table = n.table /\ p.v = [n.v EXCEPT ![o] = b]
      /\ p.bloc = [c \in Blocs |-> IF c = b THEN s ELSE IF c = n.v[o] THEN <<>> ELSE n.bloc[c]]
  BY DEF Installer, Sain, Memoires
<1>. HIDE DEF p
<1>3. ASSUME NEW q \in Objets PROVE Elements(p, q) = IF q = o THEN s ELSE Elements(n, q)
  <2>1. Elements(p, q) = IF p.v[q] = Nul THEN <<>> ELSE p.bloc[p.v[q]]
    BY <1>1, ElementsDuBloc
  <2>2. CASE q = o
    BY <1>2, <2>1, <2>2 DEF Hypotheses, Sain, Memoires
  <2>3. CASE q # o
    <3>1. p.v[q] = n.v[q] /\ Elements(n, q) = IF n.v[q] = Nul THEN <<>> ELSE n.bloc[n.v[q]]
      BY <1>2, <2>3, ElementsDuBloc DEF Sain, Memoires
    <3>2. n.v[q] # Nul => n.v[q] \in Blocs /\ n.v[q] # b /\ n.v[q] # n.v[o]
      BY <2>3 DEF Sain, Separes, Memoires
    <3>. QED BY <1>2, <2>1, <2>3, <3>1, <3>2
  <2>. QED BY <2>2, <2>3
<1>4. Listage(p) = Avec(n, o, s)
  BY <1>3 DEF Listage, Avec
<1>. QED BY <1>2, <1>4 DEF p

LEMMA ListageEcrit ==
  ASSUME Hypotheses, NEW n, Sain(n), NEW o \in Objets, n.v[o] \in Blocs,
         NEW s \in Seq(W), Len(s) = Len(n.bloc[n.v[o]])
  PROVE  /\ Listage(Ecrit(n, n.v[o], s)) = Avec(n, o, s)
         /\ Ecrit(n, n.v[o], s).table = n.table
<1>. DEFINE p == Ecrit(n, n.v[o], s)
<1>1. Sain(p)
  BY Ecriture
<1>2. p.table = n.table /\ p.v = n.v /\ p.bloc = [n.bloc EXCEPT ![n.v[o]] = s]
  BY DEF Ecrit, Sain, Memoires
<1>. HIDE DEF p
<1>3. ASSUME NEW q \in Objets PROVE Elements(p, q) = IF q = o THEN s ELSE Elements(n, q)
  <2>1. /\ Elements(p, q) = IF p.v[q] = Nul THEN <<>> ELSE p.bloc[p.v[q]]
        /\ Elements(n, q) = IF n.v[q] = Nul THEN <<>> ELSE n.bloc[n.v[q]]
    BY <1>1, ElementsDuBloc
  <2>2. q # o /\ n.v[q] # Nul => n.v[q] # n.v[o] /\ n.v[q] \in Blocs
    BY DEF Sain, Separes, Memoires
  <2>. QED BY <1>2, <2>1, <2>2 DEF Hypotheses, Sain, Memoires
<1>4. Listage(p) = Avec(n, o, s)
  BY <1>3 DEF Listage, Avec
<1>. QED BY <1>2, <1>4 DEF p

LEMMA ListageMettre ==
  ASSUME Hypotheses, NEW n, Sain(n), NEW o \in Objets, NEW i \in Nat, i < n.l[o], NEW w \in W
  PROVE  /\ Listage(Mettre(n, o, i, w)) = Avec(n, o, [Elements(n, o) EXCEPT ![i + 1] = w])
         /\ Mettre(n, o, i, w).table = n.table
<1>. DEFINE s == [n.bloc[n.v[o]] EXCEPT ![i + 1] = w]
<1>1. n.v[o] \in Blocs /\ n.bloc[n.v[o]] \in Seq(W) /\ i + 1 \in 1 .. Len(n.bloc[n.v[o]])
  BY DEF Sain, Exacts, Memoires
<1>2. s \in Seq(W) /\ Len(s) = Len(n.bloc[n.v[o]])
  BY <1>1, ExceptSeq
<1>3. Mettre(n, o, i, w) = Ecrit(n, n.v[o], s)
  BY DEF Mettre, Ecrit
<1>4. s = [Elements(n, o) EXCEPT ![i + 1] = w]
  BY <1>1, ElementsDuBloc DEF Hypotheses
<1>. HIDE DEF s
<1>5. Listage(Ecrit(n, n.v[o], s)) = Avec(n, o, s) /\ Ecrit(n, n.v[o], s).table = n.table
  BY <1>1, <1>2, ListageEcrit
<1>. QED BY <1>3, <1>4, <1>5

LEMMA ListageDeplacer ==
  ASSUME Hypotheses, NEW n, Sain(n), NEW o \in Objets, n.l[o] # 0,
         NEW i \in Nat, NEW j \in Nat, NEW k \in Nat, i + k <= n.l[o]
  PROVE  /\ Listage(Deplacer(n, o, j, i, k)) = Avec(n, o, Deplaces(Elements(n, o), j, i, k))
         /\ Deplacer(n, o, j, i, k).table = n.table
<1>. DEFINE b == n.v[o]
            a == n.bloc[b]
            s == Deplaces(a, j, i, k)
<1>1. b \in Blocs /\ a \in Seq(W) /\ Len(a) = n.l[o] /\ n.l[o] \in Nat /\ Elements(n, o) = a
  BY ElementsDuBloc, ZenonT(40) DEF Hypotheses, Sain, Exacts, Memoires
<1>2. DOMAIN a = 1 .. Len(a) /\ \A e \in 1 .. Len(a) : a[e] \in W
  BY <1>1
<1>3. \A e \in 1 .. Len(a) : e - 1 \in j .. j + k - 1 => e - j + i \in 1 .. Len(a)
  BY <1>1
<1>4. s \in [1 .. Len(a) -> W]
  BY <1>2, <1>3 DEF Deplaces
<1>5. Deplacer(n, o, j, i, k) = Ecrit(n, b, s)
  BY DEF Deplacer, Ecrit, Deplaces
<1>. HIDE DEF s
<1>6. s \in Seq(W) /\ Len(s) = Len(a)
  BY <1>1, <1>4
<1>7. Listage(Ecrit(n, b, s)) = Avec(n, o, s) /\ Ecrit(n, b, s).table = n.table
  BY <1>1, <1>6, ListageEcrit
<1>. QED BY <1>1, <1>5, <1>7 DEF s

LEMMA ListagePoser ==
  ASSUME Hypotheses, NEW n, Sain(n), NEW r, Accessible(n, r), NEW w \in W
  PROVE  LET p == Poser(n, r, w)
         IN IF r \in Variables THEN p.table = [n.table EXCEPT ![r] = w] /\ Listage(p) = Listage(n)
            ELSE /\ p.table = n.table
                 /\ Listage(p) = [Listage(n) EXCEPT ![ref[r].Base][ref[r].Decalage + 1] = w]
<1>. DEFINE p == Poser(n, r, w)
<1>1. CASE r \in Variables
  <2>1. p.table = [n.table EXCEPT ![r] = w] /\ p.v = n.v /\ p.l = n.l /\ p.bloc = n.bloc
    BY <1>1 DEF Poser, Sain, Memoires
  <2>. HIDE DEF p
  <2>2. \A q \in Objets : Elements(p, q) = Elements(n, q)
    BY <2>1 DEF Elements
  <2>3. Listage(p) = Listage(n)
    BY <2>2 DEF Listage
  <2>. QED BY <1>1, <2>1, <2>3 DEF p
<1>2. CASE r \notin Variables
  <2>. DEFINE o == ref[r].Base
              i == ref[r].Decalage
  <2>1. o \in Objets /\ i \in Nat /\ i < n.l[o] /\ p = Mettre(n, o, i, w)
    BY <1>2 DEF Accessible, Poser, Mettre
  <2>2. p.table = n.table /\ Listage(p) = Avec(n, o, [Elements(n, o) EXCEPT ![i + 1] = w])
    <3>. HIDE DEF o, i, p
    <3>. QED BY <2>1, ListageMettre
  <2>3. Listage(n)[o] = Elements(n, o)
    BY <2>1 DEF Listage
  <2>. QED BY <1>2, <2>1, <2>2, <2>3 DEF Avec, Listage
<1>. QED BY <1>1, <1>2

LEMMA ListageReallouer ==
  ASSUME Hypotheses, NEW n, Sain(n), NEW o \in Objets, NEW t \in Nat, NEW b \in Places(n, o)
  PROVE  /\ Listage(Reallouer(n, o, t, b)) = Avec(n, o, Ajuste(Elements(n, o), t))
         /\ Reallouer(n, o, t, b).table = n.table
<1>. DEFINE avant == Elements(n, o)
            apres == Ajuste(avant, t)
<1>1. avant \in Seq(W) /\ Len(avant) \in Nat
  BY ElementsJustes
<1>2. apres \in [1 .. t -> W]
  BY <1>1 DEF W, Ajuste
<1>3. Reallouer(n, o, t, b) = Installer(n, o, apres, b)
  BY DEF Reallouer, Ajuste
<1>. HIDE DEF apres
<1>4. apres \in Seq(W)
  BY <1>2
<1>5. /\ Listage(Installer(n, o, apres, b)) = Avec(n, o, apres)
      /\ Installer(n, o, apres, b).table = n.table
  BY <1>4, PlacesLibres, ListageInstaller
<1>. QED BY <1>3, <1>5 DEF apres

LEMMA ListageDim ==
  ASSUME Hypotheses, NEW n, Sain(n), NEW o \in Objets, NEW t \in Nat, NEW b \in Places(n, o)
  PROVE  /\ Listage(Dim(n, o, t, b)) = Avec(n, o, Ajuste(Elements(n, o), t))
         /\ Dim(n, o, t, b).table = n.table
<1>1. CASE t = 0
  <2>. DEFINE s == <<>>
  <2>1. s \in Seq(W) /\ Nul \in Blocs \cup {Nul} /\ s = <<>>
    BY EmptySeq
  <2>2. Listage(Installer(n, o, s, Nul)) = Avec(n, o, s) /\ Installer(n, o, s, Nul).table = n.table
    <3>. HIDE DEF s
    <3>. QED BY <2>1, ListageInstaller
  <2>3. Ajuste(Elements(n, o), t) = <<>>
    BY <1>1 DEF Ajuste
  <2>4. Dim(n, o, t, b) = Installer(n, o, <<>>, Nul)
    BY <1>1 DEF Dim
  <2>. QED BY <2>2, <2>3, <2>4
<1>2. CASE t # 0
  <2>1. Dim(n, o, t, b) = Reallouer(n, o, t, b)
    BY <1>2 DEF Dim
  <2>. QED BY <2>1, ListageReallouer
<1>. QED BY <1>1, <1>2

\* ObtRef makes the list long enough.
LEMMA ListageGet ==
  ASSUME Hypotheses, NEW n, Sain(n), NEW o \in Objets, NEW i \in Nat, NEW b \in Places(n, o)
  PROVE  LET e == Elements(n, o)
         IN /\ Listage(Get(n, o, i, b)) =
                 Avec(n, o, e \o [k \in 1 .. i + 1 - Len(e) |-> Inconnu])
            /\ Get(n, o, i, b).table = n.table
<1>. DEFINE e == Elements(n, o)
            s == [k \in 1 .. i + 1 - Len(e) |-> Inconnu]
<1>1. e \in Seq(W) /\ Len(e) = n.l[o] /\ Len(e) \in Nat
  BY ElementsJustes
<1>2. CASE i >= n.l[o]
  <2>. DEFINE f == Ajuste(e, i + 1)
  <2>1. s \in Seq({Inconnu}) /\ Len(s) = i + 1 - Len(e)
    BY <1>1, <1>2
  <2>2. e \o s = f
    <3>1. s \in Seq(W) /\ \A k \in 1 .. Len(s) : s[k] = Inconnu
      BY <1>1, <1>2, <2>1 DEF W
    <3>2. f \in [1 .. i + 1 -> W]
      BY <1>1 DEF W, Ajuste
    <3>3. f \in Seq(W) /\ Len(f) = i + 1
      <4>. HIDE DEF f
      <4>. QED BY <3>2
    <3>. HIDE DEF e, s
    <3>4. e \o s \in Seq(W) /\ Len(e \o s) = i + 1
      BY <1>1, <2>1, <3>1, ConcatProperties, SMTT(20)
    <3>5. ASSUME NEW k \in 1 .. i + 1 PROVE (e \o s)[k] = f[k]
      <4>1. (e \o s)[k] = IF k <= Len(e) THEN e[k] ELSE s[k - Len(e)]
        <5>1. k \in 1 .. Len(e) + Len(s)
          BY <1>1, <2>1
        <5>. QED BY <1>1, <3>1, <5>1, ConcatProperties, Zenon
      <4>2. k > Len(e) => k - Len(e) \in 1 .. Len(s)
        BY <1>1, <2>1
      <4>. QED BY <1>1, <3>1, <4>1, <4>2 DEF Ajuste
    <3>. HIDE DEF f
    <3>. QED BY <3>3, <3>4, <3>5, SeqEqual
  <2>3. Listage(Reallouer(n, o, i + 1, b)) = Avec(n, o, f)
        /\ Reallouer(n, o, i + 1, b).table = n.table
    BY ListageReallouer
  <2>4. Get(n, o, i, b) = Reallouer(n, o, i + 1, b)
    BY <1>2 DEF Get
  <2>. QED BY <2>2, <2>3, <2>4
<1>3. CASE ~(i >= n.l[o])
  <2>1. s = <<>>
    BY <1>1, <1>3
  <2>2. e \o s = e
    <3>. HIDE DEF e, s
    <3>. QED BY <1>1, <2>1, ConcatEmptySeq
  <2>3. Avec(n, o, e) = Listage(n)
    BY DEF Listage, Avec
  <2>4. Get(n, o, i, b) = n
    BY <1>3 DEF Get
  <2>. QED BY <2>2, <2>3, <2>4
<1>. QED BY <1>2, <1>3

LEMMA Encore ==
  ASSUME NEW n, NEW q, NEW o \in Objets, NEW s, NEW t, Listage(q) = Avec(n, o, s)
  PROVE  Elements(q, o) = s /\ Avec(q, o, t) = Avec(n, o, t)
<1>1. Listage(q)[o] = Elements(q, o) /\ Avec(n, o, s)[o] = s
  BY DEF Listage, Avec
<1>2. Avec(q, o, t) = Avec(n, o, t)
  BY DEF Listage, Avec
<1>. QED BY <1>1, <1>2

LEMMA ListagePousse ==
  ASSUME Hypotheses, NEW n, Sain(n), NEW o \in Objets, NEW b \in Places(n, o), NEW w \in W
  PROVE  LET p == Mettre(Get(n, o, n.l[o], b), o, n.l[o], w)
         IN Listage(p) = Avec(n, o, Append(Elements(n, o), w)) /\ p.table = n.table
<1>. DEFINE e == Elements(n, o)
            t == n.l[o]
            q == Get(n, o, t, b)
            s == e \o [k \in 1 .. t + 1 - Len(e) |-> Inconnu]
<1>1. e \in Seq(W) /\ Len(e) = t /\ t \in Nat
  BY ElementsJustes DEF Sain, Memoires
<1>2. Sain(q) /\ q.l[o] > t /\ Listage(q) = Avec(n, o, s) /\ q.table = n.table
  <2>. HIDE DEF e
  <2>. QED BY <1>1, GetJuste, ListageGet DEF e
<1>3. [s EXCEPT ![t + 1] = w] = Append(e, w)
  <2>1. [k \in 1 .. t + 1 - Len(e) |-> Inconnu] = <<Inconnu>>
    BY <1>1
  <2>. DEFINE f == [s EXCEPT ![t + 1] = w]
  <2>2. s = Append(e, Inconnu)
    <3>. DEFINE u == [k \in 1 .. t + 1 - Len(e) |-> Inconnu]
    <3>1. s = e \o u /\ u = <<Inconnu>>
      BY <2>1
    <3>2. Inconnu \in W
      BY DEF W
    <3>. HIDE DEF e, s, u
    <3>. QED BY <1>1, <3>1, <3>2, AppendIsConcat
  <2>. HIDE DEF e, s
  <2>3. s \in Seq(W) /\ Len(s) = t + 1 /\ \A k \in 1 .. t : s[k] = e[k]
    BY <1>1, <2>2, AppendProperties DEF W
  <2>4. f \in Seq(W) /\ Len(f) = t + 1 /\ \A k \in 1 .. t + 1 : f[k] = IF k = t + 1 THEN w ELSE s[k]
    BY <1>1, <2>3, ExceptSeq
  <2>. DEFINE g == Append(e, w)
  <2>5. g \in Seq(W) /\ Len(g) = t + 1 /\ g[t + 1] = w /\ \A k \in 1 .. t : g[k] = e[k]
    BY <1>1, AppendProperties
  <2>. HIDE DEF f, g
  <2>6. ASSUME NEW k \in 1 .. t + 1 PROVE f[k] = g[k]
    <3>. HIDE DEF t
    <3>1. CASE k = t + 1
      BY <2>4, <2>5, <3>1
    <3>2. CASE k # t + 1
      <4>1. k \in 1 .. t
        BY <1>1, <3>2
      <4>. QED BY <2>3, <2>4, <2>5, <3>2, <4>1
    <3>. QED BY <3>1, <3>2
  <2>7. f = g
    BY <2>4, <2>5, <2>6, SeqEqual
  <2>. QED BY <2>7 DEF f, g
<1>. HIDE DEF q, s, t
<1>4. Listage(Mettre(q, o, t, w)) = Avec(q, o, [Elements(q, o) EXCEPT ![t + 1] = w])
      /\ Mettre(q, o, t, w).table = q.table
  BY <1>1, <1>2, ListageMettre
<1>5. Elements(q, o) = s /\ Avec(q, o, [s EXCEPT ![t + 1] = w]) = Avec(n, o, [s EXCEPT ![t + 1] = w])
  BY <1>2, Encore
<1>. QED BY <1>2, <1>3, <1>4, <1>5 DEF t, q

LEMMA ListageDessous ==
  ASSUME Hypotheses, NEW n, Sain(n), NEW o \in Objets, NEW b \in Places(n, o), NEW w \in W
  PROVE  LET p == FaireDessous(n, o, b, w)
         IN Listage(p) = Avec(n, o, <<w>> \o Elements(n, o)) /\ p.table = n.table
<1>. DEFINE e == Elements(n, o)
            t == n.l[o]
            p == Dim(n, o, t + 1, b)
            s == Ajuste(e, t + 1)
            q == Deplacer(p, o, 1, 0, t)
            f == Deplaces(s, 1, 0, t)
            g == [f EXCEPT ![0 + 1] = w]
<1>1. e \in Seq(W) /\ Len(e) = t /\ t \in Nat /\ t + 1 \in Nat
  BY ElementsJustes, SMTT(20) DEF Sain, Memoires
<1>2. Sain(p) /\ p.l[o] = t + 1 /\ Listage(p) = Avec(n, o, s) /\ p.table = n.table
  <2>1. Sain(p) /\ Longueur(n, p, o, t + 1)
    BY <1>1, DimJuste
  <2>2. Listage(p) = Avec(n, o, s) /\ p.table = n.table
    BY <1>1, ListageDim
  <2>. QED BY <2>1, <2>2 DEF Longueur
<1>3. Elements(p, o) = s
  <2>. HIDE DEF p, s
  <2>. QED BY <1>2, Encore
<1>4. Sain(q) /\ q.l = p.l /\ Listage(q) = Avec(p, o, f) /\ q.table = p.table
  <2>. DEFINE i == 0
              j == 1
  <2>1. i \in Nat /\ j \in Nat /\ p.l[o] # 0 /\ i + t <= p.l[o]
    BY <1>1, <1>2
  <2>2. q = Deplacer(p, o, j, i, t) /\ f = Deplaces(s, j, i, t)
    OBVIOUS
  <2>. HIDE DEF t, p, q, f, s, i, j
  <2>. QED BY <1>1, <1>2, <1>3, <2>1, <2>2, DeplacerJuste, ListageDeplacer
<1>5. Listage(Mettre(q, o, 0, w)) = Avec(q, o, [Elements(q, o) EXCEPT ![0 + 1] = w])
      /\ Mettre(q, o, 0, w).table = q.table
  <2>1. 0 < q.l[o]
    BY <1>1, <1>2, <1>4
  <2>. HIDE DEF q
  <2>. QED BY <1>4, <2>1, ListageMettre
<1>6. Elements(q, o) = f /\ Avec(q, o, g) = Avec(p, o, g) /\ Avec(p, o, g) = Avec(n, o, g)
  <2>. HIDE DEF p, q, s, f, g
  <2>. QED BY <1>2, <1>4, Encore
<1>7. g = <<w>> \o e
  <2>. HIDE DEF e, t
  <2>1. s \in [1 .. t + 1 -> W] /\ \A k \in 1 .. t : s[k] = e[k]
    BY <1>1 DEF W, Ajuste
  <2>. HIDE DEF s
  <2>2. f \in [1 .. t + 1 -> W] /\ \A k \in 2 .. t + 1 : f[k] = s[k - 1]
    BY <1>1, <2>1 DEF Deplaces
  <2>. HIDE DEF f
  <2>3. g \in [1 .. t + 1 -> W] /\ \A k \in 1 .. t + 1 : g[k] = IF k = 1 THEN w ELSE f[k]
    BY <1>1, <2>2
  <2>. HIDE DEF g
  <2>4. g \in Seq(W) /\ Len(g) = t + 1 /\ \A k \in 1 .. t + 1 : g[k] = IF k = 1 THEN w ELSE e[k - 1]
    BY <1>1, <2>1, <2>2, <2>3
  <2>5. <<w>> \in Seq(W) /\ Len(<<w>>) = 1 /\ <<w>>[1] = w
    OBVIOUS
  <2>. DEFINE h == <<w>> \o e
  <2>6. h \in Seq(W) /\ Len(h) = t + 1 /\ \A k \in 1 .. t + 1 : h[k] = IF k <= 1 THEN <<w>>[k] ELSE e[k - 1]
    BY <1>1, <2>5, ConcatProperties
  <2>. HIDE DEF h
  <2>7. \A k \in 1 .. Len(g) : g[k] = h[k]
    BY <1>1, <2>4, <2>5, <2>6
  <2>8. g = h
    BY <2>4, <2>6, <2>7, SeqEqual
  <2>. QED BY <2>8 DEF h
<1>8. FaireDessous(n, o, b, w) = Mettre(q, o, 0, w)
  BY DEF FaireDessous
<1>. HIDE DEF q, p, e, f
<1>. QED BY <1>2, <1>4, <1>5, <1>6, <1>7, <1>8 DEF e

LEMMA SansLui ==
  ASSUME NEW e, NEW j, j \in DOMAIN e
  PROVE  Abs!Sans(e, j) = SubSeq(e, 1, j - 1) \o SubSeq(e, j + 1, Len(e))
<1>1. Abs!Sans(e, j) = Abs!RemoveAt(e, j)
  BY DEF Abs!Sans
<1>. QED BY <1>1 DEF Abs!RemoveAt

LEMMA ListageRetirer ==
  ASSUME Hypotheses, NEW n, Sain(n), NEW o \in Objets, NEW b \in Places(n, o), NEW i \in Int
  PROVE  LET p == Retirer(n, o, i, b)
         IN Listage(p) = Avec(n, o, Abs!Sans(Elements(n, o), i + 1)) /\ p.table = n.table
<1>. DEFINE e == Elements(n, o)
            t == n.l[o]
            q == Deplacer(n, o, i, i + 1, t - i - 1)
            f == Deplaces(e, i, i + 1, t - i - 1)
            g == Ajuste(f, t - 1)
<1>1. e \in Seq(W) /\ Len(e) = t /\ t \in Nat
  BY ElementsJustes DEF Sain, Memoires
<1>2. CASE i \in 0 .. t - 1
  <2>1. i \in Nat /\ i + 1 \in Nat /\ t - i - 1 \in Nat /\ t - 1 \in Nat /\ t # 0
        /\ i + 1 + (t - i - 1) <= t
    BY <1>1, <1>2, SMTT(20)
  <2>2. Sain(q) /\ q.l = n.l /\ q.v = n.v /\ Listage(q) = Avec(n, o, f) /\ q.table = n.table
    <3>. DEFINE k == t - i - 1
    <3>1. k \in Nat /\ i + 1 + k <= t
      BY <2>1
    <3>. HIDE DEF k
    <3>. QED BY <2>1, <3>1, DeplacerJuste, ListageDeplacer DEF k
  <2>3. Retirer(n, o, i, b) = Dim(q, o, t - 1, b)
    BY <1>2 DEF Retirer
  <2>4. b \in Places(q, o)
    <3>. HIDE DEF q
    <3>. QED BY <2>2 DEF Places, BlocsLibres
  <2>5. /\ Listage(Dim(q, o, t - 1, b)) = Avec(q, o, Ajuste(Elements(q, o), t - 1))
        /\ Dim(q, o, t - 1, b).table = q.table
    <3>. HIDE DEF q
    <3>. QED BY <2>1, <2>2, <2>4, ListageDim
  <2>6. Elements(q, o) = f /\ Avec(q, o, g) = Avec(n, o, g)
    <3>. HIDE DEF q, f, g
    <3>. QED BY <2>2, Encore
  <2>7. g = Abs!Sans(e, i + 1)
    <3>. DEFINE d == SubSeq(e, 1, i)
                a == SubSeq(e, i + 2, Len(e))
                h == d \o a
    <3>. HIDE DEF e, t
    <3>1. f \in [1 .. t -> W] /\ \A k \in 1 .. t - 1 : f[k] = IF k <= i THEN e[k] ELSE e[k + 1]
      BY <1>1, <2>1 DEF Deplaces
    <3>. HIDE DEF f
    <3>2. g \in [1 .. t - 1 -> W] /\ \A k \in 1 .. t - 1 : g[k] = f[k]
      <4>1. Len(f) = t
        BY <1>1, <3>1
      <4>. QED BY <1>1, <3>1, <4>1 DEF Ajuste
    <3>. HIDE DEF g
    <3>3. g \in Seq(W) /\ Len(g) = t - 1
      BY <2>1, <3>2
    <3>4. d \in Seq(W) /\ Len(d) = i /\ \A k \in 1 .. i : d[k] = e[k]
      <4>1. 1 \in Int /\ i \in Int /\ \A k \in 1 .. i : e[k] \in W
        BY <1>1, <1>2
      <4>. QED BY <2>1, <4>1, SubSeqProperties
    <3>5. a \in Seq(W) /\ Len(a) = t - i - 1 /\ \A k \in 1 .. t - i - 1 : a[k] = e[i + 1 + k]
      <4>1. i + 2 \in Int /\ t \in Int /\ \A k \in i + 2 .. t : e[k] \in W
        BY <1>1, <2>1
      <4>2. /\ a \in Seq(W)
            /\ Len(a) = IF i + 2 <= t THEN t - (i + 2) + 1 ELSE 0
            /\ \A k \in 1 .. t - (i + 2) + 1 : a[k] = e[i + 2 + k - 1]
        BY <1>1, <4>1, SubSeqProperties
      <4>. QED BY <1>1, <1>2, <2>1, <4>2
    <3>. HIDE DEF d, a
    <3>6. h \in Seq(W) /\ Len(h) = t - 1 /\ \A k \in 1 .. t - 1 : h[k] = IF k <= i THEN d[k] ELSE a[k - i]
      <4>1. Len(d) + Len(a) = t - 1
        BY <1>1, <2>1, <3>4, <3>5
      <4>2. /\ h \in Seq(W) /\ Len(h) = Len(d) + Len(a)
            /\ \A k \in 1 .. Len(d) + Len(a) : h[k] = IF k <= Len(d) THEN d[k] ELSE a[k - Len(d)]
        BY <3>4, <3>5, ConcatProperties
      <4>. HIDE DEF h
      <4>. QED BY <3>4, <4>1, <4>2
    <3>7. \A k \in 1 .. t - 1 : g[k] = h[k]
      <4>. SUFFICES ASSUME NEW k \in 1 .. t - 1 PROVE g[k] = h[k]
        OBVIOUS
      <4>1. CASE k <= i
        BY <1>1, <2>1, <3>1, <3>2, <3>4, <3>6, <4>1
      <4>2. CASE ~(k <= i)
        <5>1. k - i \in 1 .. t - i - 1 /\ i + 1 + (k - i) = k + 1
          BY <1>1, <2>1, <4>2
        <5>. QED BY <3>1, <3>2, <3>5, <3>6, <4>2, <5>1
      <4>. QED BY <4>1, <4>2
    <3>. HIDE DEF h
    <3>8. g = h
      BY <3>3, <3>6, <3>7, SeqEqual
    <3>. DEFINE j == i + 1
    <3>9. j \in DOMAIN e /\ j - 1 = i /\ j + 1 = i + 2
      BY <1>1, <1>2, <2>1
    <3>. HIDE DEF j
    <3>10. Abs!Sans(e, j) = SubSeq(e, 1, j - 1) \o SubSeq(e, j + 1, Len(e))
      BY <3>9, SansLui
    <3>11. Abs!Sans(e, j) = h
      BY <3>9, <3>10 DEF h, d, a
    <3>. QED BY <3>8, <3>11 DEF j
  <2>. HIDE DEF q, f
  <2>. QED BY <2>2, <2>3, <2>5, <2>6, <2>7
<1>3. CASE i \notin 0 .. t - 1
  <2>1. Retirer(n, o, i, b) = n
    BY <1>3 DEF Retirer
  <2>2. i + 1 \notin DOMAIN e
    <3>. HIDE DEF e, t
    <3>. QED BY <1>1, <1>3
  <2>3. Abs!Sans(e, i + 1) = e
    <3>. HIDE DEF e
    <3>. QED BY <2>2 DEF Abs!Sans
  <2>4. Avec(n, o, e) = Listage(n)
    BY DEF Listage, Avec
  <2>. QED BY <2>1, <2>3, <2>4
<1>. QED BY <1>2, <1>3

-----------------------------------------------------------------------------
(* The refinement. *)

\* A flock is born: an object nothing led to gets some elements, r gets the
\* object, and then the elements become s.
LEMMA Naissance ==
  ASSUME Hypotheses, BlocsSepares, NEW r \in Lieux, NEW o \in Objets, Libre(o),
         NEW n, Sain(n), NEW t, Listage(n) = Avec(m, o, t), n.table = m.table, Accessible(n, r)
  PROVE  LET p == Poser(n, r, o)
         IN /\ Elements(p, o) = t
            /\ IF r \in Variables THEN p.table = [m.table EXCEPT ![r] = o] /\ Listage(p) = Avec(m, o, t)
               ELSE /\ p.table = m.table
                    /\ \A s : Avec(p, o, s) =
                         [[Listage(m) EXCEPT ![ref[r].Base][ref[r].Decalage + 1] = o] EXCEPT ![o] = s]
<1>. DEFINE p == Poser(n, r, o)
<1>1. IF r \in Variables THEN p.table = [n.table EXCEPT ![r] = o] /\ Listage(p) = Listage(n)
      ELSE /\ p.table = n.table
           /\ Listage(p) = [Listage(n) EXCEPT ![ref[r].Base][ref[r].Decalage + 1] = o]
  BY ListagePoser DEF W
<1>2. Listage(p)[o] = Elements(p, o) /\ Listage(n)[o] = t
  BY DEF Listage, Avec
<1>. HIDE DEF p
<1>3. CASE r \in Variables
  BY <1>1, <1>2, <1>3 DEF p
<1>4. CASE r \notin Variables
  <2>. DEFINE a == ref[r].Base
              i == ref[r].Decalage + 1
  <2>1. a \in Objets /\ a # o
    BY <1>4 DEF Accessible, Libre, Lieux
  <2>. HIDE DEF a, i
  <2>2. Listage(p) = [Avec(m, o, t) EXCEPT ![a][i] = o] /\ p.table = m.table
    BY <1>1, <1>4 DEF a, i
  <2>3. Elements(p, o) = t
    BY <1>2, <2>1, <2>2 DEF Avec, Listage
  <2>4. ASSUME NEW s PROVE Avec(p, o, s) = [[Listage(m) EXCEPT ![a][i] = o] EXCEPT ![o] = s]
    <3>. DEFINE x == Avec(p, o, s)
                y == [[Listage(m) EXCEPT ![a][i] = o] EXCEPT ![o] = s]
    <3>1. x = [[Avec(m, o, t) EXCEPT ![a][i] = o] EXCEPT ![o] = s]
      BY <2>2 DEF Avec
    <3>2. DOMAIN x = Objets /\ DOMAIN y = Objets
      BY <2>1 DEF Avec, Listage
    <3>3. ASSUME NEW q \in Objets PROVE x[q] = y[q]
      BY <2>1, <3>1 DEF Avec, Listage
    <3>4. x = [q \in Objets |-> x[q]] /\ y = [q \in Objets |-> y[q]]
      BY <3>2 DEF Avec, Listage
    <3>. QED BY <3>3, <3>4
  <2>. QED BY <1>4, <2>2, <2>3, <2>4 DEF p, a, i
<1>. QED BY <1>3, <1>4

LEMMA ListageEnTableau ==
  ASSUME Hypotheses, BlocsSepares, NEW r \in Lieux, NEW o \in Objets, Cible(r, o)
  PROVE  LET n == EnTableau(m, r, o)
         IN IF Contenu(m, r) \in Objets THEN o = Contenu(m, r) /\ n = m
            ELSE /\ Libre(o) /\ Elements(n, o) = <<>>
                 /\ IF r \in Variables
                    THEN n.table = [m.table EXCEPT ![r] = o] /\ Listage(n) = Avec(m, o, <<>>)
                    ELSE /\ n.table = m.table
                         /\ \A s : Avec(n, o, s) =
                              [[Listage(m) EXCEPT ![ref[r].Base][ref[r].Decalage + 1] = o] EXCEPT ![o] = s]
<1>1. CASE Contenu(m, r) \in Objets
  BY <1>1 DEF EnTableau, Cible
<1>2. CASE Contenu(m, r) \notin Objets
  <2>. DEFINE c == Nouveau(m, o)
  <2>1. Libre(o) /\ Accessible(m, r)
    BY <1>2, LieuJuste DEF Cible
  <2>2. Sain(c) /\ Longueur(m, c, o, 0) /\ Listage(c) = Avec(m, o, <<>>) /\ c.table = m.table
    <3>. DEFINE s == <<>>
    <3>1. s \in Seq(W) /\ Len(s) = 0 /\ s = <<>> /\ Nul \in Blocs \cup {Nul} /\ Sain(m)
          /\ c = Installer(m, o, s, Nul)
      BY EmptySeq DEF BlocsSepares, Nouveau
    <3>. HIDE DEF s, c
    <3>2. /\ Sain(Installer(m, o, s, Nul)) /\ Longueur(m, Installer(m, o, s, Nul), o, Len(s))
          /\ Listage(Installer(m, o, s, Nul)) = Avec(m, o, s) /\ Installer(m, o, s, Nul).table = m.table
      BY <3>1, InstallerJuste, ListageInstaller
    <3>. QED BY <3>1, <3>2
  <2>3. Accessible(c, r)
    <3>. HIDE DEF c
    <3>1. r \in Pointeurs /\ r \notin Variables => ref[r].Base # o \/ ref[r] = Aucun
      BY <2>1 DEF Libre
    <3>2. r \notin Variables => r \in Pointeurs /\ ref[r] # Aucun
      BY DEF Lieux
    <3>. QED BY <2>1, <2>2, <3>1, <3>2 DEF Accessible, Longueur
  <2>4. EnTableau(m, r, o) = Poser(c, r, o)
    BY <1>2 DEF EnTableau
  <2>. HIDE DEF c
  <2>5. LET p == Poser(c, r, o)
        IN /\ Elements(p, o) = <<>>
           /\ IF r \in Variables THEN p.table = [m.table EXCEPT ![r] = o] /\ Listage(p) = Avec(m, o, <<>>)
              ELSE /\ p.table = m.table
                   /\ \A s : Avec(p, o, s) =
                        [[Listage(m) EXCEPT ![ref[r].Base][ref[r].Decalage + 1] = o] EXCEPT ![o] = s]
    BY <2>1, <2>2, <2>3, Naissance
  <2>. QED BY <1>2, <2>1, <2>4, <2>5
<1>. QED BY <1>1, <1>2

\* What a place, a free object, the list of a flock are for Listes.
LEMMA Abstrait ==
  ASSUME Hypotheses, BlocsSepares
  PROVE  /\ \A r \in Lieux : r \in Abs!Lieux /\ Abs!Contenu(r) = Contenu(m, r)
         /\ \A o \in Objets : Libre(o) => Abs!Libre(o)
<1>. DEFINE R(p) == IF ref[p] = Aucun THEN Aucun ELSE [base |-> ref[p].Base, rang |-> ref[p].Decalage]
<1>0. \A o \in Objets : /\ Elements(m, o) \in Seq(W) /\ Len(Elements(m, o)) = m.l[o] /\ m.l[o] \in Nat
                         /\ \A k \in 1 .. m.l[o] : Elements(m, o)[k] = m.bloc[m.v[o]][k]
  BY ElementsJustes, SMTT(20) DEF BlocsSepares, Sain, Memoires
<1>1. ASSUME NEW p \in Pointeurs, ref[p] # Aucun
      PROVE  /\ ref[p].Base \in Objets /\ ref[p].Decalage \in Nat
             /\ R(p) # Aucun /\ R(p).base = ref[p].Base /\ R(p).rang = ref[p].Decalage
  <2>1. ref[p].Base \in Objets /\ ref[p].Decalage \in Nat
    BY <1>1 DEF BlocsSepares, RefsJustes
  <2>2. R(p) = [base |-> ref[p].Base, rang |-> ref[p].Decalage]
    BY <1>1
  <2>3. R(p) \in [base : Objets, rang : Nat]
    BY <2>1, <2>2
  <2>. QED BY <2>1, <2>2, <2>3 DEF Hypotheses
<1>2. ASSUME NEW r \in Lieux PROVE r \in Abs!Lieux /\ Abs!Contenu(r) = Contenu(m, r)
  <2>1. CASE r \in Variables
    BY <2>1 DEF Abs!Lieux, Abs!Contenu, Contenu
  <2>2. CASE r \notin Variables
    <3>. DEFINE o == ref[r].Base
                i == ref[r].Decalage
    <3>1. r \in Pointeurs /\ ref[r] # Aucun /\ i < m.l[o] /\ o \in Objets /\ i \in Nat
          /\ R(r) # Aucun /\ R(r).base = o /\ R(r).rang = i
      BY <1>1, <2>2 DEF Lieux
    <3>2. Len(Elements(m, o)) = m.l[o] /\ Elements(m, o)[i + 1] = m.bloc[m.v[o]][i + 1]
      BY <1>0, <3>1, SMTT(20)
    <3>. HIDE DEF R
    <3>3. r \in Abs!Lieux
      BY <3>1, <3>2 DEF Abs!Lieux, R
    <3>4. Abs!Contenu(r) = Elements(m, o)[i + 1]
      BY <2>2, <3>1 DEF Abs!Contenu, R
    <3>5. Contenu(m, r) = m.bloc[m.v[o]][i + 1]
      BY <2>2 DEF Contenu
    <3>. QED BY <3>2, <3>3, <3>4, <3>5
  <2>. QED BY <2>1, <2>2
<1>3. ASSUME NEW o \in Objets, Libre(o) PROVE Abs!Libre(o)
  <2>1. \A p \in Pointeurs : R(p) # Aucun => R(p).base # o
    BY <1>1, <1>3 DEF Libre
  <2>2. \A q \in Objets : \A k \in DOMAIN Elements(m, q) : Elements(m, q)[k] # o
    BY <1>3 DEF Libre, ToSet
  <2>3. resultat # o /\ \A x \in Variables : m.table[x] # o
    BY <1>3 DEF Libre
  <2>. QED BY <2>1, <2>2, <2>3 DEF Abs!Libre
<1>. QED BY <1>2, <1>3

LEMMA PontNaitre ==
  ASSUME Hypotheses, BlocsSepares, NEW r \in Lieux, NEW o \in Objets, Libre(o), NEW s,
         IF r \in Variables THEN m'.table = [m.table EXCEPT ![r] = o] /\ Listage(m') = Avec(m, o, s)
         ELSE /\ m'.table = m.table
              /\ Listage(m') = [[Listage(m) EXCEPT ![ref[r].Base][ref[r].Decalage + 1] = o] EXCEPT ![o] = s]
  PROVE  Abs!Naitre(r, o, s)
<1>1. Abs!Libre(o)
  BY Abstrait
<1>2. CASE r \in Variables
  BY <1>1, <1>2 DEF Abs!Naitre, Listage, Avec
<1>3. CASE r \notin Variables
  <2>1. r \in Pointeurs /\ ref[r] # Aucun
    BY <1>3 DEF Lieux
  <2>. QED BY <1>1, <1>3, <2>1 DEF Abs!Naitre, Listage
<1>. QED BY <1>2, <1>3

LEMMA PontModifier ==
  ASSUME Hypotheses, BlocsSepares, NEW r \in Lieux, NEW o \in Objets, Cible(r, o), NEW s,
         Listage(m') = Avec(EnTableau(m, r, o), o, s), m'.table = EnTableau(m, r, o).table
  PROVE  \/ /\ Abs!Contenu(r) = o /\ EnTableau(m, r, o) = m
            /\ Listage(m') = [Listage(m) EXCEPT ![o] = s] /\ m'.table = m.table
         \/ /\ ~Abs!EstTroupeau(r) /\ Elements(EnTableau(m, r, o), o) = <<>>
            /\ Abs!Naitre(r, o, s)
<1>. DEFINE n == EnTableau(m, r, o)
<1>1. Abs!Contenu(r) = Contenu(m, r)
  BY Abstrait
<1>2. CASE Contenu(m, r) \in Objets
  BY <1>1, <1>2, ListageEnTableau DEF Avec
<1>3. CASE Contenu(m, r) \notin Objets
  <2>1. /\ Libre(o) /\ Elements(n, o) = <<>>
        /\ IF r \in Variables THEN n.table = [m.table EXCEPT ![r] = o] /\ Listage(n) = Avec(m, o, <<>>)
           ELSE /\ n.table = m.table
                /\ \A t : Avec(n, o, t) =
                     [[Listage(m) EXCEPT ![ref[r].Base][ref[r].Decalage + 1] = o] EXCEPT ![o] = t]
    BY <1>3, ListageEnTableau
  <2>. HIDE DEF n
  <2>2. r \in Variables => Avec(n, o, s) = Avec(m, o, s)
    BY <2>1, Encore
  <2>3. Listage(m') = Avec(n, o, s) /\ m'.table = n.table
    BY DEF n
  <2>4. Abs!Naitre(r, o, s)
    BY <2>1, <2>2, <2>3, PontNaitre
  <2>5. ~Abs!EstTroupeau(r)
    BY <1>1, <1>3 DEF Abs!EstTroupeau
  <2>. QED BY <2>1, <2>4, <2>5 DEF n
<1>. QED BY <1>2, <1>3

\* What a function returns is what Listes returns for a place j of its list.
LEMMA PontElement ==
  ASSUME Hypotheses, BlocsSepares, NEW r \in Lieux, NEW i \in Int,
         NEW e, e = IF Contenu(m, r) \in Objets THEN Elements(m, Contenu(m, r)) ELSE <<>>
  PROVE  /\ e = IF Abs!EstTroupeau(r) THEN Listage(m)[Abs!Contenu(r)] ELSE <<>>
         /\ Len(e) \in Nat
         /\ (IF i \in 0 .. Len(e) - 1 THEN e[i + 1] ELSE Inconnu) = Abs!Element(e, i + 1)
<1>1. Abs!Contenu(r) = Contenu(m, r) /\ e = IF Abs!EstTroupeau(r) THEN Listage(m)[Abs!Contenu(r)] ELSE <<>>
  BY Abstrait DEF Abs!EstTroupeau, Listage
<1>2. e \in Seq(W)
  BY ElementsJustes, EmptySeq DEF BlocsSepares
<1>3. i + 1 \in DOMAIN e <=> i \in 0 .. Len(e) - 1
  BY <1>2
<1>4. Len(e) \in Nat
  BY <1>2
<1>. QED BY <1>1, <1>3, <1>4 DEF Abs!Element

LEMMA PlopAbstrait ==
  ASSUME Hypotheses, BlocsSepares, NEW r \in Lieux, Plop(r)
  PROVE  Abs!Plop(r)
<1>. DEFINE e == IF Contenu(m, r) \in Objets THEN Elements(m, Contenu(m, r)) ELSE <<>>
<1>1. PICK o \in Objets : /\ Cible(r, o)
                          /\ \E b \in Places(EnTableau(m, r, o), o) :
                               m' = Retirer(EnTableau(m, r, o), o, EnTableau(m, r, o).l[o] - 1, b)
  BY DEF Plop, Changer
<1>. DEFINE n == EnTableau(m, r, o)
            f == Elements(n, o)
            s == Abs!Sans(f, Len(f))
<1>2. Sain(n)
  BY <1>1, EnTableauJuste
<1>3. Listage(m') = Avec(n, o, s) /\ m'.table = n.table
  <2>. DEFINE i == n.l[o] - 1
  <2>. HIDE DEF n
  <2>1. i \in Int /\ i + 1 = Len(f)
    <3>1. n.l[o] \in Nat /\ Len(f) = n.l[o]
      BY <1>2, ElementsJustes DEF Sain, Memoires
    <3>. QED BY <3>1
  <2>2. \E b \in Places(n, o) : m' = Retirer(n, o, i, b)
    BY <1>1 DEF n
  <2>. HIDE DEF i
  <2>. QED BY <1>2, <2>1, <2>2, ListageRetirer
<1>4. \/ /\ Abs!Contenu(r) = o /\ f = Elements(m, o)
         /\ Listage(m') = [Listage(m) EXCEPT ![o] = s] /\ m'.table = m.table
      \/ ~Abs!EstTroupeau(r) /\ f = <<>> /\ Abs!Naitre(r, o, s)
  <2>. HIDE DEF s
  <2>. QED BY <1>1, <1>3, PontModifier
<1>. HIDE DEF n
<1>5. Abs!Modifier(r, o, LAMBDA t : Abs!Sans(t, Len(t)))
  BY <1>4 DEF Abs!Modifier, Listage
<1>6. e = (IF Abs!EstTroupeau(r) THEN Listage(m)[Abs!Contenu(r)] ELSE <<>>) /\ Len(e) \in Nat
  <2>. HIDE DEF e
  <2>. QED BY PontElement DEF e
<1>7. Abs!Rendre(r, LAMBDA t : Abs!Element(t, Len(t)))
  <2>. DEFINE i == Len(e) - 1
  <2>1. resultat' = IF i \in 0 .. Len(e) - 1 THEN e[i + 1] ELSE Inconnu
    BY DEF Plop, Retourne
  <2>2. i \in Int /\ i + 1 = Len(e)
    BY <1>6
  <2>3. resultat' = Abs!Element(e, i + 1)
    <3>. HIDE DEF e, i
    <3>. QED BY <2>1, <2>2, PontElement DEF e
  <2>4. resultat' = Abs!Element(e, Len(e))
    BY <2>2, <2>3
  <2>. HIDE DEF e
  <2>. QED BY <1>6, <2>4 DEF Abs!Rendre, Listage
<1>8. UNCHANGED ref
  BY DEF Plop, Changer
<1>. QED BY <1>5, <1>7, <1>8 DEF Abs!Plop, Abs!Enleve

LEMMA EnleveDessousAbstrait ==
  ASSUME Hypotheses, BlocsSepares, NEW r \in Lieux, EnleveDessous(r)
  PROVE  Abs!EnleveDessous(r)
<1>. DEFINE e == IF Contenu(m, r) \in Objets THEN Elements(m, Contenu(m, r)) ELSE <<>>
<1>1. PICK o \in Objets : /\ Cible(r, o)
                          /\ \E b \in Places(EnTableau(m, r, o), o) :
                               m' = Retirer(EnTableau(m, r, o), o, 0, b)
  BY DEF EnleveDessous, Changer
<1>. DEFINE n == EnTableau(m, r, o)
            f == Elements(n, o)
            s == Abs!Sans(f, 1)
<1>2. Sain(n)
  BY <1>1, EnTableauJuste
<1>3. 0 \in Int /\ 0 + 1 = 1
  OBVIOUS
<1>4. Listage(m') = Avec(n, o, s) /\ m'.table = n.table
  <2>1. \E b \in Places(n, o) : m' = Retirer(n, o, 0, b)
    BY <1>1 DEF n
  <2>. HIDE DEF n
  <2>. QED BY <1>2, <1>3, <2>1, ListageRetirer
<1>5. \/ /\ Abs!Contenu(r) = o /\ f = Elements(m, o)
         /\ Listage(m') = [Listage(m) EXCEPT ![o] = s] /\ m'.table = m.table
      \/ ~Abs!EstTroupeau(r) /\ f = <<>> /\ Abs!Naitre(r, o, s)
  <2>. HIDE DEF s
  <2>. QED BY <1>1, <1>4, PontModifier
<1>. HIDE DEF n
<1>6. Abs!Modifier(r, o, LAMBDA t : Abs!Sans(t, 1))
  BY <1>5 DEF Abs!Modifier, Listage
<1>7. Abs!Rendre(r, LAMBDA t : Abs!Element(t, 1))
  <2>1. resultat' = IF 0 \in 0 .. Len(e) - 1 THEN e[0 + 1] ELSE Inconnu
    BY DEF EnleveDessous, Retourne
  <2>2. resultat' = Abs!Element(e, 1) /\ e = (IF Abs!EstTroupeau(r) THEN Listage(m)[Abs!Contenu(r)] ELSE <<>>)
    <3>. HIDE DEF e
    <3>. QED BY <1>3, <2>1, PontElement DEF e
  <2>. HIDE DEF e
  <2>. QED BY <2>2 DEF Abs!Rendre, Listage
<1>8. UNCHANGED ref
  BY DEF EnleveDessous, Changer
<1>. QED BY <1>6, <1>7, <1>8 DEF Abs!EnleveDessous, Abs!Enleve

LEMMA EnleveMilieuAbstrait ==
  ASSUME Hypotheses, BlocsSepares, NEW r \in Lieux, NEW i \in Indices, EnleveMilieu(r, i)
  PROVE  Abs!EnleveMilieu(r, i)
<1>. DEFINE e == IF Contenu(m, r) \in Objets THEN Elements(m, Contenu(m, r)) ELSE <<>>
<1>1. PICK o \in Objets : /\ Cible(r, o)
                          /\ \E b \in Places(EnTableau(m, r, o), o) :
                               m' = Retirer(EnTableau(m, r, o), o, i, b)
  BY DEF EnleveMilieu, Changer
<1>. DEFINE n == EnTableau(m, r, o)
            f == Elements(n, o)
            s == Abs!Sans(f, i + 1)
<1>2. Sain(n)
  BY <1>1, EnTableauJuste
<1>3. i \in Int
  BY Entiers
<1>4. Listage(m') = Avec(n, o, s) /\ m'.table = n.table
  <2>1. \E b \in Places(n, o) : m' = Retirer(n, o, i, b)
    BY <1>1 DEF n
  <2>. HIDE DEF n
  <2>. QED BY <1>2, <1>3, <2>1, ListageRetirer
<1>5. \/ /\ Abs!Contenu(r) = o /\ f = Elements(m, o)
         /\ Listage(m') = [Listage(m) EXCEPT ![o] = s] /\ m'.table = m.table
      \/ ~Abs!EstTroupeau(r) /\ f = <<>> /\ Abs!Naitre(r, o, s)
  <2>. HIDE DEF s
  <2>. QED BY <1>1, <1>4, PontModifier
<1>. HIDE DEF n
<1>6. Abs!Modifier(r, o, LAMBDA t : Abs!Sans(t, i + 1))
  BY <1>5 DEF Abs!Modifier, Listage
<1>7. Abs!Rendre(r, LAMBDA t : Abs!Element(t, i + 1))
  <2>1. resultat' = IF i \in 0 .. Len(e) - 1 THEN e[i + 1] ELSE Inconnu
    BY DEF EnleveMilieu, Retourne
  <2>2. resultat' = Abs!Element(e, i + 1) /\ e = (IF Abs!EstTroupeau(r) THEN Listage(m)[Abs!Contenu(r)] ELSE <<>>)
    <3>. HIDE DEF e
    <3>. QED BY <1>3, <2>1, PontElement DEF e
  <2>. HIDE DEF e
  <2>. QED BY <2>2 DEF Abs!Rendre, Listage
<1>8. UNCHANGED ref
  BY DEF EnleveMilieu, Changer
<1>. QED BY <1>6, <1>7, <1>8 DEF Abs!EnleveMilieu, Abs!Enleve

LEMMA PousseAbstrait ==
  ASSUME Hypotheses, BlocsSepares, NEW r \in Lieux, NEW w \in W, Pousse(r, w)
  PROVE  Abs!Pousse(r, w)
<1>1. PICK o \in Objets : /\ Cible(r, o)
                          /\ \E b \in Places(EnTableau(m, r, o), o) :
                               m' = Mettre(Get(EnTableau(m, r, o), o, EnTableau(m, r, o).l[o], b),
                                           o, EnTableau(m, r, o).l[o], w)
  BY DEF Pousse, Changer
<1>. DEFINE n == EnTableau(m, r, o)
            f == Elements(n, o)
            s == Append(f, w)
<1>2. Sain(n)
  BY <1>1, EnTableauJuste
<1>3. Listage(m') = Avec(n, o, s) /\ m'.table = n.table
  BY <1>1, <1>2, ListagePousse
<1>4. \/ /\ Abs!Contenu(r) = o /\ f = Elements(m, o)
         /\ Listage(m') = [Listage(m) EXCEPT ![o] = s] /\ m'.table = m.table
      \/ ~Abs!EstTroupeau(r) /\ f = <<>> /\ Abs!Naitre(r, o, s)
  <2>. HIDE DEF s
  <2>. QED BY <1>1, <1>3, PontModifier
<1>. HIDE DEF n
<1>5. Abs!Modifier(r, o, LAMBDA t : Append(t, w))
  BY <1>4 DEF Abs!Modifier, Listage
<1>6. UNCHANGED <<ref, resultat>>
  BY DEF Pousse, Changer
<1>. QED BY <1>5, <1>6 DEF Abs!Pousse

LEMMA MetsDessousAbstrait ==
  ASSUME Hypotheses, BlocsSepares, NEW r \in Lieux, NEW w \in W, MetsDessous(r, w)
  PROVE  Abs!MetsDessous(r, w)
<1>1. PICK o \in Objets : /\ Cible(r, o)
                          /\ \E b \in Places(EnTableau(m, r, o), o) :
                               m' = FaireDessous(EnTableau(m, r, o), o, b, w)
  BY DEF MetsDessous, Changer
<1>. DEFINE n == EnTableau(m, r, o)
            f == Elements(n, o)
            s == <<w>> \o f
<1>2. Sain(n)
  BY <1>1, EnTableauJuste
<1>3. Listage(m') = Avec(n, o, s) /\ m'.table = n.table
  BY <1>1, <1>2, ListageDessous
<1>4. \/ /\ Abs!Contenu(r) = o /\ f = Elements(m, o)
         /\ Listage(m') = [Listage(m) EXCEPT ![o] = s] /\ m'.table = m.table
      \/ ~Abs!EstTroupeau(r) /\ f = <<>> /\ Abs!Naitre(r, o, s)
  <2>. HIDE DEF s
  <2>. QED BY <1>1, <1>3, PontModifier
<1>. HIDE DEF n
<1>5. Abs!Modifier(r, o, LAMBDA t : <<w>> \o t)
  BY <1>4 DEF Abs!Modifier, Listage
<1>6. UNCHANGED <<ref, resultat>>
  BY DEF MetsDessous, Changer
<1>. QED BY <1>5, <1>6 DEF Abs!MetsDessous

LEMMA TableauRefAbstrait ==
  ASSUME Hypotheses, BlocsSepares, NEW r \in Lieux, NEW i \in Indices, NEW p \in Pointeurs,
         TableauRef(r, i, p)
  PROVE  Abs!Designer(r, i, p)
<1>1. PICK o \in Objets : /\ Cible(r, o)
                          /\ \E b \in Places(EnTableau(m, r, o), o) : m' = Get(EnTableau(m, r, o), o, i, b)
                          /\ ref' = [ref EXCEPT ![p] = [Base |-> o, Decalage |-> i]]
                          /\ UNCHANGED resultat
  BY DEF TableauRef
<1>. DEFINE n == EnTableau(m, r, o)
            f == Elements(n, o)
            s == f \o [k \in 1 .. i + 1 - Len(f) |-> Inconnu]
<1>2. Sain(n) /\ i \in Nat
  BY <1>1, EnTableauJuste DEF Hypotheses
<1>3. Listage(m') = Avec(n, o, s) /\ m'.table = n.table
  BY <1>1, <1>2, ListageGet
<1>4. \/ /\ Abs!Contenu(r) = o /\ f = Elements(m, o)
         /\ Listage(m') = [Listage(m) EXCEPT ![o] = s] /\ m'.table = m.table
      \/ ~Abs!EstTroupeau(r) /\ f = <<>> /\ Abs!Naitre(r, o, s)
  <2>. HIDE DEF s
  <2>. QED BY <1>1, <1>3, PontModifier
<1>. HIDE DEF n
<1>5. Abs!Modifier(r, o, LAMBDA t : t \o [k \in 1 .. i + 1 - Len(t) |-> Inconnu])
  BY <1>4 DEF Abs!Modifier, Listage
<1>. DEFINE R(x) == [q \in Pointeurs |-> IF x[q] = Aucun THEN Aucun
                                         ELSE [base |-> x[q].Base, rang |-> x[q].Decalage]]
<1>6. R(ref') = [R(ref) EXCEPT ![p] = [base |-> o, rang |-> i]]
  <2>1. [Base |-> o, Decalage |-> i] # Aucun
    BY <1>2 DEF Hypotheses
  <2>2. ref \in [Pointeurs -> {Aucun} \cup [Base : Objets, Decalage : Nat]]
    BY DEF BlocsSepares, RefsJustes
  <2>. QED BY <1>1, <2>1, <2>2
<1>. QED BY <1>1, <1>5, <1>6 DEF Abs!Designer

\* The other instructions.
LEMMA FormerAbstrait ==
  ASSUME Hypotheses, BlocsSepares, NEW r \in Lieux, TableauRefNegatif(r)
  PROVE  Abs!Former(r)
<1>1. PICK o \in Objets : Cible(r, o) /\ m' = EnTableau(m, r, o) /\ UNCHANGED <<ref, resultat>>
  BY DEF TableauRefNegatif
<1>. DEFINE n == EnTableau(m, r, o)
            s == Elements(n, o)
<1>2. Listage(m') = Avec(n, o, s) /\ m'.table = n.table
  BY <1>1 DEF Avec, Listage
<1>3. \/ /\ Abs!Contenu(r) = o /\ s = Elements(m, o)
         /\ Listage(m') = [Listage(m) EXCEPT ![o] = s] /\ m'.table = m.table
      \/ ~Abs!EstTroupeau(r) /\ s = <<>> /\ Abs!Naitre(r, o, s)
  <2>. HIDE DEF s
  <2>1. \/ /\ Abs!Contenu(r) = o /\ n = m
           /\ Listage(m') = [Listage(m) EXCEPT ![o] = s] /\ m'.table = m.table
        \/ ~Abs!EstTroupeau(r) /\ Elements(n, o) = <<>> /\ Abs!Naitre(r, o, s)
    BY <1>1, <1>2, PontModifier
  <2>. QED BY <2>1 DEF s
<1>. HIDE DEF n
<1>4. Abs!Modifier(r, o, LAMBDA t : t)
  BY <1>3 DEF Abs!Modifier, Listage
<1>. QED BY <1>1, <1>4 DEF Abs!Former

LEMMA TableauValAbstrait ==
  ASSUME Hypotheses, BlocsSepares, NEW r \in Lieux, NEW i \in Indices, TableauVal(r, i)
  PROVE  Abs!Lire(r, i)
<1>. DEFINE o == Contenu(m, r)
<1>1. m' = m /\ ref' = ref /\ resultat' \in IF o \in Objets THEN ObtPtr(m, o, i) ELSE {Inconnu}
  BY DEF TableauVal
<1>2. Abs!Contenu(r) = o /\ (Abs!EstTroupeau(r) <=> o \in Objets) /\ i \in Nat
  BY Abstrait DEF Abs!EstTroupeau, Hypotheses
<1>. HIDE DEF o
<1>3. CASE o \notin Objets
  <2>1. Abs!Element(<<>>, i + 1) = Inconnu
    BY <1>2 DEF Abs!Element
  <2>. QED BY <1>1, <1>2, <1>3, <2>1 DEF Abs!Lire
<1>4. CASE o \in Objets
  <2>. DEFINE e == Elements(m, o)
  <2>1. e \in Seq(W) /\ Len(e) = m.l[o] /\ m.l[o] \in Nat /\ (m.v[o] = Nul => m.l[o] = 0)
    BY <1>4, ElementsJustes DEF BlocsSepares, Sain, Exacts, Memoires
  <2>. HIDE DEF e
  <2>2. resultat' \in {Abs!Element(e, i + 1)} \cup IF i = Len(e) THEN Valeurs \cup Objets \cup {Inconnu} ELSE {}
    <3>1. i + 1 \in DOMAIN e <=> i < Len(e)
      BY <1>2, <2>1
    <3>2. Abs!Element(e, i + 1) = IF i < Len(e) THEN e[i + 1] ELSE Inconnu
      BY <3>1 DEF Abs!Element
    <3>. QED BY <1>1, <1>2, <1>4, <2>1, <3>2 DEF ObtPtr, e
  <2>. QED BY <1>1, <1>2, <1>4, <2>2 DEF Abs!Lire, e
<1>. QED BY <1>3, <1>4

LEMMA PoserAbstrait ==
  ASSUME Hypotheses, BlocsSepares, NEW r \in Lieux, NEW w \in W, m' = Poser(m, r, w)
  PROVE  Abs!Poser(r, w)
<1>1. IF r \in Variables THEN m'.table = [m.table EXCEPT ![r] = w] /\ Listage(m') = Listage(m)
      ELSE /\ m'.table = m.table
           /\ Listage(m') = [Listage(m) EXCEPT ![ref[r].Base][ref[r].Decalage + 1] = w]
  BY LieuJuste, ListagePoser DEF BlocsSepares
<1>2. r \notin Variables => r \in Pointeurs /\ ref[r] # Aucun
  BY DEF Lieux
<1>. QED BY <1>1, <1>2 DEF Abs!Poser, Listage

LEMMA DefinirAbstrait ==
  ASSUME Hypotheses, BlocsSepares, NEW r \in Lieux, NEW q \in Lieux, Definir(r, q)
  PROVE  Abs!Copier(r, q)
<1>. DEFINE w == Contenu(m, q)
<1>1. w \in W /\ Accessible(m, r) /\ Abs!Contenu(q) = w /\ UNCHANGED <<ref, resultat>>
  BY LieuJuste, Abstrait DEF Definir
<1>2. CASE w \notin Objets
  <2>1. m' = Poser(m, r, w)
    BY <1>2 DEF Definir
  <2>. HIDE DEF w
  <2>2. Abs!Poser(r, w)
    BY <1>1, <2>1, PoserAbstrait
  <2>. QED BY <1>1, <1>2, <2>2 DEF Abs!Copier, Abs!EstTroupeau
<1>3. CASE w \in Objets
  <2>1. PICK o \in Objets, b \in BlocsLibres(m) : Libre(o) /\ m' = Poser(CopierTableau(m, w, o, b), r, o)
    BY <1>3 DEF Definir
  <2>. DEFINE n == CopierTableau(m, w, o, b)
              t == Elements(m, w)
  <2>2. Sain(n) /\ Longueur(m, n, o, Len(t)) /\ Listage(n) = Avec(m, o, t) /\ n.table = m.table
    <3>1. b \in Blocs \cup {Nul} /\ b # Nul /\ \A x \in Objets \ {o} : m.v[x] # b
      BY DEF BlocsLibres, Hypotheses
    <3>2. t \in Seq(W) /\ Sain(m)
      BY <1>3, ElementsJustes DEF BlocsSepares
    <3>. HIDE DEF t
    <3>. QED BY <3>1, <3>2, InstallerJuste, ListageInstaller DEF CopierTableau, t
  <2>3. Accessible(n, r)
    <3>. HIDE DEF n
    <3>1. r \notin Variables => r \in Pointeurs /\ ref[r] # Aucun
      BY DEF Lieux
    <3>. QED BY <1>1, <2>1, <2>2, <3>1 DEF Accessible, Libre, Longueur
  <2>. HIDE DEF n, t
  <2>4. /\ Elements(m', o) = t
        /\ IF r \in Variables THEN m'.table = [m.table EXCEPT ![r] = o] /\ Listage(m') = Avec(m, o, t)
           ELSE /\ m'.table = m.table
                /\ Avec(m', o, t) =
                     [[Listage(m) EXCEPT ![ref[r].Base][ref[r].Decalage + 1] = o] EXCEPT ![o] = t]
    <3>1. m' = Poser(n, r, o)
      BY <2>1 DEF n
    <3>. QED BY <2>1, <2>2, <2>3, <3>1, Naissance
  <2>5. Avec(m', o, t) = Listage(m')
    BY <2>4 DEF Avec, Listage
  <2>6. Abs!Naitre(r, o, t)
    BY <2>1, <2>4, <2>5, PontNaitre
  <2>7. Abs!EstTroupeau(q) /\ Listage(m)[Abs!Contenu(q)] = t
    BY <1>1, <1>3 DEF Abs!EstTroupeau, Listage, t
  <2>. QED BY <1>1, <2>6, <2>7 DEF Abs!Copier, Listage
<1>. QED BY <1>2, <1>3

LEMMA BoiteAbstraite ==
  ASSUME Hypotheses, BlocsSepares, NEW x \in Variables, NEW s \in Boites, BoiteAPingouins(x, s)
  PROVE  Abs!Boite(x, s)
<1>. DEFINE A(b) == IF s = <<>> THEN Nul ELSE b
<1>1. PICK o \in Objets, b \in BlocsLibres(m) :
        Libre(o) /\ m' = Poser(Installer(m, o, s, A(b)), x, o) /\ UNCHANGED <<ref, resultat>>
  BY DEF BoiteAPingouins
<1>2. s \in Seq(W) /\ Sain(m) /\ x \in Lieux
  BY DEF Hypotheses, W, BlocsSepares, Lieux
<1>3. A(b) \in Blocs \cup {Nul} /\ IF A(b) = Nul THEN s = <<>> ELSE \A q \in Objets \ {o} : m.v[q] # A(b)
  BY DEF BlocsLibres, Hypotheses
<1>. DEFINE n == Installer(m, o, s, A(b))
<1>. HIDE DEF A
<1>4. Sain(n) /\ Listage(n) = Avec(m, o, s) /\ n.table = m.table
  BY <1>2, <1>3, InstallerJuste, ListageInstaller
<1>. HIDE DEF n
<1>5. m'.table = [m.table EXCEPT ![x] = o] /\ Listage(m') = Avec(m, o, s)
  <2>1. Accessible(n, x) /\ m' = Poser(n, x, o)
    BY <1>1 DEF Accessible, n
  <2>2. x \in Variables
    OBVIOUS
  <2>3. IF x \in Variables THEN /\ Poser(n, x, o).table = [m.table EXCEPT ![x] = o]
                                /\ Listage(Poser(n, x, o)) = Avec(m, o, s)
        ELSE TRUE
    BY <1>1, <1>2, <1>4, <2>1, Naissance
  <2>. QED BY <2>1, <2>2, <2>3
<1>6. Abs!Naitre(x, o, s)
  BY <1>1, <1>2, <1>5, PontNaitre
<1>. QED BY <1>1, <1>6 DEF Abs!Boite

LEMMA PremierAbstrait ==
  ASSUME Hypotheses, BlocsSepares, NEW r \in Lieux, NEW p \in Pointeurs, PremierPingouin(p, r)
  PROVE  Abs!Premier(p, r)
<1>. DEFINE R(x) == [q \in Pointeurs |-> IF x[q] = Aucun THEN Aucun
                                         ELSE [base |-> x[q].Base, rang |-> x[q].Decalage]]
            c == Contenu(m, r)
<1>1. /\ c \in Objets => m.l[c] # 0
      /\ ref' = [ref EXCEPT ![p] = IF c \in Objets THEN [Base |-> c, Decalage |-> 0] ELSE Aucun]
      /\ UNCHANGED <<m, resultat>>
  BY DEF PremierPingouin
<1>2. Abs!Contenu(r) = c
  BY Abstrait
<1>3. c \in Objets => Listage(m)[c] # <<>>
  BY <1>1, ElementsJustes DEF BlocsSepares, Listage
<1>. HIDE DEF c
<1>4. R(ref') = [R(ref) EXCEPT ![p] = IF c \in Objets THEN [base |-> c, rang |-> 0] ELSE Aucun]
  <2>1. c \in Objets => [Base |-> c, Decalage |-> 0] # Aucun
    BY DEF Hypotheses
  <2>2. ref \in [Pointeurs -> {Aucun} \cup [Base : Objets, Decalage : Nat]]
    BY DEF BlocsSepares, RefsJustes
  <2>. QED BY <1>1, <2>1, <2>2
<1>. QED BY <1>1, <1>2, <1>3, <1>4 DEF Abs!Premier, Abs!EstTroupeau, Listage

LEMMA SuivantAbstrait ==
  ASSUME Hypotheses, BlocsSepares, NEW p \in Pointeurs, Suivant(p)
  PROVE  Abs!Suivant(p)
<1>. DEFINE R(x) == [q \in Pointeurs |-> IF x[q] = Aucun THEN Aucun
                                         ELSE [base |-> x[q].Base, rang |-> x[q].Decalage]]
<1>1. p \in Lieux /\ ref' = [ref EXCEPT ![p].Decalage = @ + 1] /\ UNCHANGED <<m, resultat>>
  BY DEF Suivant
<1>2. ref \in [Pointeurs -> {Aucun} \cup [Base : Objets, Decalage : Nat]] /\ ref[p] # Aucun
  BY <1>1 DEF BlocsSepares, RefsJustes, Lieux, Hypotheses
<1>. DEFINE d == [Base |-> ref[p].Base, Decalage |-> ref[p].Decalage + 1]
<1>3. ref[p].Base \in Objets /\ ref[p].Decalage \in Nat /\ ref' = [ref EXCEPT ![p] = d] /\ d # Aucun
  <2>1. ref[p] \in [Base : Objets, Decalage : Nat]
    BY <1>2
  <2>2. d \in [Base : Objets, Decalage : Nat]
    BY <2>1
  <2>3. ref' = [ref EXCEPT ![p] = d]
    <3>1. [ref[p] EXCEPT !.Decalage = @ + 1] = d
      BY <2>1
    <3>2. ref' = [ref EXCEPT ![p] = [ref[p] EXCEPT !.Decalage = @ + 1]]
      BY <1>1, <1>2
    <3>. QED BY <3>1, <3>2
  <2>. QED BY <2>1, <2>2, <2>3 DEF Hypotheses
<1>4. R(ref') = [R(ref) EXCEPT ![p].rang = @ + 1]
  BY <1>2, <1>3
<1>5. p \in Abs!Lieux
  BY <1>1, Abstrait
<1>. QED BY <1>1, <1>4, <1>5 DEF Abs!Suivant

LEMMA InstructionAbstraite == Hypotheses /\ BlocsSepares /\ Instruction => Abs!Next
<1>. SUFFICES ASSUME Hypotheses, BlocsSepares, Instruction PROVE Abs!Next
  OBVIOUS
<1>0. \A r \in Lieux : r \in Abs!Lieux /\ Abs!Contenu(r) = Contenu(m, r) /\ Contenu(m, r) \in W
  BY Abstrait, LieuJuste
<1>1. ASSUME NEW r \in Lieux, Plop(r) PROVE Abs!Next
  BY <1>0, <1>1, PlopAbstrait DEF Abs!Next
<1>2. ASSUME NEW r \in Lieux, EnleveDessous(r) PROVE Abs!Next
  BY <1>0, <1>2, EnleveDessousAbstrait DEF Abs!Next
<1>3. ASSUME NEW r \in Lieux, NEW i \in Indices, EnleveMilieu(r, i) PROVE Abs!Next
  BY <1>0, <1>3, EnleveMilieuAbstrait DEF Abs!Next
<1>4. ASSUME NEW r \in Lieux, TableauRefNegatif(r) PROVE Abs!Next
  BY <1>0, <1>4, FormerAbstrait DEF Abs!Next
<1>5. ASSUME NEW r \in Lieux, NEW i \in Indices, TableauVal(r, i) PROVE Abs!Next
  BY <1>0, <1>5, TableauValAbstrait DEF Abs!Next
<1>6. ASSUME NEW r \in Lieux, NEW i \in Indices, NEW p \in Pointeurs, TableauRef(r, i, p) PROVE Abs!Next
  BY <1>0, <1>6, TableauRefAbstrait DEF Abs!Next
<1>7. ASSUME NEW r \in Lieux, NEW w \in Valeurs \cup {resultat}, Pousse(r, w) \/ MetsDessous(r, w)
      PROVE  Abs!Next
  <2>1. w \in W
    BY DEF W, BlocsSepares, RefsJustes
  <2>. QED BY <1>0, <1>7, <2>1, PousseAbstrait, MetsDessousAbstrait DEF Abs!Next
<1>8. ASSUME NEW r \in Lieux, NEW w \in Valeurs, InstanceDe(r, w) PROVE Abs!Next
  <2>1. Abs!Ecrire(r, w)
    BY <1>8, PoserAbstrait DEF InstanceDe, Abs!Ecrire, W
  <2>. QED BY <1>0, <2>1 DEF Abs!Next
<1>9. ASSUME NEW r \in Lieux, NEW q \in Lieux, InstanceDe(r, Contenu(m, q)) PROVE Abs!Next
  <2>1. Abs!InstanceDe(r, q)
    BY <1>0, <1>9, PoserAbstrait DEF InstanceDe, Abs!InstanceDe
  <2>. QED BY <1>0, <2>1 DEF Abs!Next
<1>10. ASSUME NEW r \in Lieux, NEW q \in Lieux, Definir(r, q) PROVE Abs!Next
  BY <1>0, <1>10, DefinirAbstrait DEF Abs!Next
<1>11. ASSUME NEW r \in Lieux, NEW p \in Pointeurs, PremierPingouin(p, r) PROVE Abs!Next
  BY <1>0, <1>11, PremierAbstrait DEF Abs!Next
<1>12. ASSUME NEW p \in Pointeurs, LireRef(p) PROVE Abs!Next
  <2>1. Abs!LireRef(p)
    BY <1>0, <1>12 DEF LireRef, Abs!LireRef
  <2>. QED BY <2>1 DEF Abs!Next
<1>13. ASSUME NEW p \in Pointeurs, Suivant(p) PROVE Abs!Next
  BY <1>13, SuivantAbstrait DEF Abs!Next
<1>14. ASSUME NEW x \in Variables, NEW s \in Boites, BoiteAPingouins(x, s) PROVE Abs!Next
  BY <1>14, BoiteAbstraite DEF Abs!Next
<1>. QED BY <1>1, <1>2, <1>3, <1>4, <1>5, <1>6, <1>7, <1>8, <1>9, <1>10, <1>11, <1>12, <1>13, <1>14
         DEF Instruction

\* The flocks are the lists of Listes, whatever blocks they are in, wherever
\* GC_REALLOC moves them and whatever memmove does: an instruction is the
\* instruction of Listes of that name, and a native function, which reads
\* without the mutex, changes nothing.
THEOREM Raffinement == Hypotheses => (Spec => AbsSpec)
<1>. SUFFICES ASSUME Hypotheses PROVE Spec => AbsSpec
  OBVIOUS
<1>1. Init => Abs!Init
  BY DEF Init, Abs!Init, Elements
<1>2. BlocsSepares /\ [Next]_vars => [Abs!Next]_(Abs!vars)
  <2>. SUFFICES ASSUME BlocsSepares, [Next]_vars PROVE [Abs!Next]_(Abs!vars)
    OBVIOUS
  <2>1. CASE ParUneTache
    BY <2>1, InstructionAbstraite DEF ParUneTache
  <2>2. CASE Natif
    <3>1. m' = m /\ ref' = ref /\ resultat' = resultat
      BY <2>2 DEF Natif, Appeler, Adresse, Nombre, Somme, Tirage, Choix, Taille, Place, Source, Copie,
                  Texte, Retourner, Etape
    <3>. QED BY <3>1 DEF Abs!vars
  <2>3. CASE UNCHANGED vars
    BY <2>3 DEF vars, Abs!vars
  <2>. QED BY <2>1, <2>2, <2>3 DEF Next
<1>3. Spec => []BlocsSepares
  BY ChacunSonBloc
<1>. QED BY <1>1, <1>2, <1>3, PTL DEF Spec, AbsSpec, Abs!Spec
-----------------------------------------------------------------------------
(* The functions that gave the mutex up. *)

\* A set of natural numbers has a least element: the initial segments are
\* well-ordered by inclusion.
LEMMA PlusPetit ==
  ASSUME NEW S \in SUBSET Nat, S # {}
  PROVE  \E x \in S : \A y \in S : x <= y
<1>. DEFINE T == {0 .. x : x \in S}
<1>1. T \subseteq FiniteSubsetsOf(Nat) /\ T # {}
  <2>1. \A x \in S : IsFiniteSet(0 .. x) /\ 0 .. x \in SUBSET Nat
    BY FS_Interval
  <2>. QED BY <2>1 DEF FiniteSubsetsOf
<1>2. PICK t \in T : \A u \in T : ~ (<<u, t>> \in StrictSubsetOrdering(Nat))
  <2>. HIDE DEF T
  <2>. QED BY <1>1, FS_StrictSubsetOrderingWellFounded, WFMin
<1>3. PICK x \in S : t = 0 .. x
  OBVIOUS
<1>4. ASSUME NEW y \in S, y < x PROVE FALSE
  <2>1. 0 .. y \in T /\ 0 .. y \in SUBSET Nat /\ t \in SUBSET Nat
    BY <1>3
  <2>2. 0 .. y \subseteq t /\ x \in t /\ x \notin 0 .. y
    BY <1>3, <1>4
  <2>. QED BY <1>2, <2>1, <2>2 DEF StrictSubsetOrdering
<1>. QED BY <1>4

\* f is the table of the first partial sums of p, up to n.
Cumule(f, p, n) == f = [k \in 0 .. n |-> IF k = 0 THEN 0 ELSE f[k - 1] + p[k]]

\* There is one: of the lengths for which there would be none, the least
\* comes after one for which there is.
LEMMA CumuleExiste ==
  ASSUME NEW p \in Seq(Nat)
  PROVE  \E f \in [0 .. Len(p) -> Nat] : Cumule(f, p, Len(p))
<1>0. Len(p) \in Nat /\ \A k \in 1 .. Len(p) : p[k] \in Nat
  OBVIOUS
<1>. DEFINE S == {n \in 0 .. Len(p) : ~ \E f \in [0 .. n -> Nat] : Cumule(f, p, n)}
<1>1. SUFFICES ASSUME S # {} PROVE FALSE
  BY <1>0
<1>2. PICK n \in S : \A y \in S : n <= y
  <2>1. S \in SUBSET Nat
    BY <1>0
  <2>. HIDE DEF S
  <2>. QED BY <1>1, <2>1, PlusPetit
<1>3. CASE n = 0
  <2>1. [k \in 0 .. 0 |-> 0] \in [0 .. 0 -> Nat] /\ Cumule([k \in 0 .. 0 |-> 0], p, 0)
    BY DEF Cumule
  <2>. QED BY <1>2, <1>3, <2>1
<1>4. CASE n # 0
  <2>1. n - 1 \in 0 .. Len(p) /\ n \in Nat /\ n \in 1 .. Len(p) /\ p[n] \in Nat
    BY <1>0, <1>4
  <2>2. n - 1 \notin S
    <3>1. n - 1 \in S => n <= n - 1
      BY <1>2
    <3>. HIDE DEF S
    <3>. QED BY <2>1, <3>1
  <2>3. PICK f \in [0 .. n - 1 -> Nat] : Cumule(f, p, n - 1)
    BY <2>1, <2>2
  <2>. DEFINE g == [k \in 0 .. n |-> IF k = n THEN f[n - 1] + p[n] ELSE f[k]]
  <2>4. g \in [0 .. n -> Nat]
    BY <2>1
  <2>5. ASSUME NEW k \in 0 .. n PROVE g[k] = IF k = 0 THEN 0 ELSE g[k - 1] + p[k]
    <3>1. CASE k = n
      BY <1>4, <2>1, <3>1
    <3>2. CASE k # n
      <4>1. k \in 0 .. n - 1 /\ g[k] = f[k] /\ (k # 0 => g[k - 1] = f[k - 1])
        BY <2>1, <3>2
      <4>2. f[k] = IF k = 0 THEN 0 ELSE f[k - 1] + p[k]
        BY <2>3, <4>1 DEF Cumule
      <4>. QED BY <4>1, <4>2
    <3>. QED BY <3>1, <3>2
  <2>6. Cumule(g, p, n)
    <3>. HIDE DEF g
    <3>1. g = [k \in 0 .. n |-> g[k]]
      BY <2>4
    <3>. QED BY <2>5, <3>1 DEF Cumule
  <2>. QED BY <1>2, <2>4, <2>6
<1>. QED BY <1>3, <1>4

\* What the table of the partial sums is.
LEMMA SommesJustes ==
  ASSUME NEW p \in Seq(Nat)
  PROVE  /\ Sommes(p) \in [0 .. Len(p) -> Nat] /\ Sommes(p)[0] = 0
         /\ \A k \in 1 .. Len(p) : Sommes(p)[k] = Sommes(p)[k - 1] + p[k]
<1>1. Sommes(p) = CHOOSE f : Cumule(f, p, Len(p))
  BY DEF Sommes, Cumule
<1>2. PICK f \in [0 .. Len(p) -> Nat] : Cumule(f, p, Len(p))
  BY CumuleExiste
<1>. DEFINE g == Sommes(p)
            n == Len(p)
<1>3. Cumule(g, p, n)
  BY <1>1, <1>2
<1>. HIDE DEF g
<1>4. /\ n \in Nat /\ \A k \in 1 .. n : p[k] \in Nat
      /\ DOMAIN g = 0 .. n /\ g = [k \in 0 .. n |-> g[k]]
      /\ \A k \in 0 .. n : g[k] = IF k = 0 THEN 0 ELSE g[k - 1] + p[k]
      /\ \A k \in 0 .. n : f[k] = IF k = 0 THEN 0 ELSE f[k - 1] + p[k]
  BY <1>2, <1>3 DEF Cumule
<1>. DEFINE S == {k \in 0 .. n : g[k] # f[k]}
<1>5. S = {}
  <2>1. SUFFICES ASSUME S # {} PROVE FALSE
    OBVIOUS
  <2>2. PICK k \in S : \A y \in S : k <= y
    <3>1. S \in SUBSET Nat
      BY <1>4
    <3>. HIDE DEF S
    <3>. QED BY <2>1, <3>1, PlusPetit
  <2>3. k \in 0 .. n /\ g[k] # f[k] /\ (k - 1 \in S => k <= k - 1)
    BY <2>2
  <2>4. k # 0
    BY <1>4, <2>3
  <2>5. k - 1 \in 0 .. n /\ k - 1 \notin S
    <3>. HIDE DEF S
    <3>. QED BY <1>4, <2>3, <2>4
  <2>. QED BY <1>4, <2>3, <2>4, <2>5
<1>6. g \in [0 .. n -> Nat]
  <2>1. \A k \in 0 .. n : g[k] = f[k] /\ f[k] \in Nat
    BY <1>2, <1>5
  <2>. HIDE DEF S
  <2>. QED BY <1>4, <2>1
<1>7. \A k \in 1 .. n : k \in 0 .. n /\ k # 0
  BY <1>4
<1>8. g[0] = 0 /\ \A k \in 1 .. n : g[k] = g[k - 1] + p[k]
  <2>1. 0 \in 0 .. n
    BY <1>4
  <2>. QED BY <1>4, <1>7, <2>1
<1>. QED BY <1>6, <1>8 DEF g

\* What a native function has done so far, when no other task changed the
\* flock: e its elements, v its address, s the partial sums of its weights.
Suivi(x, e, v, s) ==
  /\ x.etape # "deborde"
  /\ x.etape \in {"adresse", "nombre", "taille", "place", "source"} => x.i = 0 /\ x.total = 0 /\ x.t2 = 0
  /\ x.etape \in {"nombre", "somme", "choix", "copie"} => x.v = v
  /\ x.etape \in {"somme", "choix", "entier", "place", "source", "copie", "texte"} => x.n = Len(e)
  /\ x.etape \in {"somme", "choix", "copie"} => x.i <= Len(e)
  /\ x.etape = "somme" => x.total = s[x.i] /\ x.t2 = 0
  /\ x.etape \in {"choix", "entier"} => x.total = s[Len(e)] /\ x.h <= x.total
  /\ x.etape = "choix" => x.t2 = s[x.i] /\ (x.i > 0 => s[x.i] < x.h)
  /\ x.etape = "entier" /\ e # <<>> =>
       x.i < Len(e) /\ x.h <= s[x.i + 1] /\ (x.i > 0 => s[x.i] < x.h)
  /\ x.etape \in {"source", "copie", "texte"} => Len(x.dest) = Len(e)
  /\ x.etape = "copie" => \A k \in 1 .. x.i : x.dest[k] = e[k]
  /\ x.etape = "texte" => x.dest = e

Etapes == {"adresse", "nombre", "somme", "choix", "entier", "taille", "place", "source", "copie",
           "texte", "deborde"}

\* The variables of a native function.
Natifs ==
  [etape : Etapes, o : Objets, v : Blocs \cup {Nul}, n : Nat, i : Nat, total : Nat, t2 : Nat,
   h : Nat, dest : Seq(W), touche : BOOLEAN]

SommesDe(n, o) == Sommes(PoidsDe(n, Elements(n, o)))

NatifSuivi ==
  natif # Repos =>
    /\ natif \in Natifs
    /\ ~natif.touche => Suivi(natif, Elements(m, natif.o), m.v[natif.o], SommesDe(m, natif.o))

\* The weight of any value is a natural number, and so are those of a flock.
LEMMA PoidsJustes ==
  ASSUME Hypotheses, NEW n, Sain(n)
  PROVE  /\ \A w \in W : Flottant(n, w) \in Nat
         /\ \A o \in Objets :
              /\ PoidsDe(n, Elements(n, o)) \in Seq(Nat) /\ Len(PoidsDe(n, Elements(n, o))) = n.l[o]
              /\ \A k \in 1 .. n.l[o] : PoidsDe(n, Elements(n, o))[k] = Flottant(n, Elements(n, o)[k])
<1>1. ASSUME NEW w \in W PROVE Flottant(n, w) \in Nat
  BY DEF Flottant, W, Hypotheses, Sain, Memoires
<1>2. ASSUME NEW o \in Objets
      PROVE  /\ PoidsDe(n, Elements(n, o)) \in Seq(Nat) /\ Len(PoidsDe(n, Elements(n, o))) = n.l[o]
             /\ \A k \in 1 .. n.l[o] : PoidsDe(n, Elements(n, o))[k] = Flottant(n, Elements(n, o)[k])
  <2>1. Elements(n, o) \in Seq(W) /\ Len(Elements(n, o)) = n.l[o] /\ n.l[o] \in Nat
    BY ElementsJustes DEF Sain, Memoires
  <2>2. \A k \in 1 .. n.l[o] : Elements(n, o)[k] \in W
    BY <2>1
  <2>. QED BY <1>1, <2>1, <2>2 DEF PoidsDe
<1>. QED BY <1>1, <1>2

LEMMA SommesDuTroupeau ==
  ASSUME Hypotheses, NEW n, Sain(n), NEW o \in Objets
  PROVE  /\ n.l[o] \in Nat /\ SommesDe(n, o) \in [0 .. n.l[o] -> Nat] /\ SommesDe(n, o)[0] = 0
         /\ \A k \in 1 .. n.l[o] :
              SommesDe(n, o)[k] = SommesDe(n, o)[k - 1] + Flottant(n, Elements(n, o)[k])
<1>1. n.l[o] \in Nat
  BY DEF Sain, Memoires
<1>. QED BY <1>1, PoidsJustes, SommesJustes DEF SommesDe

\* What is read at a place of a flock that is where it was.
LEMMA AccesJuste ==
  ASSUME Hypotheses, BlocsSepares, natif \in Natifs, NEW w \in Acces
  PROVE  /\ w \in W
         /\ natif.v = m.v[natif.o] /\ natif.i < m.l[natif.o] => w = Elements(m, natif.o)[natif.i + 1]
<1>. DEFINE o == natif.o
            a == m.bloc[m.v[o]]
<1>1. /\ o \in Objets /\ m.l[o] \in Nat /\ natif.i \in Nat
      /\ Elements(m, o) \in Seq(W) /\ Len(Elements(m, o)) = m.l[o]
      /\ \A k \in 1 .. m.l[o] : Elements(m, o)[k] = a[k]
  <2>1. o \in Objets /\ natif.i \in Nat /\ Sain(m)
    BY DEF Natifs, BlocsSepares
  <2>2. m.l[o] \in Nat
    BY <2>1 DEF Sain, Memoires
  <2>. QED BY <2>1, <2>2, ElementsJustes
<1>0. m.v[o] = Nul => m.l[o] = 0
  BY <1>1 DEF BlocsSepares, Sain, Exacts
<1>2. CASE natif.v # Nul /\ m.v[o] = natif.v /\ natif.i < m.l[o]
  <2>1. natif.i + 1 \in 1 .. m.l[o] /\ w = a[natif.i + 1]
    BY <1>1, <1>2 DEF Acces
  <2>2. Elements(m, o)[natif.i + 1] = w /\ Elements(m, o)[natif.i + 1] \in W
    BY <1>1, <2>1
  <2>. QED BY <2>2
<1>3. CASE ~ (natif.v # Nul /\ m.v[o] = natif.v /\ natif.i < m.l[o])
  <2>1. w \in Valeurs \cup {Inconnu}
    BY <1>3 DEF Acces
  <2>2. ~ (natif.v = m.v[o] /\ natif.i < m.l[o])
    BY <1>0, <1>1, <1>3
  <2>. QED BY <2>1, <2>2 DEF W
<1>. QED BY <1>2, <1>3

\* An instruction that leaves all that a reader of the flock can find there.
LEMMA VuGarde ==
  ASSUME Hypotheses, NEW n, Sain(n), NEW p, Sain(p), NEW o \in Objets, Vu(n, o) = Vu(p, o)
  PROVE  /\ p.v[o] = n.v[o] /\ Elements(p, o) = Elements(n, o) /\ SommesDe(p, o) = SommesDe(n, o)
<1>. DEFINE e == Elements(n, o)
            f == Elements(p, o)
            x == [k \in 1 .. n.l[o] |-> <<e[k], Flottant(n, e[k])>>]
            y == [k \in 1 .. p.l[o] |-> <<f[k], Flottant(p, f[k])>>]
<1>1. /\ e \in Seq(W) /\ Len(e) = n.l[o] /\ n.l[o] \in Nat
      /\ f \in Seq(W) /\ Len(f) = p.l[o] /\ p.l[o] \in Nat
  BY ElementsJustes DEF Sain, Memoires
<1>2. n.v[o] = p.v[o] /\ x = y
  BY DEF Vu
<1>3. 1 .. n.l[o] = 1 .. p.l[o]
  <2>1. DOMAIN x = 1 .. n.l[o] /\ DOMAIN y = 1 .. p.l[o]
    OBVIOUS
  <2>. HIDE DEF x, y
  <2>. QED BY <1>2, <2>1
<1>4. n.l[o] = p.l[o]
  BY <1>1, <1>3
<1>5. ASSUME NEW k \in 1 .. n.l[o] PROVE e[k] = f[k] /\ Flottant(n, e[k]) = Flottant(p, f[k])
  <2>1. x[k] = <<e[k], Flottant(n, e[k])>>
    OBVIOUS
  <2>2. y[k] = <<f[k], Flottant(p, f[k])>>
    BY <1>3
  <2>. HIDE DEF x, y
  <2>. QED BY <1>2, <2>1, <2>2
<1>6. e = f
  BY <1>1, <1>4, <1>5
<1>7. PoidsDe(n, e) = PoidsDe(p, f)
  BY <1>1, <1>4, <1>5 DEF PoidsDe
<1>. QED BY <1>2, <1>6, <1>7 DEF SommesDe

\* Another task: what it does to the flock is seen in touche.
LEMMA TacheSuivie ==
  ASSUME Hypotheses, BlocsSepares, NatifSuivi, ParUneTache
  PROVE  NatifSuivi'
<1>1. BlocsSepares'
  BY InstructionJuste DEF ParUneTache
<1>2. CASE natif = Repos
  BY <1>2 DEF ParUneTache, NatifSuivi
<1>3. CASE natif # Repos
  <2>. DEFINE o == natif.o
  <2>1. /\ natif \in Natifs /\ natif' = [natif EXCEPT !.touche = @ \/ Vu(m', o) # Vu(m, o)]
        /\ ~natif.touche => Suivi(natif, Elements(m, o), m.v[o], SommesDe(m, o))
    BY <1>3 DEF ParUneTache, NatifSuivi
  <2>2. natif' \in Natifs /\ natif'.o = o
    BY <2>1 DEF Natifs
  <2>3. ASSUME ~natif'.touche PROVE Suivi(natif', Elements(m', o), m'.v[o], SommesDe(m', o))
    <3>1. ~natif.touche /\ Vu(m', o) = Vu(m, o) /\ o \in Objets
      BY <2>1, <2>3 DEF Natifs
    <3>2. m'.v[o] = m.v[o] /\ Elements(m', o) = Elements(m, o) /\ SommesDe(m', o) = SommesDe(m, o)
      <4>1. Sain(m) /\ Sain(m')
        BY <1>1 DEF BlocsSepares
      <4>. QED BY <3>1, <4>1, VuGarde
    <3>. DEFINE e == Elements(m, o)
                v == m.v[o]
                s == SommesDe(m, o)
    <3>3. Suivi(natif, e, v, s)
      BY <2>1, <3>1
    <3>4. /\ natif'.etape = natif.etape /\ natif'.i = natif.i /\ natif'.total = natif.total
          /\ natif'.t2 = natif.t2 /\ natif'.v = natif.v /\ natif'.n = natif.n /\ natif'.h = natif.h
          /\ natif'.dest = natif.dest
      BY <2>1 DEF Natifs
    <3>. HIDE DEF e, v, s, o
    <3>5. Suivi(natif', e, v, s)
      BY <3>3, <3>4 DEF Suivi
    <3>. QED BY <3>2, <3>5 DEF e, v, s
  <2>. QED BY <2>2, <2>3 DEF NatifSuivi
<1>. QED BY <1>2, <1>3

\* A step of the function itself: the flock is read only.
LEMMA FonctionSuivie ==
  ASSUME Hypotheses, BlocsSepares, NatifSuivi, Natif
  PROVE  NatifSuivi'
<1>1. ASSUME NEW r \in Lieux, Appeler(r) PROVE NatifSuivi'
  <2>1. PICK t \in {"adresse", "taille"} :
          natif' = [etape |-> t, o |-> Contenu(m, r), v |-> Nul, n |-> 0, i |-> 0,
                    total |-> 0, t2 |-> 0, h |-> 0, dest |-> <<>>, touche |-> FALSE]
    BY <1>1 DEF Appeler
  <2>2. Contenu(m, r) \in Objets /\ m' = m /\ <<>> \in Seq(W)
    BY <1>1, EmptySeq DEF Appeler
  <2>3. natif' \in Natifs
    BY <2>1, <2>2 DEF Natifs, Etapes
  <2>4. \A e, v, s : Suivi(natif', e, v, s)
    BY <2>1 DEF Suivi
  <2>. QED BY <2>3, <2>4 DEF NatifSuivi
<1>2. CASE Retourner
  BY <1>2 DEF Retourner, NatifSuivi
<1>3. ASSUME Adresse \/ Nombre \/ Somme \/ Tirage \/ Choix \/ Taille \/ Place \/ Source \/ Copie \/ Texte
      PROVE  NatifSuivi'
  <2>. DEFINE o == natif.o
              e == Elements(m, o)
              v == m.v[o]
              s == SommesDe(m, o)
  <2>1. natif # Repos /\ m' = m
    <3>1. natif.etape # "repos"
      BY <1>3 DEF Adresse, Nombre, Somme, Tirage, Choix, Taille, Place, Source, Copie, Texte, Etape
    <3>2. m' = m
      BY <1>3 DEF Adresse, Nombre, Somme, Tirage, Choix, Taille, Place, Source, Copie, Texte, Etape
    <3>. QED BY <3>1, <3>2 DEF Repos
  <2>2. natif \in Natifs /\ (~natif.touche => Suivi(natif, e, v, s))
    BY <2>1 DEF NatifSuivi
  <2>3. /\ o \in Objets /\ m.l[o] \in Nat /\ v \in Blocs \cup {Nul} /\ Sain(m)
        /\ e \in Seq(W) /\ Len(e) = m.l[o] /\ \A k \in 1 .. m.l[o] : e[k] \in W
    <3>1. o \in Objets /\ Sain(m)
      BY <2>2 DEF Natifs, BlocsSepares
    <3>2. m.l[o] \in Nat /\ v \in Blocs \cup {Nul}
      BY <3>1 DEF Sain, Memoires
    <3>3. e \in Seq(W) /\ Len(e) = m.l[o]
      BY <3>1, ElementsJustes
    <3>. QED BY <3>1, <3>2, <3>3
  <2>4. /\ s \in [0 .. m.l[o] -> Nat] /\ s[0] = 0
        /\ \A k \in 1 .. m.l[o] : s[k] = s[k - 1] + Flottant(m, e[k])
    BY <2>3, SommesDuTroupeau
  <2>5. \A w \in W : Flottant(m, w) \in Nat
    BY <2>3, PoidsJustes
  <2>6. ASSUME NEW w \in Acces
        PROVE  /\ w \in W
               /\ natif.v = v /\ natif.i < m.l[o] => w = e[natif.i + 1]
    BY <2>2, AccesJuste
  <2>7. SUFFICES /\ natif' \in Natifs /\ natif'.o = o /\ natif'.touche = natif.touche
                 /\ ~natif.touche => Suivi(natif', e, v, s)
    BY <2>1 DEF NatifSuivi
  <2>8. /\ natif.v \in Blocs \cup {Nul} /\ natif.n \in Nat /\ natif.i \in Nat /\ natif.total \in Nat
        /\ natif.t2 \in Nat /\ natif.h \in Nat /\ natif.dest \in Seq(W) /\ natif.touche \in BOOLEAN
        /\ natif.etape \in Etapes
        /\ natif = [etape |-> natif.etape, o |-> o, v |-> natif.v, n |-> natif.n, i |-> natif.i,
                    total |-> natif.total, t2 |-> natif.t2, h |-> natif.h, dest |-> natif.dest,
                    touche |-> natif.touche]
    BY <2>2 DEF Natifs
  <2>. HIDE DEF e, v, s, o
  <2>9. CASE Adresse
    <3>1. natif.etape = "adresse" /\ natif' = [natif EXCEPT !.v = v, !.etape = "nombre"]
      BY <2>9 DEF Adresse, Etape, v, o
    <3>2. natif' \in Natifs /\ natif'.o = o /\ natif'.touche = natif.touche
      BY <2>2, <2>3, <2>8, <3>1 DEF Natifs, Etapes, o
    <3>3. ~natif.touche => Suivi(natif', e, v, s)
      BY <2>2, <2>8, <3>1 DEF Suivi
    <3>. QED BY <3>2, <3>3
  <2>10. CASE Nombre
    <3>1. natif.etape = "nombre" /\ natif' = [natif EXCEPT !.n = m.l[o], !.etape = "somme"]
      BY <2>10 DEF Nombre, Etape, o
    <3>2. natif' \in Natifs /\ natif'.o = o /\ natif'.touche = natif.touche
      BY <2>2, <2>3, <2>8, <3>1 DEF Natifs, Etapes, o
    <3>3. ~natif.touche => Suivi(natif', e, v, s)
      BY <2>2, <2>3, <2>4, <2>8, <3>1 DEF Suivi
    <3>. QED BY <3>2, <3>3
  <2>11. CASE Somme
    <3>1. PICK w \in Acces : /\ natif.etape = "somme" /\ natif.i < natif.n
                             /\ natif' = [natif EXCEPT !.total = @ + Flottant(m, w), !.i = @ + 1]
      BY <2>11 DEF Somme, Etape
    <3>2. w \in W /\ Flottant(m, w) \in Nat
      BY <2>5, <2>6
    <3>3. natif' \in Natifs /\ natif'.o = o /\ natif'.touche = natif.touche
      <4>1. natif.total + Flottant(m, w) \in Nat /\ natif.i + 1 \in Nat
        BY <2>8, <3>2
      <4>2. natif' = [natif EXCEPT !.total = natif.total + Flottant(m, w), !.i = natif.i + 1]
        BY <2>8, <3>1
      <4>. QED BY <2>2, <4>1, <4>2 DEF Natifs, o
    <3>4. ASSUME ~natif.touche PROVE Suivi(natif', e, v, s)
      <4>1. /\ natif.v = v /\ natif.n = Len(e) /\ natif.i < m.l[o] /\ natif.total = s[natif.i]
            /\ natif.t2 = 0
        BY <2>2, <2>3, <3>1, <3>4 DEF Suivi
      <4>2. w = e[natif.i + 1] /\ natif.i + 1 \in 1 .. m.l[o] /\ (natif.i + 1) - 1 = natif.i
        <5>1. w = e[natif.i + 1]
          BY <2>6, <4>1
        <5>2. natif.i + 1 \in 1 .. m.l[o] /\ (natif.i + 1) - 1 = natif.i
          BY <2>3, <2>8, <4>1
        <5>. QED BY <5>1, <5>2
      <4>3. s[natif.i + 1] = natif.total + Flottant(m, w)
        BY <2>4, <4>1, <4>2
      <4>4. /\ natif'.etape = "somme" /\ natif'.v = v /\ natif'.n = Len(e) /\ natif'.i = natif.i + 1
            /\ natif'.total = s[natif.i + 1] /\ natif'.t2 = 0 /\ natif.i + 1 <= Len(e)
        BY <2>2, <2>3, <2>8, <3>1, <4>1, <4>2, <4>3 DEF Natifs
      <4>. QED BY <4>4 DEF Suivi
    <3>. QED BY <3>3, <3>4
  <2>12. CASE Tirage
    <3>1. PICK h \in 0 .. natif.total :
            /\ natif.etape = "somme" /\ natif.i = natif.n
            /\ natif' = [natif EXCEPT !.h = h, !.v = v, !.i = 0, !.etape = "choix"]
      BY <2>12 DEF Tirage, Etape, v, o
    <3>2. h \in Nat /\ h <= natif.total
      BY <2>8
    <3>3. natif' \in Natifs /\ natif'.o = o /\ natif'.touche = natif.touche
      BY <2>2, <2>3, <2>8, <3>1, <3>2 DEF Natifs, Etapes, o
    <3>4. ~natif.touche => Suivi(natif', e, v, s)
      BY <2>2, <2>3, <2>4, <2>8, <3>1, <3>2 DEF Suivi
    <3>. QED BY <3>3, <3>4
  <2>13. CASE Choix
    <3>1. CASE natif.i = natif.n /\ Etape("choix", [natif EXCEPT !.etape = "entier"])
      <4>1. natif.etape = "choix" /\ natif' = [natif EXCEPT !.etape = "entier"]
        BY <3>1 DEF Etape
      <4>2. natif' \in Natifs /\ natif'.o = o /\ natif'.touche = natif.touche
        BY <2>2, <2>8, <4>1 DEF Natifs, Etapes, o
      <4>3. ASSUME ~natif.touche PROVE Suivi(natif', e, v, s)
        <5>1. /\ natif.n = Len(e) /\ natif.total = s[Len(e)] /\ natif.h <= natif.total
              /\ natif.i > 0 => s[natif.i] < natif.h
          BY <2>2, <4>1, <4>3 DEF Suivi
        <5>2. Len(e) = 0
          BY <2>3, <2>8, <3>1, <5>1
        <5>3. e = <<>>
          BY <2>3, <5>2, EmptySeq
        <5>. QED BY <2>8, <4>1, <5>1, <5>3 DEF Suivi
      <4>. QED BY <4>2, <4>3
    <3>2. ASSUME natif.i < natif.n, NEW w \in Acces,
                 Etape("choix", IF Atteint(natif.t2 + Flottant(m, w)) THEN [natif EXCEPT !.etape = "entier"]
                                ELSE [natif EXCEPT !.t2 = natif.t2 + Flottant(m, w), !.i = @ + 1])
          PROVE  /\ natif' \in Natifs /\ natif'.o = o /\ natif'.touche = natif.touche
                 /\ ~natif.touche => Suivi(natif', e, v, s)
      <4>. DEFINE t2 == natif.t2 + Flottant(m, w)
      <4>0. w \in W /\ Flottant(m, w) \in Nat /\ t2 \in Nat
        BY <2>5, <2>6, <2>8
      <4>1. natif.etape = "choix" /\ natif' = IF t2 >= natif.h THEN [natif EXCEPT !.etape = "entier"]
                                              ELSE [natif EXCEPT !.t2 = t2, !.i = @ + 1]
        BY <3>2 DEF Etape, Atteint
      <4>2. ASSUME ~natif.touche
            PROVE  /\ natif.v = v /\ natif.n = Len(e) /\ natif.i < m.l[o] /\ natif.t2 = s[natif.i]
                   /\ natif.total = s[Len(e)] /\ natif.h <= natif.total
                   /\ natif.i > 0 => s[natif.i] < natif.h
                   /\ t2 = s[natif.i + 1] /\ natif.i + 1 <= Len(e)
        <5>1. /\ natif.v = v /\ natif.n = Len(e) /\ natif.i < m.l[o] /\ natif.t2 = s[natif.i]
              /\ natif.total = s[Len(e)] /\ natif.h <= natif.total
              /\ natif.i > 0 => s[natif.i] < natif.h
          BY <2>2, <2>3, <3>2, <4>1, <4>2 DEF Suivi
        <5>2. w = e[natif.i + 1] /\ natif.i + 1 \in 1 .. m.l[o] /\ (natif.i + 1) - 1 = natif.i
          <6>1. w = e[natif.i + 1]
            BY <2>6, <5>1
          <6>2. natif.i + 1 \in 1 .. m.l[o] /\ (natif.i + 1) - 1 = natif.i
            BY <2>3, <2>8, <5>1
          <6>. QED BY <6>1, <6>2
        <5>3. s[natif.i + 1] = s[natif.i] + Flottant(m, e[natif.i + 1])
          BY <2>4, <5>2
        <5>4. natif.i + 1 <= Len(e)
          BY <2>3, <5>2
        <5>. QED BY <5>1, <5>2, <5>3, <5>4
      <4>. HIDE DEF t2
      <4>3. CASE t2 >= natif.h
        <5>1. natif' = [natif EXCEPT !.etape = "entier"]
          BY <4>1, <4>3
        <5>2. natif' \in Natifs /\ natif'.o = o /\ natif'.touche = natif.touche
          BY <2>2, <2>8, <5>1 DEF Natifs, Etapes, o
        <5>3. ~natif.touche => Suivi(natif', e, v, s)
          BY <2>3, <2>8, <4>2, <4>3, <5>1 DEF Suivi
        <5>. QED BY <5>2, <5>3
      <4>4. CASE ~ (t2 >= natif.h)
        <5>1. natif' = [natif EXCEPT !.t2 = t2, !.i = @ + 1]
          BY <4>1, <4>4
        <5>2. natif' \in Natifs /\ natif'.o = o /\ natif'.touche = natif.touche
          <6>1. natif.i + 1 \in Nat
            BY <2>8
          <6>2. natif' = [natif EXCEPT !.t2 = t2, !.i = natif.i + 1]
            BY <2>8, <5>1
          <6>. QED BY <2>2, <4>0, <6>1, <6>2 DEF Natifs, o
        <5>3. natif'.etape = "choix"
          BY <2>2, <4>1, <5>1 DEF Natifs
        <5>4. ~natif.touche => Suivi(natif', e, v, s)
          BY <2>3, <2>8, <4>0, <4>2, <4>4, <5>1, <5>3 DEF Suivi
        <5>. QED BY <5>2, <5>4
      <4>. QED BY <4>3, <4>4
    <3>. QED BY <2>13, <3>1, <3>2 DEF Choix
  <2>14. CASE Taille
    <3>1. natif.etape = "taille" /\ natif' = [natif EXCEPT !.n = m.l[o], !.etape = "place"]
      BY <2>14 DEF Taille, Etape, o
    <3>2. natif' \in Natifs /\ natif'.o = o /\ natif'.touche = natif.touche
      BY <2>2, <2>3, <2>8, <3>1 DEF Natifs, Etapes, o
    <3>3. ~natif.touche => Suivi(natif', e, v, s)
      BY <2>2, <2>3, <2>8, <3>1 DEF Suivi
    <3>. QED BY <3>2, <3>3
  <2>15. CASE Place
    <3>. DEFINE d == [k \in 1 .. m.l[o] |-> Inconnu]
    <3>1. natif.etape = "place" /\ natif' = [natif EXCEPT !.dest = d, !.etape = "source"]
      BY <2>15 DEF Place, Etape, o
    <3>2. d \in Seq(W) /\ Len(d) = m.l[o]
      BY <2>3 DEF W
    <3>. HIDE DEF d
    <3>3. natif' \in Natifs /\ natif'.o = o /\ natif'.touche = natif.touche
      BY <2>2, <2>8, <3>1, <3>2 DEF Natifs, Etapes, o
    <3>4. ~natif.touche => Suivi(natif', e, v, s)
      BY <2>2, <2>3, <2>8, <3>1, <3>2 DEF Suivi
    <3>. QED BY <3>3, <3>4
  <2>16. CASE Source
    <3>1. natif.etape = "source" /\ natif' = [natif EXCEPT !.v = v, !.etape = "copie"]
      BY <2>16 DEF Source, Etape, v, o
    <3>2. natif' \in Natifs /\ natif'.o = o /\ natif'.touche = natif.touche
      BY <2>2, <2>3, <2>8, <3>1 DEF Natifs, Etapes, o
    <3>3. ~natif.touche => Suivi(natif', e, v, s)
      BY <2>2, <2>3, <2>8, <3>1 DEF Suivi
    <3>. QED BY <3>2, <3>3
  <2>17. CASE Copie
    <3>1. PICK w \in Acces :
            /\ natif.etape = "copie" /\ natif.i < m.l[o]
            /\ natif' = IF natif.i < Len(natif.dest)
                        THEN [natif EXCEPT !.dest[natif.i + 1] = w, !.i = @ + 1]
                        ELSE [natif EXCEPT !.etape = "deborde"]
      BY <2>17 DEF Copie, Etape, o
    <3>2. w \in W
      BY <2>6
    <3>3. CASE natif.i < Len(natif.dest)
      <4>. DEFINE d == [natif.dest EXCEPT ![natif.i + 1] = w]
      <4>1. natif' = [natif EXCEPT !.dest = d, !.i = natif.i + 1]
        BY <2>8, <3>1, <3>3
      <4>2. /\ d \in Seq(W) /\ Len(d) = Len(natif.dest) /\ d[natif.i + 1] = w
            /\ \A k \in 1 .. natif.i : d[k] = natif.dest[k]
        BY <2>8, <3>2, <3>3
      <4>. HIDE DEF d
      <4>3. natif' \in Natifs /\ natif'.o = o /\ natif'.touche = natif.touche
        <5>1. natif.i + 1 \in Nat
          BY <2>8
        <5>. QED BY <2>2, <4>1, <4>2, <5>1 DEF Natifs, o
      <4>4. ASSUME ~natif.touche PROVE Suivi(natif', e, v, s)
        <5>1. /\ natif.v = v /\ natif.n = Len(e) /\ Len(natif.dest) = Len(e)
              /\ \A k \in 1 .. natif.i : natif.dest[k] = e[k]
          BY <2>2, <3>1, <4>4 DEF Suivi
        <5>2. w = e[natif.i + 1]
          BY <2>6, <3>1, <5>1
        <5>3. \A k \in 1 .. natif.i + 1 : d[k] = e[k]
          <6>1. \A k \in 1 .. natif.i + 1 : k \in 1 .. natif.i \/ k = natif.i + 1
            BY <2>8
          <6>. QED BY <4>2, <5>1, <5>2, <6>1
        <5>4. natif'.etape = "copie" /\ natif'.v = v /\ natif'.n = Len(e) /\ natif'.i = natif.i + 1
              /\ natif'.dest = d /\ natif.i + 1 <= Len(e)
          <6>1. /\ natif'.etape = "copie" /\ natif'.v = v /\ natif'.n = Len(e)
                /\ natif'.i = natif.i + 1 /\ natif'.dest = d
            BY <2>2, <3>1, <4>1, <5>1 DEF Natifs
          <6>. QED BY <2>3, <2>8, <3>1, <6>1
        <5>. QED BY <4>2, <5>1, <5>3, <5>4 DEF Suivi
      <4>. QED BY <4>3, <4>4
    <3>4. CASE ~ (natif.i < Len(natif.dest))
      <4>1. natif' = [natif EXCEPT !.etape = "deborde"]
        BY <3>1, <3>4
      <4>2. natif' \in Natifs /\ natif'.o = o /\ natif'.touche = natif.touche
        BY <2>2, <2>8, <4>1 DEF Natifs, Etapes, o
      <4>3. natif.touche
        BY <2>2, <2>3, <3>1, <3>4 DEF Suivi
      <4>. QED BY <4>2, <4>3
    <3>. QED BY <3>3, <3>4
  <2>18. CASE Texte
    <3>1. /\ natif.etape = "copie" /\ natif.i >= m.l[o]
          /\ natif' = [natif EXCEPT !.etape = IF natif.n <= Len(natif.dest) THEN "texte" ELSE "deborde"]
      BY <2>18 DEF Texte, Etape, o
    <3>2. natif' \in Natifs /\ natif'.o = o /\ natif'.touche = natif.touche
      BY <2>2, <2>8, <3>1 DEF Natifs, Etapes, o
    <3>3. ASSUME ~natif.touche PROVE Suivi(natif', e, v, s)
      <4>1. /\ natif.v = v /\ natif.n = Len(e) /\ Len(natif.dest) = Len(e) /\ natif.i = Len(e)
            /\ \A k \in 1 .. Len(e) : natif.dest[k] = e[k]
        BY <2>2, <2>3, <2>8, <3>1, <3>3 DEF Suivi
      <4>2. natif.dest = e
        BY <2>3, <2>8, <4>1
      <4>3. natif'.etape = "texte" /\ natif'.n = natif.n /\ natif'.dest = natif.dest
        BY <2>2, <2>3, <2>8, <3>1, <4>1 DEF Natifs
      <4>. QED BY <4>1, <4>2, <4>3 DEF Suivi
    <3>. QED BY <3>2, <3>3
  <2>. QED BY <1>3, <2>9, <2>10, <2>11, <2>12, <2>13, <2>14, <2>15, <2>16, <2>17, <2>18
<1>. QED BY <1>1, <1>2, <1>3 DEF Natif

\* Joindre and TableauPoids, which read a flock while other tasks change it,
\* never write or read past their copy and give what their descriptions say
\* whenever none changed this one: the number drawn is in the share of the
\* element returned, the text has each element once.
THEOREM NatifsSuivent == Hypotheses => (Spec => []NatifsJustes)
<1>. SUFFICES ASSUME Hypotheses PROVE Spec => []NatifsJustes
  OBVIOUS
<1>1. Init => NatifSuivi
  BY DEF Init, NatifSuivi
<1>2. BlocsSepares /\ NatifSuivi /\ [Next]_vars => NatifSuivi'
  <2>1. ASSUME NatifSuivi, UNCHANGED vars PROVE NatifSuivi'
    BY <2>1 DEF vars, NatifSuivi
  <2>. QED BY <2>1, TacheSuivie, FonctionSuivie DEF Next
<1>3. BlocsSepares /\ NatifSuivi => NatifsJustes
  <2>. SUFFICES ASSUME BlocsSepares, NatifSuivi, natif # Repos, ~natif.touche PROVE NatifsJustes
    BY DEF NatifsJustes
  <2>. DEFINE e == Elements(m, natif.o)
  <2>1. natif \in Natifs /\ Suivi(natif, e, m.v[natif.o], SommesDe(m, natif.o))
    BY DEF NatifSuivi
  <2>. QED BY <2>1 DEF Suivi, NatifsJustes, SommesDe
<1>4. Spec => []BlocsSepares
  BY ChacunSonBloc
<1>. QED BY <1>1, <1>2, <1>3, <1>4, PTL DEF Spec
=============================================================================
