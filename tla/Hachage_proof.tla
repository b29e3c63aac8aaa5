----------------------------- MODULE Hachage_proof -----------------------------
(***************************************************************************)
(* Proofs about Hachage, for any keys, hash values and tables.  The index  *)
(* stays sorted because ObtId only ends, for a key that is not there, at   *)
(* the place where it goes: Cadre says what the bounds of the bisection    *)
(* know.  Init and every step then preserve TypeOK, Trie and Cadre         *)
(* together.                                                               *)
(***************************************************************************)
EXTENDS Hachage, SequenceTheorems, TLAPS

IInv == TypeOK /\ Trie /\ Cadre

\* Avant is a strict total order on the keys.
LEMMA Ordre ==
  /\ \A c, d, e \in Clefs : Avant(c, d) /\ Avant(d, e) => Avant(c, e)
  /\ \A c \in Clefs : ~Avant(c, c)
  /\ \A c, d \in Clefs : c = d \/ Avant(c, d) \/ Avant(d, c)
<1>1. /\ \A c \in Clefs : Empreinte[c] \in Int /\ Rang[c] \in Nat
      /\ \A c, d \in Clefs : Rang[c] = Rang[d] => c = d
  BY HachageAssumption
<1>. QED BY <1>1, Z3 DEF Avant

\* The keys of a sorted table are all different.
LEMMA Uniques == TypeOK /\ Trie => ClefsUniques
<1>. SUFFICES ASSUME TypeOK, Trie, NEW o \in Objets, NEW m \in 0 .. l[o] - 1,
                     NEW n \in 0 .. l[o] - 1, v[o][m].Clef = v[o][n].Clef
              PROVE  m = n
  BY DEF ClefsUniques
<1>1. PICK j \in 0 .. l[o] - 1 : Index[o][j].i = m
  BY DEF Trie, Complet
<1>2. PICK k \in 0 .. l[o] - 1 : Index[o][k].i = n
  BY DEF Trie, Complet
<1>3. ClefIndex(o, j) = ClefIndex(o, k) /\ ClefIndex(o, j) \in Clefs
  BY <1>1, <1>2 DEF ClefIndex, TypeOK, Paires
<1>4. ~(j < k) /\ ~(k < j)
  BY <1>3, Ordre DEF Trie, Croissant
<1>5. l[o] \in Nat
  BY DEF TypeOK
<1>. QED BY <1>1, <1>2, <1>4, <1>5

\* The tables are right when there are none.
LEMMA InitIInv == Init => IInv
<1>. SUFFICES ASSUME Init PROVE IInv
  OBVIOUS
<1>. USE DEF Init
<1>1. \A o \in Objets : 0 .. l[o] - 1 = {}
  OBVIOUS
<1>2. TypeOK
  <2>1. \A o \in Objets : v[o] = Rien /\ Index[o] = Rien /\ l[o] = 0 /\ a[o] = 0
    OBVIOUS
  <2>2. \A o \in Objets : v[o] \in [0 .. l[o] - 1 -> Paires]
                          /\ Index[o] \in [0 .. l[o] - 1 -> Entrees]
    BY <1>1, <2>1 DEF Rien
  <2>. QED BY <2>1, <2>2 DEF TypeOK
<1>3. Trie
  BY <1>1 DEF Trie, EntreesJustes, Croissant, Complet
<1>4. Cadre
  BY DEF Cadre
<1>. QED BY <1>2, <1>3, <1>4 DEF IInv

\* Every index is right after a step that gives table o the pairs, index and
\* length W, I and n, if these are right, and touches no other table.
LEMMA UneTable ==
  ASSUME TypeOK, Trie, NEW o \in Objets, NEW n \in Nat, NEW W, NEW I,
         v' = [v EXCEPT ![o] = W], Index' = [Index EXCEPT ![o] = I],
         l' = [l EXCEPT ![o] = n],
         \A k \in 0 .. n - 1 :
           I[k].i \in 0 .. n - 1 /\ I[k].hache = Empreinte[W[I[k].i].Clef],
         \A j, k \in 0 .. n - 1 : j < k => Avant(W[I[j].i].Clef, W[I[k].i].Clef),
         \A m \in 0 .. n - 1 : \E k \in 0 .. n - 1 : I[k].i = m
  PROVE  Trie'
<1>1. \A u \in Objets : u # o => v'[u] = v[u] /\ Index'[u] = Index[u] /\ l'[u] = l[u]
  BY DEF TypeOK
<1>2. v'[o] = W /\ Index'[o] = I /\ l'[o] = n
  BY DEF TypeOK
<1>3. ASSUME NEW u \in Objets
      PROVE  /\ \A k \in 0 .. l'[u] - 1 :
                  /\ Index'[u][k].i \in 0 .. l'[u] - 1
                  /\ Index'[u][k].hache = Empreinte[v'[u][Index'[u][k].i].Clef]
             /\ \A j, k \in 0 .. l'[u] - 1 :
                  j < k => Avant(v'[u][Index'[u][j].i].Clef, v'[u][Index'[u][k].i].Clef)
             /\ \A m \in 0 .. l'[u] - 1 : \E k \in 0 .. l'[u] - 1 : Index'[u][k].i = m
  <2>1. CASE u = o
    BY <2>1, <1>2
  <2>2. CASE u # o
    BY <2>2, <1>1 DEF Trie, EntreesJustes, Croissant, Complet, ClefIndex
  <2>. QED BY <2>1, <2>2
<1>. QED BY <1>3, SMTT(20) DEF Trie, EntreesJustes, Croissant, Complet, ClefIndex

\* The insertion of ObtRef at OuInserer keeps the index sorted.
LEMMA Insertion ==
  ASSUME IInv, Ajouter
  PROVE  Trie'
<1>. DEFINE o == Base
            n == l[o]
            c == op.clef
            e == [i |-> n, hache |-> Empreinte[c]]
            I == [k \in 0 .. n |-> IF k < sup THEN Index[o][k] ELSE IF k = sup THEN e
                                   ELSE Index[o][k - 1]]
            W == [k \in 0 .. n |-> IF k = n THEN [Clef |-> c, Val |-> Inconnu] ELSE v[o][k]]
            Cle(k) == W[I[k].i].Clef
<1>1. /\ o \in Objets /\ n \in Nat /\ c \in Clefs
      /\ sup \in 0 .. n
      /\ inf \in Int /\ sup - 1 <= inf
  <2>1. op \in Ops
    BY DEF IInv, TypeOK, Ajouter
  <2>2. op.x \in Variables /\ c \in Clefs
    BY <2>1 DEF Ops
  <2>. QED BY <2>2 DEF IInv, TypeOK, Ajouter, Cadre, Base
<1>2. /\ v' = [v EXCEPT ![o] = W] /\ Index' = [Index EXCEPT ![o] = I]
      /\ l' = [l EXCEPT ![o] = n + 1]
  BY DEF Ajouter, Inserer, Numero
<1>3. \A k \in 0 .. n - 1 :
        /\ Index[o][k].i \in 0 .. n - 1
        /\ Index[o][k].hache = Empreinte[ClefIndex(o, k)]
        /\ ClefIndex(o, k) \in Clefs
        /\ k < sup => Avant(ClefIndex(o, k), c)
        /\ k >= sup => Avant(c, ClefIndex(o, k))
  <2>. SUFFICES ASSUME NEW k \in 0 .. n - 1
                PROVE  /\ Index[o][k].i \in 0 .. n - 1
                       /\ Index[o][k].hache = Empreinte[ClefIndex(o, k)]
                       /\ ClefIndex(o, k) \in Clefs
                       /\ k < sup => Avant(ClefIndex(o, k), c)
                       /\ k >= sup => Avant(c, ClefIndex(o, k))
    OBVIOUS
  <2>1. Index[o][k].i \in 0 .. n - 1 /\ Index[o][k].hache = Empreinte[ClefIndex(o, k)]
    BY <1>1 DEF IInv, Trie, EntreesJustes
  <2>2. v[o] \in [0 .. n - 1 -> Paires]
    BY <1>1 DEF IInv, TypeOK
  <2>3. ClefIndex(o, k) \in Clefs
    BY <2>1, <2>2 DEF ClefIndex, Paires
  <2>4. (k <= inf => Avant(ClefIndex(o, k), c)) /\ (k >= sup => Avant(c, ClefIndex(o, k)))
    BY <1>1 DEF IInv, Cadre, Ajouter
  <2>5. k < sup => k <= inf
    BY <1>1
  <2>. QED BY <2>1, <2>3, <2>4, <2>5
<1>4. \A k \in 0 .. n :
        /\ k < sup => I[k] = Index[o][k] /\ k \in 0 .. n - 1
        /\ k = sup => I[k] = e
        /\ k > sup => I[k] = Index[o][k - 1] /\ k - 1 \in 0 .. n - 1
  BY <1>1
<1>W. /\ \A k \in 0 .. n - 1 : W[k] = v[o][k]
      /\ W[n].Clef = c
  BY <1>1
<1>5. \A k \in 0 .. n :
        /\ k < sup => Cle(k) = ClefIndex(o, k)
        /\ k = sup => Cle(k) = c
        /\ k > sup => Cle(k) = ClefIndex(o, k - 1)
  <2>. SUFFICES ASSUME NEW k \in 0 .. n
                PROVE  /\ k < sup => Cle(k) = ClefIndex(o, k)
                       /\ k = sup => Cle(k) = c
                       /\ k > sup => Cle(k) = ClefIndex(o, k - 1)
    OBVIOUS
  <2>1. CASE k < sup
    <3>1. I[k].i \in 0 .. n - 1 /\ I[k] = Index[o][k]
      BY <1>3, <1>4, <2>1
    <3>2. W[I[k].i] = v[o][I[k].i]
      BY <1>W, <3>1, Zenon
    <3>3. Cle(k) = ClefIndex(o, k)
      BY <3>1, <3>2, Zenon DEF ClefIndex
    <3>. HIDE DEF I, W, Cle
    <3>. QED BY <1>1, <2>1, <3>3
  <2>2. CASE k = sup
    <3>1. I[k].i = n
      BY <1>4, <2>2
    <3>2. W[n].Clef = c
      BY <1>W
    <3>3. Cle(k) = c
      BY <3>1, <3>2, Zenon
    <3>. HIDE DEF I, W, Cle
    <3>. QED BY <1>1, <2>2, <3>3
  <2>3. CASE k > sup
    <3>1. I[k].i \in 0 .. n - 1 /\ I[k] = Index[o][k - 1]
      BY <1>3, <1>4, <2>3
    <3>2. W[I[k].i] = v[o][I[k].i]
      BY <1>W, <3>1, Zenon
    <3>3. Cle(k) = ClefIndex(o, k - 1)
      BY <3>1, <3>2, Zenon DEF ClefIndex
    <3>. HIDE DEF I, W, Cle
    <3>. QED BY <1>1, <2>3, <3>3
  <2>. QED BY <1>1, <2>1, <2>2, <2>3
<1>6. \A k \in 0 .. n : I[k].i \in 0 .. n /\ I[k].hache = Empreinte[Cle(k)]
  <2>. HIDE DEF I, W
  <2>. SUFFICES ASSUME NEW k \in 0 .. n
                PROVE  I[k].i \in 0 .. n /\ I[k].hache = Empreinte[Cle(k)]
    OBVIOUS
  <2>1. CASE k < sup
    BY <1>1, <1>3, <1>4, <1>5, <2>1
  <2>2. CASE k = sup
    BY <1>1, <1>4, <1>5, <2>2
  <2>3. CASE k > sup
    BY <1>1, <1>3, <1>4, <1>5, <2>3
  <2>. QED BY <1>1, <2>1, <2>2, <2>3
<1>7. \A j, k \in 0 .. n : j < k => Avant(Cle(j), Cle(k))
  <2>. HIDE DEF I, W
  <2>. SUFFICES ASSUME NEW j \in 0 .. n, NEW k \in 0 .. n, j < k
                PROVE  Avant(Cle(j), Cle(k))
    OBVIOUS
  <2>1. \A p, q \in 0 .. n - 1 : p < q => Avant(ClefIndex(o, p), ClefIndex(o, q))
    BY <1>1 DEF IInv, Trie, Croissant
  <2>2. CASE j < sup
    <3>1. Cle(j) = ClefIndex(o, j) /\ j \in 0 .. n - 1 /\ Avant(ClefIndex(o, j), c)
      BY <1>1, <1>3, <1>5, <2>2
    <3>2. CASE k < sup
      BY <1>1, <1>5, <2>1, <3>1, <3>2
    <3>3. CASE k = sup
      BY <1>5, <3>1, <3>3
    <3>4. CASE k > sup
      BY <1>1, <1>5, <2>1, <2>2, <3>1, <3>4
    <3>. QED BY <1>1, <3>2, <3>3, <3>4
  <2>3. CASE j = sup
    <3>1. k - 1 \in 0 .. n - 1 /\ k - 1 >= sup
      BY <1>1, <2>3
    <3>. QED BY <1>1, <1>3, <1>5, <2>3, <3>1
  <2>4. CASE j > sup
    BY <1>1, <1>5, <2>1, <2>4
  <2>. QED BY <1>1, <2>2, <2>3, <2>4
<1>8. \A m \in 0 .. n : \E k \in 0 .. n : I[k].i = m
  <2>. HIDE DEF I, W
  <2>. SUFFICES ASSUME NEW m \in 0 .. n PROVE \E k \in 0 .. n : I[k].i = m
    OBVIOUS
  <2>1. CASE m = n
    BY <1>1, <1>4, <2>1
  <2>2. CASE m # n
    <3>1. m \in 0 .. n - 1
      BY <1>1, <2>2
    <3>2. PICK k \in 0 .. n - 1 : Index[o][k].i = m
      BY <1>1, <3>1 DEF IInv, Trie, Complet
    <3>3. CASE k < sup
      <4>1. k \in 0 .. n /\ I[k] = Index[o][k]
        BY <1>1, <1>4, <3>3
      <4>. QED BY <3>2, <4>1
    <3>4. CASE k >= sup
      <4>1. k + 1 \in 0 .. n /\ k + 1 > sup /\ (k + 1) - 1 = k
        BY <1>1, <3>4
      <4>2. I[k + 1] = Index[o][k]
        BY <1>4, <4>1
      <4>. QED BY <3>2, <4>1, <4>2
    <3>. QED BY <1>1, <3>3, <3>4
  <2>. QED BY <2>1, <2>2
<1>9. n + 1 \in Nat /\ (n + 1) - 1 = n
  BY <1>1
<1>10. /\ \A k \in 0 .. (n + 1) - 1 :
            I[k].i \in 0 .. (n + 1) - 1 /\ I[k].hache = Empreinte[W[I[k].i].Clef]
       /\ \A j, k \in 0 .. (n + 1) - 1 : j < k => Avant(W[I[j].i].Clef, W[I[k].i].Clef)
       /\ \A m \in 0 .. (n + 1) - 1 : \E k \in 0 .. (n + 1) - 1 : I[k].i = m
  <2>. HIDE DEF I, W
  <2>. QED BY <1>6, <1>7, <1>8, <1>9
<1>. HIDE DEF I, W, o, n
<1>. QED BY <1>1, <1>2, <1>9, <1>10, UneTable DEF IInv

\* Steps that give no table new pairs or a new index.
LEMMA MemesTables ==
  ASSUME TypeOK, Trie, l' = l, Index' = Index,
         \A o \in Objets : \A n \in 0 .. l[o] - 1 : v'[o][n].Clef = v[o][n].Clef
  PROVE  Trie' /\ \A o \in Objets : \A k \in 0 .. l[o] - 1 :
                    ClefIndex(o, k)' = ClefIndex(o, k)
<1>1. \A o \in Objets : \A k \in 0 .. l[o] - 1 : Index[o][k].i \in 0 .. l[o] - 1
  BY DEF Trie, EntreesJustes
<1>2. \A o \in Objets : \A k \in 0 .. l[o] - 1 : ClefIndex(o, k)' = ClefIndex(o, k)
  BY <1>1 DEF ClefIndex
<1>3. EntreesJustes'
  BY <1>1, <1>2 DEF Trie, EntreesJustes
<1>4. Croissant'
  BY <1>2 DEF Trie, Croissant
<1>5. Complet'
  BY DEF Trie, Complet
<1>. QED BY <1>2, <1>3, <1>4, <1>5 DEF Trie

\* What ObtId knows at its beginning: nothing, and that is true.
LEMMA DebutCadre ==
  ASSUME NEW o \in Objets, l'[o] \in Nat, op' # Repos, Base' = o,
         inf' = -1, sup' = l'[o]
  PROVE  Cadre'
BY DEF Cadre

\* A comparison leaves the key between the bounds.
LEMMA Bissection ==
  ASSUME IInv, Avancer
  PROVE  Cadre'
<1>. DEFINE o == Base
            c == op.clef
<1>1. /\ o \in Objets /\ l[o] \in Nat /\ c \in Clefs /\ op' = op /\ op # Repos
      /\ inf \in -1 .. sup - 1 /\ sup \in 0 .. l[o] /\ inf < sup - 1
  <2>1. op \in Ops
    BY DEF IInv, TypeOK, Avancer, EnRecherche
  <2>2. op.x \in Variables /\ c \in Clefs
    BY <2>1 DEF Ops
  <2>. QED BY <2>2 DEF IInv, TypeOK, Avancer, EnRecherche, Cadre, Base
<1>2. mil \in 0 .. l[o] - 1 /\ inf < mil /\ mil < sup
  BY <1>1 DEF mil
<1>3. l' = l /\ v' = v /\ Index' = Index /\ Base' = o
  BY <1>1 DEF Avancer, tas, Base
<1>4. \A k \in 0 .. l[o] - 1 : ClefIndex(o, k) \in Clefs
  <2>. SUFFICES ASSUME NEW k \in 0 .. l[o] - 1 PROVE ClefIndex(o, k) \in Clefs
    OBVIOUS
  <2>1. Index[o][k].i \in 0 .. l[o] - 1
    BY <1>1 DEF IInv, Trie, EntreesJustes
  <2>2. v[o] \in [0 .. l[o] - 1 -> Paires]
    BY <1>1 DEF IInv, TypeOK
  <2>. QED BY <2>1, <2>2 DEF ClefIndex, Paires
<1>5. \A j, k \in 0 .. l[o] - 1 : j < k => Avant(ClefIndex(o, j), ClefIndex(o, k))
  BY <1>1 DEF IInv, Trie, Croissant
<1>6. \A k \in 0 .. l[o] - 1 : /\ k <= inf => Avant(ClefIndex(o, k), c)
                               /\ k >= sup => Avant(c, ClefIndex(o, k))
  BY <1>1 DEF IInv, Cadre
<1>7. Entree.hache = Empreinte[ClefIndex(o, mil)] /\ ClefDe(o, Entree) = ClefIndex(o, mil)
  BY <1>1, <1>2 DEF IInv, Trie, EntreesJustes, Entree, ClefDe, ClefIndex
<1>8. SUFFICES /\ inf' \in -1 .. sup' - 1 /\ sup' \in 0 .. l[o]
               /\ \A k \in 0 .. l[o] - 1 : /\ k <= inf' => Avant(ClefIndex(o, k), c)
                                           /\ k >= sup' => Avant(c, ClefIndex(o, k))
  BY <1>1, <1>3 DEF Cadre, ClefIndex
<1>9. CASE Moins(Entree.hache, c, ClefDe(o, Entree)) /\ sup' = mil /\ inf' = inf
  <2>1. Avant(c, ClefIndex(o, mil))
    BY <1>7, <1>9 DEF Moins, Avant
  <2>2. \A k \in 0 .. l[o] - 1 : k >= mil => Avant(c, ClefIndex(o, k))
    BY <1>1, <1>2, <1>4, <1>5, <2>1, Ordre
  <2>3. sup' = mil /\ inf' = inf
    BY <1>9
  <2>4. inf' \in -1 .. sup' - 1 /\ sup' \in 0 .. l[o]
    BY <1>1, <1>2, <2>3
  <2>. QED BY <1>6, <2>2, <2>3, <2>4
<1>10. CASE Plus(Entree.hache, c, ClefDe(o, Entree)) /\ inf' = mil /\ sup' = sup
  <2>0. \A d \in Clefs : Empreinte[d] \in Int /\ Rang[d] \in Nat
    BY HachageAssumption
  <2>1. Avant(ClefIndex(o, mil), c)
    BY <1>1, <1>2, <1>4, <1>7, <1>10, <2>0 DEF Plus, Avant
  <2>2. \A k \in 0 .. l[o] - 1 : k <= mil => Avant(ClefIndex(o, k), c)
    BY <1>1, <1>2, <1>4, <1>5, <2>1, Ordre
  <2>3. inf' \in -1 .. sup' - 1 /\ sup' \in 0 .. l[o]
    BY <1>1, <1>2, <1>10
  <2>. QED BY <1>6, <1>10, <2>2, <2>3
<1>. QED BY <1>9, <1>10 DEF Avancer, SupApres

\* Every step keeps the types.
LEMMA TypeSuivant == ASSUME IInv, [Next]_vars PROVE TypeOK'
<1>. USE DEF IInv
<1>1. CASE UNCHANGED vars
  BY <1>1 DEF TypeOK, vars
<1>2. ASSUME NEW x \in Variables, NEW c \in Clefs, HachageVal(x, c)
      PROVE  TypeOK'
  <2>1. op' \in Ops \cup {Repos} /\ inf' \in Int /\ sup' \in Int
    BY <1>2 DEF HachageVal, Chercher, Ops, TypeOK, recherche
  <2>2. op' # Repos => table'[op'.x] # Aucun
    BY <1>2 DEF HachageVal, Chercher, recherche, Repos
  <2>3. resultat' \in Valeurs \cup {Inconnu} /\ UNCHANGED <<table, ref, v, l, a, Index>>
    BY <1>2 DEF HachageVal, TypeOK, tas
  <2>. QED BY <2>1, <2>2, <2>3 DEF TypeOK
<1>3. ASSUME NEW x \in Variables, NEW c \in Clefs, NEW p \in Pointeurs \cup {Aucun},
             HachageRef(x, c, p)
      PROVE  TypeOK'
  <2>1. op' = [nom |-> "ref", x |-> x, clef |-> c, p |-> p] /\ op' \in Ops
    BY <1>3 DEF HachageRef, Chercher, Ops
  <2>2. CASE table[x] # Aucun /\ Chercher(table[x], op') /\ UNCHANGED <<table, ref, resultat, tas>>
    BY <2>1, <2>2 DEF TypeOK, Chercher, tas
  <2>3. ASSUME NEW o \in Objets, Devenir(x, o), inf' = -1, sup' = 0
        PROVE  TypeOK'
    <3>1. table' \in [Variables -> Objets \cup {Aucun}] /\ table'[x] # Aucun
      BY <2>3, HachageAssumption DEF Devenir, TypeOK
    <3>2. l' \in [Objets -> Nat] /\ a' \in [Objets -> Nat]
      BY <2>3 DEF Devenir, Remplir, TypeOK
    <3>3. \A u \in Objets : /\ l'[u] <= a'[u] /\ v'[u] \in [0 .. l'[u] - 1 -> Paires]
                            /\ Index'[u] \in [0 .. l'[u] - 1 -> Entrees]
      BY <2>3 DEF Devenir, Remplir, TypeOK, Rien
    <3>. QED BY <2>1, <2>3, <3>1, <3>2, <3>3 DEF TypeOK, Devenir, Remplir
  <2>. QED BY <1>3, <2>1, <2>2, <2>3 DEF HachageRef
<1>4. CASE Avancer
  <2>1. mil \in Int
    BY DEF TypeOK, mil
  <2>. QED BY <1>4, <2>1 DEF TypeOK, Avancer, SupApres, tas
<1>5. CASE Trouver \/ Absent \/ Ajouter
  <2>1. op \in Ops /\ op.x \in Variables /\ op.clef \in Clefs /\ Base \in Objets
    <3>1. op \in Ops
      BY <1>5 DEF TypeOK, Trouver, Absent, Ajouter, EnRecherche
    <3>2. op.x \in Variables /\ op.clef \in Clefs
      BY <3>1 DEF Ops
    <3>. QED BY <1>5, <3>1, <3>2 DEF TypeOK, Trouver, Absent, Ajouter, EnRecherche, Base
  <2>2. table' = table /\ op' = Repos /\ inf' = 0 /\ sup' = 0
    BY <1>5 DEF Trouver, Absent, Ajouter, Rendre, Fin
  <2>3. CASE Absent
    BY <2>2, <2>3 DEF TypeOK, Absent, tas
  <2>4. CASE Trouver
    <3>1. mil \in 0 .. l[Base] - 1
      BY <2>1, <2>4 DEF Trouver, EnRecherche, Cadre, mil, TypeOK
    <3>2. Entree.i \in 0 .. l[Base] - 1
      BY <2>1, <3>1 DEF Trie, EntreesJustes, Entree
    <3>3. v[Base] \in [0 .. l[Base] - 1 -> Paires]
      BY <2>1 DEF TypeOK
    <3>4. v[Base][Entree.i].Val \in Valeurs \cup {Inconnu}
      BY <3>2, <3>3 DEF Paires
    <3>5. resultat' \in Valeurs \cup {Inconnu}
      BY <2>4, <3>4 DEF Trouver, Rendre, TypeOK
    <3>6. ref' \in [Pointeurs -> [BaseH : Objets, Decalage : Nat] \cup {Aucun}]
      BY <2>1, <2>4, <3>2 DEF Trouver, Rendre, TypeOK
    <3>. QED BY <2>2, <2>4, <3>5, <3>6 DEF TypeOK, Trouver, tas
  <2>5. CASE Ajouter
    <3>. DEFINE n == l[Base]
                e == [i |-> n, hache |-> Empreinte[op.clef]]
    <3>1. n \in Nat /\ a[Base] \in Nat /\ n <= a[Base] /\ sup \in 0 .. n
      BY <2>1, <2>5 DEF TypeOK, Cadre, Ajouter
    <3>2. e \in Entrees
      BY <2>1, <3>1, HachageAssumption DEF Entrees
    <3>3. Inserer(e) \in [0 .. n -> Entrees]
      <4>1. \A k \in 0 .. n - 1 : Index[Base][k] \in Entrees
        BY <2>1 DEF TypeOK
      <4>2. \A k \in 0 .. n : /\ k < sup => k \in 0 .. n - 1
                              /\ k > sup => k - 1 \in 0 .. n - 1
        BY <3>1
      <4>. HIDE DEF e, n
      <4>3. \A k \in 0 .. n : (IF k < sup THEN Index[Base][k] ELSE IF k = sup THEN e
                               ELSE Index[Base][k - 1]) \in Entrees
        BY <3>1, <3>2, <4>1, <4>2
      <4>. QED BY <4>3 DEF Inserer, n
    <3>4. [k \in 0 .. n |-> IF k = n THEN [Clef |-> op.clef, Val |-> Inconnu] ELSE v[Base][k]]
            \in [0 .. n -> Paires]
      <4>1. v[Base] \in [0 .. n - 1 -> Paires]
        BY <2>1 DEF TypeOK
      <4>. QED BY <2>1, <3>1, <4>1 DEF Paires
    <3>5. l'[Base] = n + 1 /\ l' \in [Objets -> Nat] /\ (n + 1) - 1 = n
      BY <2>1, <2>5, <3>1 DEF Ajouter, TypeOK
    <3>6. a' \in [Objets -> Nat] /\ n + 1 <= a'[Base]
      BY <2>1, <2>5, <3>1, HachageAssumption, SMTT(20) DEF Ajouter, Places, TypeOK
    <3>7. \A u \in Objets : /\ l'[u] <= a'[u] /\ v'[u] \in [0 .. l'[u] - 1 -> Paires]
                            /\ Index'[u] \in [0 .. l'[u] - 1 -> Entrees]
      <4>. SUFFICES ASSUME NEW u \in Objets
                    PROVE  /\ l'[u] <= a'[u] /\ v'[u] \in [0 .. l'[u] - 1 -> Paires]
                           /\ Index'[u] \in [0 .. l'[u] - 1 -> Entrees]
        OBVIOUS
      <4>1. CASE u = Base
        <5>1. Index'[u] = Inserer(e)
          BY <2>1, <2>5, <4>1 DEF Ajouter, Numero, TypeOK
        <5>2. v'[u] = [k \in 0 .. n |-> IF k = n THEN [Clef |-> op.clef, Val |-> Inconnu]
                                        ELSE v[Base][k]]
          BY <2>1, <2>5, <4>1 DEF Ajouter, TypeOK
        <5>. QED BY <3>3, <3>4, <3>5, <3>6, <4>1, <5>1, <5>2
      <4>2. CASE u # Base
        <5>1. l'[u] = l[u] /\ a'[u] = a[u] /\ v'[u] = v[u] /\ Index'[u] = Index[u]
          BY <2>1, <2>5, <4>2 DEF Ajouter, TypeOK
        <5>. QED BY <5>1 DEF TypeOK
      <4>. QED BY <4>1, <4>2
    <3>8. DOMAIN v' = Objets /\ DOMAIN Index' = Objets
      BY <2>5 DEF Ajouter, TypeOK
    <3>9. /\ resultat' = resultat
          /\ ref' \in [Pointeurs -> [BaseH : Objets, Decalage : Nat] \cup {Aucun}]
      BY <2>1, <2>5, <3>1 DEF Ajouter, Rendre, Numero, TypeOK
    <3>. QED BY <2>2, <3>5, <3>6, <3>7, <3>8, <3>9 DEF TypeOK
  <2>. QED BY <1>5, <2>3, <2>4, <2>5
<1>6. ASSUME NEW p \in Pointeurs, LireRef(p) \/ Suivant(p)
      PROVE  TypeOK'
  <2>1. /\ ref[p] \in [BaseH : Objets, Decalage : Nat]
        /\ v[ref[p].BaseH][ref[p].Decalage] \in Paires
    BY <1>6 DEF LireRef, Suivant, Valide, TypeOK
  <2>2. CASE LireRef(p)
    BY <2>1, <2>2 DEF LireRef, TypeOK, tas, recherche, Paires
  <2>3. CASE Suivant(p)
    <3>1. [ref[p] EXCEPT !.Decalage = @ + 1] \in [BaseH : Objets, Decalage : Nat]
      BY <2>1
    <3>2. ref' = [ref EXCEPT ![p] = [ref[p] EXCEPT !.Decalage = @ + 1]]
      BY <2>3 DEF Suivant
    <3>3. ref' \in [Pointeurs -> [BaseH : Objets, Decalage : Nat] \cup {Aucun}]
      BY <3>1, <3>2 DEF TypeOK
    <3>. QED BY <2>3, <3>3 DEF Suivant, TypeOK, tas, recherche
  <2>. QED BY <1>6, <2>2, <2>3
<1>7. ASSUME NEW p \in Pointeurs, NEW w \in Valeurs, Ecrire(p, w)
      PROVE  TypeOK'
  <2>1. ref[p] \in [BaseH : Objets, Decalage : Nat] /\ ref[p].Decalage \in 0 .. l[ref[p].BaseH] - 1
    BY <1>7 DEF Ecrire, Valide, TypeOK
  <2>2. \A o \in Objets : v'[o] \in [0 .. l[o] - 1 -> Paires]
    <3>. DEFINE b == ref[p].BaseH
                d == ref[p].Decalage
    <3>1. v' = [v EXCEPT ![b] = [v[b] EXCEPT ![d] = [v[b][d] EXCEPT !.Val = w]]]
      BY <1>7 DEF Ecrire
    <3>2. \A o \in Objets : v[o] \in [0 .. l[o] - 1 -> Paires]
      BY DEF TypeOK
    <3>3. [v[b][d] EXCEPT !.Val = w] \in Paires
      <4>1. v[b][d] \in Paires
        BY <2>1, <3>2
      <4>. QED BY <4>1 DEF Paires
    <3>4. v'[b] = [v[b] EXCEPT ![d] = [v[b][d] EXCEPT !.Val = w]]
      BY <2>1, <3>1 DEF TypeOK
    <3>. HIDE DEF b, d
    <3>5. v'[b] \in [0 .. l[b] - 1 -> Paires]
      <4>1. b \in Objets
        BY <2>1 DEF b
      <4>2. v[b] \in [0 .. l[b] - 1 -> Paires]
        BY <3>2, <4>1, Zenon
      <4>. QED BY <3>3, <3>4, <4>2
    <3>6. \A o \in Objets : o # b => v'[o] = v[o]
      BY <3>1 DEF TypeOK
    <3>. QED BY <3>2, <3>5, <3>6
  <2>. QED BY <1>7, <2>2 DEF Ecrire, TypeOK, recherche
<1>8. ASSUME NEW p \in Pointeurs, NEW x \in Variables, Premier(p, x)
      PROVE  TypeOK'
  BY <1>8 DEF Premier, TypeOK, tas, recherche
<1>9. ASSUME NEW x \in Variables, NEW y \in Variables, InstanceDe(x, y)
      PROVE  TypeOK'
  BY <1>9 DEF InstanceDe, TypeOK, tas, recherche
<1>10. ASSUME NEW x \in Variables, NEW y \in Variables, NEW o \in Objets, Copier(x, y, o)
       PROVE  TypeOK'
  <2>1. table[y] \in Objets
    BY <1>10 DEF Copier, TypeOK
  <2>2. /\ l' \in [Objets -> Nat] /\ a' \in [Objets -> Nat]
        /\ DOMAIN v' = Objets /\ DOMAIN Index' = Objets
    BY <1>10, <2>1 DEF Copier, Remplir, TypeOK
  <2>3. /\ l'[o] = l[table[y]] /\ a'[o] = l[table[y]]
        /\ v'[o] = v[table[y]] /\ Index'[o] = Index[table[y]]
    BY <1>10 DEF Copier, Remplir, TypeOK
  <2>4. \A u \in Objets : u # o => /\ l'[u] = l[u] /\ a'[u] = a[u]
                                  /\ v'[u] = v[u] /\ Index'[u] = Index[u]
    BY <1>10 DEF Copier, Remplir, TypeOK
  <2>5. \A u \in Objets : /\ l'[u] <= a'[u]
                          /\ v'[u] \in [0 .. l'[u] - 1 -> Paires]
                          /\ Index'[u] \in [0 .. l'[u] - 1 -> Entrees]
    <3>1. /\ l[table[y]] \in Nat
          /\ v[table[y]] \in [0 .. l[table[y]] - 1 -> Paires]
          /\ Index[table[y]] \in [0 .. l[table[y]] - 1 -> Entrees]
      BY <2>1 DEF TypeOK
    <3>2. /\ l'[o] <= a'[o]
          /\ v'[o] \in [0 .. l'[o] - 1 -> Paires]
          /\ Index'[o] \in [0 .. l'[o] - 1 -> Entrees]
      BY <2>3, <3>1
    <3>. QED BY <2>4, <3>2 DEF TypeOK
  <2>6. /\ table' \in [Variables -> Objets \cup {Aucun}]
        /\ op # Repos => table'[op.x] # Aucun
    BY <1>10, <2>1 DEF Copier, TypeOK
  <2>. QED BY <1>10, <2>2, <2>5, <2>6 DEF Copier, TypeOK, recherche
<1>. QED BY <1>1, <1>2, <1>3, <1>4, <1>5, <1>6, <1>7, <1>8, <1>9, <1>10 DEF Next, ObtId

\* Writing a value leaves the keys alone.
LEMMA ClefsGardees ==
  ASSUME TypeOK, NEW p \in Pointeurs, NEW w, Ecrire(p, w)
  PROVE  \A o \in Objets : \A n \in 0 .. l[o] - 1 : v'[o][n].Clef = v[o][n].Clef
<1>. DEFINE b == ref[p].BaseH
            d == ref[p].Decalage
<1>1. b \in Objets /\ d \in 0 .. l[b] - 1
  BY DEF TypeOK, Ecrire, Valide
<1>2. v' = [v EXCEPT ![b] = [v[b] EXCEPT ![d] = [v[b][d] EXCEPT !.Val = w]]]
  BY DEF Ecrire
<1>. HIDE DEF b, d
<1>3. v[b][d] \in Paires /\ v[b] \in [0 .. l[b] - 1 -> Paires]
  BY <1>1 DEF TypeOK
<1>4. [v[b][d] EXCEPT !.Val = w].Clef = v[b][d].Clef
  BY <1>3 DEF Paires
<1>5. DOMAIN v = Objets
  BY DEF TypeOK
<1>6. v'[b] = [v[b] EXCEPT ![d] = [v[b][d] EXCEPT !.Val = w]]
  BY <1>1, <1>2, <1>5
<1>7. \A o \in Objets : o # b => v'[o] = v[o]
  BY <1>2, <1>5
<1>. QED BY <1>1, <1>3, <1>4, <1>6, <1>7

\* Every step keeps the index sorted.
LEMMA TrieSuivant == ASSUME IInv, [Next]_vars PROVE Trie'
<1>. USE DEF IInv
<1>1. CASE UNCHANGED <<v, l, Index>>
  BY <1>1, MemesTables
<1>2. CASE Ajouter
  BY <1>2, Insertion
<1>3. ASSUME NEW x \in Variables, NEW o \in Objets, Devenir(x, o)
      PROVE  Trie'
  <2>1. 0 .. 0 - 1 = {}
    OBVIOUS
  <2>. QED BY <1>3, <2>1, UneTable DEF Devenir, Remplir
<1>4. ASSUME NEW x \in Variables, NEW y \in Variables, NEW o \in Objets, Copier(x, y, o)
      PROVE  Trie'
  <2>. DEFINE t == table[y]
  <2>1. t \in Objets /\ l[t] \in Nat
    BY <1>4 DEF Copier, TypeOK
  <2>2. /\ \A k \in 0 .. l[t] - 1 :
             /\ Index[t][k].i \in 0 .. l[t] - 1
             /\ Index[t][k].hache = Empreinte[v[t][Index[t][k].i].Clef]
        /\ \A j, k \in 0 .. l[t] - 1 :
             j < k => Avant(v[t][Index[t][j].i].Clef, v[t][Index[t][k].i].Clef)
        /\ \A m \in 0 .. l[t] - 1 : \E k \in 0 .. l[t] - 1 : Index[t][k].i = m
    BY <2>1 DEF Trie, EntreesJustes, Croissant, Complet, ClefIndex
  <2>3. /\ v' = [v EXCEPT ![o] = v[t]] /\ Index' = [Index EXCEPT ![o] = Index[t]]
        /\ l' = [l EXCEPT ![o] = l[t]]
    BY <1>4 DEF Copier, Remplir
  <2>. HIDE DEF t
  <2>. QED BY <2>1, <2>2, <2>3, UneTable
<1>5. ASSUME NEW p \in Pointeurs, NEW w \in Valeurs, Ecrire(p, w)
      PROVE  Trie'
  BY <1>5, ClefsGardees, MemesTables DEF Ecrire
<1>. QED
  BY <1>1, <1>2, <1>3, <1>4, <1>5
  DEF Next, ObtId, vars, tas, HachageRef, HachageVal, Avancer, Trouver, Absent, LireRef, Suivant,
      Premier, InstanceDe

\* Every step keeps what the bounds of ObtId know true.
LEMMA CadreSuivant == ASSUME IInv, [Next]_vars PROVE Cadre'
<1>. USE DEF IInv
<1>1. CASE op' = Repos
  BY <1>1 DEF Cadre
<1>2. CASE UNCHANGED vars
  BY <1>2 DEF Cadre, vars, Base, ClefIndex
<1>3. CASE Avancer
  BY <1>3, Bissection
<1>4. ASSUME NEW x \in Variables, NEW c \in Clefs, HachageVal(x, c), op' # Repos
      PROVE  Cadre'
  <2>1. /\ table' = table /\ table[x] \in Objets /\ l' = l
        /\ op'.x = x /\ inf' = -1 /\ sup' = l[table[x]]
    BY <1>4 DEF HachageVal, Chercher, TypeOK, tas, recherche
  <2>. QED BY <1>4, <2>1, DebutCadre DEF Base, TypeOK
<1>5. ASSUME NEW x \in Variables, NEW c \in Clefs, NEW p \in Pointeurs \cup {Aucun},
             HachageRef(x, c, p), op' # Repos
      PROVE  Cadre'
  <2>1. op'.x = x
    BY <1>5 DEF HachageRef, Chercher
  <2>2. CASE table[x] # Aucun
    <3>1. /\ table' = table /\ table[x] \in Objets /\ l' = l
          /\ inf' = -1 /\ sup' = l[table[x]]
      BY <1>5, <2>2 DEF HachageRef, Chercher, TypeOK, tas, Devenir
    <3>. QED BY <1>5, <2>1, <3>1, DebutCadre DEF Base, TypeOK
  <2>3. ASSUME NEW o \in Objets, Devenir(x, o), inf' = -1, sup' = 0
        PROVE  Cadre'
    <3>1. table'[x] = o /\ l'[o] = 0
      BY <2>3 DEF Devenir, Remplir, TypeOK
    <3>. QED BY <1>5, <2>1, <2>3, <3>1, DebutCadre DEF Base
  <2>. QED BY <1>5, <2>2, <2>3 DEF HachageRef
<1>. QED
  BY <1>1, <1>2, <1>3, <1>4, <1>5
  DEF Next, ObtId, Trouver, Absent, Ajouter, Rendre, Fin, LireRef, Suivant, Ecrire, Premier,
      InstanceDe, Copier, recherche

\* The inductive invariant: types, sorted indexes, and what ObtId knows.
THEOREM Invariant == Spec => []IInv
<1>1. Init => IInv
  BY InitIInv
<1>2. IInv /\ [Next]_vars => IInv'
  BY TypeSuivant, TrieSuivant, CadreSuivant DEF IInv
<1>. QED BY <1>1, <1>2, PTL DEF Spec

\* The variables of Hachage keep their types: in particular no table ever
\* holds more pairs than it has places for.
THEOREM TypeCorrect == Spec => []TypeOK
<1>1. IInv => TypeOK
  BY DEF IInv
<1>. QED BY <1>1, Invariant, PTL

\* The index of every table is always sorted, exact and complete, for any
\* keys and any hash values.
THEOREM IndexTrie == Spec => []Trie
<1>1. IInv => Trie
  BY DEF IInv
<1>. QED BY <1>1, Invariant, PTL

\* No table ever holds the same key twice.
THEOREM UneFoisChaque == Spec => []ClefsUniques
<1>1. IInv => ClefsUniques
  BY Uniques DEF IInv
<1>. QED BY <1>1, Invariant, PTL

\* Every turn of the loop of ObtId halves what is left to search.
THEOREM RechercheCourte == Spec => RechercheDivise
<1>1. IInv /\ [Next]_vars => [op # Repos /\ op' = op => 2 * (sup' - inf') <= sup - inf + 1]_vars
  <2>. SUFFICES ASSUME IInv, [Next]_vars, op # Repos, op' = op, vars' # vars
                PROVE  2 * (sup' - inf') <= sup - inf + 1
    OBVIOUS
  <2>1. Avancer
    BY DEF Next, ObtId, Trouver, Absent, Ajouter, Rendre, Fin, HachageRef, HachageVal, LireRef,
           Suivant, Ecrire, Premier, InstanceDe, Copier
  <2>2. inf \in Int /\ sup \in Int
    BY DEF IInv, TypeOK
  <2>3. \/ sup' = mil /\ inf' = inf
        \/ inf' = mil /\ sup' = sup
    BY <2>1 DEF Avancer, SupApres
  <2>4. mil \in Int /\ 2 * mil <= inf + sup /\ inf + sup <= 2 * mil + 1
    BY <2>2 DEF mil
  <2>5. CASE sup' = mil /\ inf' = inf
    BY <2>2, <2>4, <2>5
  <2>6. CASE inf' = mil /\ sup' = sup
    BY <2>2, <2>4, <2>6
  <2>. QED BY <2>3, <2>5, <2>6
<1>. QED BY <1>1, Invariant, PTL DEF Spec, RechercheDivise

\* Only the table that an HachageRef in progress has just made is empty.
PleineOuNeuve ==
  \A x \in Variables :
    table[x] # Aucun /\ l[table[x]] = 0 => op # Repos /\ op.nom = "ref" /\ Base = table[x]

\* A search does not find a key in a table without pairs.
LEMMA TrouverPleine == ASSUME IInv, Trouver PROVE l[Base] > 0
<1>1. op # Repos /\ inf < sup - 1
  BY DEF Trouver, EnRecherche
<1>2. inf \in -1 .. sup - 1 /\ sup \in 0 .. l[Base] /\ l[Base] \in Nat
  BY <1>1 DEF IInv, Cadre, TypeOK, Base, Ops, Repos
<1>. QED BY <1>1, <1>2

\* A script never has an empty table in its hands: one is made only to put an
\* element in it, and copies are made of tables that have some.
THEOREM TablesPleines == Spec => []JamaisVide
<1>1. Init => PleineOuNeuve
  BY DEF Init, PleineOuNeuve
<1>2. IInv /\ PleineOuNeuve /\ [Next]_vars => PleineOuNeuve'
  <2>. SUFFICES ASSUME IInv, PleineOuNeuve, [Next]_vars PROVE PleineOuNeuve'
    OBVIOUS
  <2>0. /\ TypeOK /\ table \in [Variables -> Objets \cup {Aucun}]
        /\ l \in [Objets -> Nat]
    BY DEF IInv, TypeOK
  <2>1. CASE UNCHANGED <<table, l, op>>
    BY <2>1 DEF PleineOuNeuve, Base
  <2>2. ASSUME NEW x \in Variables, NEW c \in Clefs, HachageVal(x, c)
        PROVE  PleineOuNeuve'
    BY <2>0, <2>2 DEF HachageVal, Chercher, PleineOuNeuve, tas, recherche
  <2>3. ASSUME NEW x \in Variables, NEW c \in Clefs, NEW p \in Pointeurs \cup {Aucun},
               HachageRef(x, c, p)
        PROVE  PleineOuNeuve'
    <3>1. op = Repos /\ op' = [nom |-> "ref", x |-> x, clef |-> c, p |-> p]
      BY <2>3 DEF HachageRef, Chercher
    <3>2. op' # Repos /\ op'.nom = "ref" /\ op'.x = x
      BY <3>1 DEF Repos
    <3>3. \A y \in Variables : table[y] # Aucun => l[table[y]] # 0
      BY <3>1 DEF PleineOuNeuve
    <3>4. CASE table' = table /\ l' = l
      BY <3>3, <3>4 DEF PleineOuNeuve
    <3>5. ASSUME NEW o \in Objets, Devenir(x, o)
          PROVE  PleineOuNeuve'
      <4>1. table' = [table EXCEPT ![x] = o] /\ l' = [l EXCEPT ![o] = 0]
            /\ \A y \in Variables : table[y] # o
        BY <3>5 DEF Devenir, Libre, Remplir
      <4>2. \A y \in Variables : y # x => table'[y] = table[y]
        BY <2>0, <4>1
      <4>3. \A y \in Variables : table[y] # Aucun => l'[table[y]] = l[table[y]]
        BY <2>0, <4>1
      <4>4. table'[x] = o
        BY <2>0, <4>1
      <4>. QED BY <3>2, <3>3, <4>2, <4>3, <4>4 DEF PleineOuNeuve, Base
    <3>6. (table' = table /\ l' = l) \/ \E o \in Objets : Devenir(x, o)
      BY <2>3, Zenon DEF HachageRef, tas
    <3>. QED BY <3>4, <3>5, <3>6
  <2>4. CASE Absent
    BY <2>4 DEF Absent, tas, PleineOuNeuve, Fin
  <2>5. CASE Trouver
    BY <2>5, TrouverPleine DEF Trouver, Rendre, tas, PleineOuNeuve
  <2>6. CASE Ajouter
    <3>1. op # Repos /\ Base \in Objets /\ table' = table
          /\ l' = [l EXCEPT ![Base] = @ + 1]
      BY <2>0, <2>6 DEF Ajouter, Rendre, Base, TypeOK, Ops, Repos
    <3>2. \A o \in Objets : l'[o] = IF o = Base THEN l[o] + 1 ELSE l[o]
      BY <2>0, <3>1
    <3>3. \A y \in Variables : table[y] # Aucun => l'[table[y]] # 0
      BY <2>0, <3>1, <3>2 DEF PleineOuNeuve
    <3>. QED BY <3>1, <3>3 DEF PleineOuNeuve
  <2>7. ASSUME NEW x \in Variables, NEW y \in Variables, NEW o \in Objets, Copier(x, y, o)
        PROVE  PleineOuNeuve'
    <3>1. /\ op = Repos /\ table[y] \in Objets
          /\ table' = [table EXCEPT ![x] = o] /\ l' = [l EXCEPT ![o] = l[table[y]]]
          /\ \A z \in Variables : table[z] # o
      BY <2>0, <2>7 DEF Copier, Libre, Remplir
    <3>2. \A z \in Variables : table[z] # Aucun => l[table[z]] # 0
      BY <3>1 DEF PleineOuNeuve
    <3>3. \A z \in Variables : z # x => table'[z] = table[z]
      BY <2>0, <3>1
    <3>4. \A z \in Variables : table[z] # Aucun => l'[table[z]] = l[table[z]]
      BY <2>0, <3>1
    <3>5. table'[x] = o /\ l'[o] = l[table[y]] /\ l[table[y]] # 0
      BY <2>0, <3>1, <3>2, HachageAssumption
    <3>6. ASSUME NEW z \in Variables, table'[z] # Aucun
          PROVE  l'[table'[z]] # 0
      <4>1. CASE z = x
        BY <3>5, <4>1
      <4>2. CASE z # x
        <5>1. table'[z] = table[z] /\ table[z] # Aucun
          BY <3>3, <3>6, <4>2
        <5>. QED BY <3>2, <3>4, <5>1
      <4>. QED BY <4>1, <4>2
    <3>. QED BY <3>6, Zenon DEF PleineOuNeuve
  <2>8. ASSUME NEW x \in Variables, NEW y \in Variables, InstanceDe(x, y)
        PROVE  PleineOuNeuve'
    <3>1. op = Repos /\ table' = [table EXCEPT ![x] = table[y]] /\ l' = l
      BY <2>8 DEF InstanceDe, tas
    <3>2. \A z \in Variables : table[z] # Aucun => l[table[z]] # 0
      BY <3>1 DEF PleineOuNeuve
    <3>3. \A z \in Variables : table'[z] = table[z] \/ table'[z] = table[y]
      BY <2>0, <3>1
    <3>. QED BY <3>1, <3>2, <3>3 DEF PleineOuNeuve
  <2>. QED
    BY <2>1, <2>2, <2>3, <2>4, <2>5, <2>6, <2>7, <2>8
    DEF Next, ObtId, Avancer, LireRef, Suivant, Ecrire, Premier, vars, tas, recherche
<1>3. IInv /\ PleineOuNeuve => JamaisVide
  BY DEF IInv, TypeOK, PleineOuNeuve, JamaisVide
<1>. QED BY <1>1, <1>2, <1>3, Invariant, PTL DEF Spec

-----------------------------------------------------------------------------
(* Hachage implements Dictionnaires.  What a table stands for is a function *)
(* of its pairs w and of their number n, whatever its index.                *)

OrdreDe(w, n) == [k \in 1 .. n |-> w[k - 1].Clef]
ClefsDe(w, n) == {w[k].Clef : k \in 0 .. n - 1}
ContenuDe(w, n) == [c \in ClefsDe(w, n) |-> w[CHOOSE k \in 0 .. n - 1 : w[k].Clef = c].Val]
Differentes(w, n) == \A j, k \in 0 .. n - 1 : w[j].Clef = w[k].Clef => j = k
\* W is w with one more pair, of key c, or with the value z for the pair d.
Allongees(w, W, n, c) ==
  (\A k \in 0 .. n - 1 : W[k] = w[k]) /\ W[n].Clef = c /\ W[n].Val = Inconnu
Reecrites(w, W, n, d, z) ==
  \A k \in 0 .. n - 1 : W[k].Clef = w[k].Clef /\ W[k].Val = IF k = d THEN z ELSE w[k].Val
AvecClef(C, c) == [d \in DOMAIN C \cup {c} |-> IF d = c THEN Inconnu ELSE C[d]]
Vue(r, V, L) ==
  IF r = Aucun THEN Aucun
  ELSE [base |-> r.BaseH,
        clef |-> IF r.Decalage < L[r.BaseH] THEN V[r.BaseH][r.Decalage].Clef ELSE Bout]

OrdreSur(V, L) == [o \in Objets |-> OrdreDe(V[o], L[o])]
ContenuSur(V, L) == [o \in Objets |-> ContenuDe(V[o], L[o])]
RefSur(r, V, L) == [p \in Pointeurs |-> Vue(r[p], V, L)]

\* A reference designates a pair or the place after the last one.
RefsJustes == \A p \in Pointeurs : ref[p] # Aucun => ref[p].Decalage <= l[ref[p].BaseH]

\* The refinement mapping before and after a step.
LEMMA Vues ==
  /\ OrdreAbs = OrdreSur(v, l) /\ OrdreAbs' = OrdreSur(v', l')
  /\ ContenuAbs = ContenuSur(v, l) /\ ContenuAbs' = ContenuSur(v', l')
  /\ RefAbs = RefSur(ref, v, l) /\ RefAbs' = RefSur(ref', v', l')
BY DEF OrdreAbs, OrdreSur, OrdreDe, ContenuAbs, ContenuSur, ContenuDe, ClefsDe, RefAbs, RefSur, Vue,
       Valide

\* The value of a key is that of the only pair that has it.
LEMMA ValeurDe ==
  ASSUME NEW n \in Nat, NEW w, Differentes(w, n), NEW k \in 0 .. n - 1
  PROVE  w[k].Clef \in ClefsDe(w, n) /\ ContenuDe(w, n)[w[k].Clef] = w[k].Val
<1>1. w[k].Clef \in ClefsDe(w, n)
  BY DEF ClefsDe
<1>2. (CHOOSE j \in 0 .. n - 1 : w[j].Clef = w[k].Clef) = k
  BY DEF Differentes
<1>. QED BY <1>1, <1>2 DEF ContenuDe

\* A pair at the end adds its key at the end.
LEMMA OrdreAllonge ==
  ASSUME NEW n \in Nat, NEW w, NEW W, NEW c, Allongees(w, W, n, c)
  PROVE  OrdreDe(W, n + 1) = Append(OrdreDe(w, n), c)
<1>. USE DEF Allongees
<1>. DEFINE s == OrdreDe(w, n)
            t == Append(s, c)
            S == {w[k - 1].Clef : k \in 1 .. n} \cup {c}
<1>1. s \in Seq(S) /\ Len(s) = n /\ \A k \in 1 .. n : s[k] = w[k - 1].Clef
  <2>1. s \in [1 .. n -> S]
    BY DEF OrdreDe
  <2>2. s \in Seq(S)
    <3>. HIDE DEF s, S
    <3>. QED BY <2>1, SeqDef
  <2>3. \A k \in 1 .. n : s[k] = w[k - 1].Clef
    BY DEF OrdreDe
  <2>4. DOMAIN s = 1 .. n
    BY DEF OrdreDe
  <2>. HIDE DEF s
  <2>. QED BY <2>2, <2>3, <2>4
<1>. HIDE DEF s
<1>2. t \in Seq(S) /\ Len(t) = n + 1 /\ (\A k \in 1 .. n : t[k] = s[k]) /\ t[n + 1] = c
  BY <1>1
<1>. HIDE DEF t, S
<1>3. DOMAIN t = 1 .. n + 1 /\ t = [k \in 1 .. n + 1 |-> t[k]]
  BY <1>2
<1>4. ASSUME NEW k \in 1 .. n + 1 PROVE W[k - 1].Clef = t[k]
  <2>1. CASE k = n + 1
    BY <1>2, <2>1
  <2>2. CASE k # n + 1
    <3>1. k \in 1 .. n /\ k - 1 \in 0 .. n - 1
      BY <2>2
    <3>. QED BY <1>1, <1>2, <3>1
  <2>. QED BY <2>1, <2>2
<1>5. OrdreDe(W, n + 1) = t
  BY <1>3, <1>4 DEF OrdreDe
<1>. QED BY <1>5 DEF t, s

\* A new key adds its value and changes no other.
LEMMA ContenuAllonge ==
  ASSUME NEW n \in Nat, NEW w, NEW W, NEW c, Differentes(w, n), c \notin ClefsDe(w, n),
         Allongees(w, W, n, c)
  PROVE  ContenuDe(W, n + 1) = AvecClef(ContenuDe(w, n), c)
<1>. USE DEF Allongees
<1>0. (n + 1) - 1 = n /\ n + 1 \in Nat
  OBVIOUS
<1>1. Differentes(W, n + 1)
  <2>. SUFFICES ASSUME NEW j \in 0 .. n, NEW k \in 0 .. n, W[j].Clef = W[k].Clef PROVE j = k
    BY <1>0 DEF Differentes
  <2>1. \A i \in 0 .. n - 1 : w[i].Clef # c
    BY DEF ClefsDe
  <2>. QED BY <2>1 DEF Differentes
<1>2. ClefsDe(W, n + 1) = ClefsDe(w, n) \cup {c}
  BY <1>0 DEF ClefsDe
<1>3. ASSUME NEW d \in ClefsDe(w, n) \cup {c}
      PROVE  ContenuDe(W, n + 1)[d] = IF d = c THEN Inconnu ELSE ContenuDe(w, n)[d]
  <2>1. CASE d = c
    <3>1. n \in 0 .. (n + 1) - 1
      BY <1>0
    <3>2. ContenuDe(W, n + 1)[W[n].Clef] = W[n].Val
      BY <1>0, <1>1, <3>1, ValeurDe
    <3>. QED BY <2>1, <3>2
  <2>2. CASE d # c
    <3>1. PICK k \in 0 .. n - 1 : d = w[k].Clef
      BY <2>2 DEF ClefsDe
    <3>2. k \in 0 .. (n + 1) - 1 /\ W[k] = w[k]
      BY <1>0
    <3>3. ContenuDe(W, n + 1)[W[k].Clef] = W[k].Val
      BY <1>0, <1>1, <3>2, ValeurDe
    <3>4. ContenuDe(w, n)[w[k].Clef] = w[k].Val
      BY ValeurDe
    <3>. QED BY <2>2, <3>1, <3>2, <3>3, <3>4
  <2>. QED BY <2>1, <2>2
<1>. DEFINE A == ContenuDe(W, n + 1)
            B(d) == IF d = c THEN Inconnu ELSE ContenuDe(w, n)[d]
<1>4. A = [d \in ClefsDe(W, n + 1) |-> A[d]]
  BY DEF ContenuDe
<1>. HIDE DEF A
<1>5. \A d \in ClefsDe(w, n) \cup {c} : A[d] = B(d)
  BY <1>3 DEF A
<1>. HIDE DEF B
<1>6. A = [d \in ClefsDe(w, n) \cup {c} |-> B(d)]
  BY <1>2, <1>4, <1>5
<1>7. DOMAIN ContenuDe(w, n) = ClefsDe(w, n)
  BY DEF ContenuDe
<1>. QED BY <1>6, <1>7 DEF A, B, AvecClef

\* Writing the value of a pair writes that of its key.
LEMMA ContenuEcrit ==
  ASSUME NEW n \in Nat, NEW w, NEW W, NEW d \in 0 .. n - 1, NEW z, Differentes(w, n),
         Reecrites(w, W, n, d, z)
  PROVE  /\ OrdreDe(W, n) = OrdreDe(w, n)
         /\ ContenuDe(W, n) = [ContenuDe(w, n) EXCEPT ![w[d].Clef] = z]
<1>. USE DEF Reecrites
<1>1. OrdreDe(W, n) = OrdreDe(w, n)
  BY DEF OrdreDe
<1>2. Differentes(W, n) /\ ClefsDe(W, n) = ClefsDe(w, n)
  BY DEF Differentes, ClefsDe
<1>3. ASSUME NEW c \in ClefsDe(w, n)
      PROVE  ContenuDe(W, n)[c] = IF c = w[d].Clef THEN z ELSE ContenuDe(w, n)[c]
  <2>1. PICK k \in 0 .. n - 1 : c = w[k].Clef
    BY DEF ClefsDe
  <2>2. ContenuDe(W, n)[W[k].Clef] = W[k].Val /\ ContenuDe(w, n)[w[k].Clef] = w[k].Val
    BY <1>2, ValeurDe
  <2>3. c = w[d].Clef <=> k = d
    BY <2>1 DEF Differentes
  <2>. QED BY <2>1, <2>2, <2>3
<1>4. DOMAIN ContenuDe(w, n) = ClefsDe(w, n) /\ w[d].Clef \in ClefsDe(w, n)
  BY DEF ContenuDe, ClefsDe
<1>5. ContenuDe(W, n) = [c \in ClefsDe(w, n) |-> IF c = w[d].Clef THEN z ELSE ContenuDe(w, n)[c]]
  BY <1>2, <1>3 DEF ContenuDe
<1>. QED BY <1>1, <1>4, <1>5

Fidele == IInv /\ RefsJustes

\* The pair that an instruction looks for is in a table of a script.
LEMMA Cherchee ==
  ASSUME IInv, op # Repos
  PROVE  /\ Base \in Objets /\ l[Base] \in Nat /\ op.x \in Variables /\ op.clef \in Clefs
         /\ table[op.x] = Base /\ Base # Aucun
         /\ op.nom \in {"ref", "val"} /\ (op.nom = "ref" => op.p \in Pointeurs \cup {Aucun})
         /\ Differentes(v[Base], l[Base])
<1>1. op \in Ops /\ table \in [Variables -> Objets \cup {Aucun}] /\ table[op.x] # Aucun
  BY DEF IInv, TypeOK
<1>2. /\ op.x \in Variables /\ op.clef \in Clefs /\ op.nom \in {"ref", "val"}
      /\ op.nom = "ref" => op.p \in Pointeurs \cup {Aucun}
  BY <1>1 DEF Ops
<1>3. Base \in Objets /\ l[Base] \in Nat
  BY <1>1, <1>2 DEF Base, IInv, TypeOK
<1>4. Differentes(v[Base], l[Base])
  BY <1>3, Uniques DEF IInv, ClefsUniques, Differentes
<1>. QED BY <1>1, <1>2, <1>3, <1>4 DEF Base

\* When ObtId ends on a pair, that pair has the key.
LEMMA PaireTrouvee ==
  ASSUME IInv, Trouver
  PROVE  Entree.i \in 0 .. l[Base] - 1 /\ v[Base][Entree.i].Clef = op.clef
<1>1. op # Repos /\ Base \in Objets /\ l[Base] \in Nat
  BY Cherchee DEF Trouver, EnRecherche
<1>2. inf \in -1 .. sup - 1 /\ sup \in 0 .. l[Base] /\ inf < sup - 1
  BY <1>1 DEF IInv, Cadre, Trouver, EnRecherche
<1>3. mil \in 0 .. l[Base] - 1
  BY <1>1, <1>2 DEF mil
<1>4. Entree.i \in 0 .. l[Base] - 1
  BY <1>1, <1>3 DEF IInv, Trie, EntreesJustes, Entree
<1>. QED BY <1>4 DEF Trouver, ClefDe

\* When its bounds meet, no pair has it.
LEMMA PaireAbsente ==
  ASSUME IInv, op # Repos, inf >= sup - 1
  PROVE  op.clef \notin ClefsDe(v[Base], l[Base])
<1>. SUFFICES ASSUME NEW n \in 0 .. l[Base] - 1, v[Base][n].Clef = op.clef PROVE FALSE
  BY DEF ClefsDe
<1>1. Base \in Objets /\ l[Base] \in Nat /\ op.clef \in Clefs
  BY Cherchee
<1>2. inf \in -1 .. sup - 1 /\ sup \in 0 .. l[Base]
  BY DEF IInv, Cadre
<1>3. PICK k \in 0 .. l[Base] - 1 : Index[Base][k].i = n
  BY <1>1 DEF IInv, Trie, Complet
<1>4. ClefIndex(Base, k) = op.clef
  BY <1>3 DEF ClefIndex
<1>5. (k <= inf => Avant(op.clef, op.clef)) /\ (k >= sup => Avant(op.clef, op.clef))
  BY <1>4 DEF IInv, Cadre
<1>6. k <= inf \/ k >= sup
  BY <1>1, <1>2
<1>. QED BY <1>1, <1>5, <1>6, Ordre

\* What Abs calls the value of a key.
LEMMA ValeurAbs ==
  ASSUME NEW o \in Objets, NEW c
  PROVE  Abs!Valeur(o, c) = IF o # Aucun /\ c \in ClefsDe(v[o], l[o]) THEN ContenuDe(v[o], l[o])[c]
                            ELSE Inconnu
<1>1. ContenuAbs[o] = ContenuDe(v[o], l[o])
  BY Vues DEF ContenuSur
<1>2. DOMAIN ContenuDe(v[o], l[o]) = ClefsDe(v[o], l[o])
  BY DEF ContenuDe
<1>. QED BY <1>1, <1>2 DEF Abs!Valeur

\* Steps that leave the pairs alone leave what they stand for.
LEMMA MemeContenu ==
  ASSUME v' = v, l' = l
  PROVE  /\ OrdreAbs' = OrdreAbs /\ ContenuAbs' = ContenuAbs
         /\ RefAbs' = RefSur(ref', v, l) /\ (ref' = ref => RefAbs' = RefAbs)
BY Vues

\* HACHAGEVAL that finds its key is Lire.
LEMMA AbsentAbstrait ==
  ASSUME Fidele, Absent
  PROVE  Abs!Lire(op.x, op.clef)
<1>1. op # Repos /\ inf >= sup - 1 /\ resultat' = Inconnu /\ UNCHANGED <<table, ref, v, l>>
  BY DEF Absent, tas
<1>2. Base \in Objets /\ table[op.x] = Base /\ op.clef \notin ClefsDe(v[Base], l[Base])
  BY <1>1, Cherchee, PaireAbsente DEF Fidele
<1>3. Abs!Valeur(table[op.x], op.clef) = Inconnu
  BY <1>2, ValeurAbs
<1>. QED BY <1>1, <1>3, MemeContenu DEF Abs!Lire

\* A search that finds the pair reads it or lets the reference designate it.
LEMMA TrouverAbstrait ==
  ASSUME Fidele, Trouver
  PROVE  \/ Abs!Lire(op.x, op.clef)
         \/ op.p \in Pointeurs \cup {Aucun} /\ Abs!Designer(op.x, op.clef, op.p)
<1>. DEFINE i == Entree.i
<1>1. op # Repos /\ UNCHANGED <<table, v, l>>
  BY DEF Trouver, EnRecherche, Rendre, tas
<1>2. /\ Base \in Objets /\ l[Base] \in Nat /\ op.x \in Variables /\ op.clef \in Clefs
      /\ table[op.x] = Base /\ Base # Aucun /\ Differentes(v[Base], l[Base])
      /\ op.nom = "ref" => op.p \in Pointeurs \cup {Aucun}
  BY <1>1, Cherchee DEF Fidele
<1>3. i \in 0 .. l[Base] - 1 /\ v[Base][i].Clef = op.clef
  BY PaireTrouvee DEF Fidele
<1>4. op.clef \in ClefsDe(v[Base], l[Base]) /\ ContenuDe(v[Base], l[Base])[op.clef] = v[Base][i].Val
  <2>. HIDE DEF i
  <2>. QED BY <1>2, <1>3, ValeurDe
<1>. HIDE DEF i
<1>5. CASE op.nom = "val" /\ resultat' = v[Base][i].Val /\ UNCHANGED ref
  <2>1. Abs!Valeur(table[op.x], op.clef) = v[Base][i].Val
    BY <1>2, <1>4, ValeurAbs
  <2>. QED BY <1>1, <1>5, <2>1, MemeContenu DEF Abs!Lire
<1>6. CASE /\ op.nom = "ref" /\ UNCHANGED resultat
           /\ ref' = [q \in Pointeurs |-> IF q = op.p THEN [BaseH |-> Base, Decalage |-> i] ELSE ref[q]]
  <2>1. ContenuAbs[Base] = ContenuDe(v[Base], l[Base])
    BY <1>2, Vues DEF ContenuSur
  <2>2. op.clef \in DOMAIN ContenuAbs[Base]
    BY <1>4, <2>1 DEF ContenuDe
  <2>3. Vue([BaseH |-> Base, Decalage |-> i], v, l) = [base |-> Base, clef |-> op.clef]
    <3>1. [BaseH |-> Base, Decalage |-> i] # Aucun
      BY <1>2, <1>3, ReferencesAssumption
    <3>2. i < l[Base]
      BY <1>2, <1>3
    <3>. QED BY <1>3, <3>1, <3>2 DEF Vue
  <2>4. RefSur(ref', v, l) =
          [q \in Pointeurs |-> IF q = op.p THEN [base |-> Base, clef |-> op.clef] ELSE RefSur(ref, v, l)[q]]
    BY <1>6, <2>3 DEF RefSur
  <2>5. Abs!Pointer(op.p, Base, op.clef)
    BY <1>1, <2>2, <2>4, Vues DEF Abs!Pointer
  <2>6. Abs!Designer(op.x, op.clef, op.p)
    BY <1>1, <1>2, <1>6, <2>2, <2>5, MemeContenu DEF Abs!Designer
  <2>. QED BY <1>2, <1>6, <2>6
<1>. QED BY <1>5, <1>6 DEF Trouver, Rendre, i

\* What is known of a reference that is one.
LEMMA RefJuste ==
  ASSUME Fidele, NEW p \in Pointeurs, ref[p] # Aucun
  PROVE  /\ ref[p].BaseH \in Objets /\ ref[p].Decalage \in 0 .. l[ref[p].BaseH]
         /\ l[ref[p].BaseH] \in Nat /\ Differentes(v[ref[p].BaseH], l[ref[p].BaseH])
         /\ ref[p] = [BaseH |-> ref[p].BaseH, Decalage |-> ref[p].Decalage]
<1>1. ref[p] \in [BaseH : Objets, Decalage : Nat]
  BY DEF Fidele, IInv, TypeOK
<1>2. ref[p].BaseH \in Objets /\ ref[p].Decalage \in Nat /\ ref[p].Decalage <= l[ref[p].BaseH]
      /\ ref[p] = [BaseH |-> ref[p].BaseH, Decalage |-> ref[p].Decalage]
  BY <1>1 DEF Fidele, RefsJustes
<1>3. l[ref[p].BaseH] \in Nat
  BY <1>2 DEF Fidele, IInv, TypeOK
<1>4. Differentes(v[ref[p].BaseH], l[ref[p].BaseH])
  BY <1>2, Uniques DEF Fidele, IInv, ClefsUniques, Differentes
<1>. QED BY <1>2, <1>3, <1>4

\* The keys of the pairs of a table.
LEMMA ClefsPaires ==
  ASSUME IInv, NEW o \in Objets, NEW n \in 0 .. l[o] - 1
  PROVE  v[o][n].Clef \in Clefs /\ v[o][n].Clef # Bout
BY ReferencesAssumption DEF IInv, TypeOK, Paires

\* What Abs sees of a reference.
LEMMA VueAbs ==
  ASSUME Fidele, NEW p \in Pointeurs
  PROVE  /\ RefAbs[p] = Vue(ref[p], v, l)
         /\ ref[p] = Aucun <=> RefAbs[p] = Aucun
         /\ ref[p] # Aucun => /\ RefAbs[p].base = ref[p].BaseH
                              /\ RefAbs[p].clef = IF Valide(p) THEN v[ref[p].BaseH][ref[p].Decalage].Clef
                                                  ELSE Bout
                              /\ Valide(p) <=> Abs!Designe(p)
<1>1. RefAbs[p] = Vue(ref[p], v, l)
  BY Vues DEF RefSur
<1>2. CASE ref[p] = Aucun
  BY <1>1, <1>2 DEF Vue
<1>3. CASE ref[p] # Aucun
  <2>. DEFINE b == ref[p].BaseH
              d == ref[p].Decalage
  <2>1. b \in Objets /\ d \in 0 .. l[b] /\ l[b] \in Nat
    BY <1>3, RefJuste
  <2>. HIDE DEF b, d
  <2>2. d < l[b] => v[b][d].Clef \in Clefs /\ v[b][d].Clef # Bout
    BY <2>1, ClefsPaires DEF Fidele
  <2>3. RefAbs[p] = [base |-> b, clef |-> IF d < l[b] THEN v[b][d].Clef ELSE Bout]
    BY <1>1, <1>3 DEF Vue, b, d
  <2>4. RefAbs[p] \in [base : Objets, clef : Clefs \cup {Bout}]
    BY <2>1, <2>2, <2>3
  <2>5. RefAbs[p] # Aucun
    BY <2>4, ReferencesAssumption
  <2>6. Valide(p) <=> d < l[b]
    BY <1>3 DEF Valide, b, d
  <2>. QED BY <1>1, <1>3, <2>2, <2>3, <2>5, <2>6 DEF Abs!Designe, b, d
<1>. QED BY <1>2, <1>3

\* ObtRef on a key that is not there is Designer, and the references that
\* were at the end of the table designate the new key.
LEMMA AjouterAbstrait ==
  ASSUME Fidele, Ajouter
  PROVE  op.p \in Pointeurs \cup {Aucun} /\ Abs!Designer(op.x, op.clef, op.p)
<1>. DEFINE o == Base
            c == op.clef
            n == l[o]
            N == [BaseH |-> o, Decalage |-> n]
            W == [k \in 0 .. n |-> IF k = n THEN [Clef |-> c, Val |-> Inconnu] ELSE v[o][k]]
            M == [base |-> o, clef |-> c]
<1>1. /\ op # Repos /\ op.nom = "ref" /\ inf >= sup - 1
      /\ l' = [l EXCEPT ![o] = n + 1] /\ v' = [v EXCEPT ![o] = W]
      /\ UNCHANGED <<table, resultat>>
      /\ ref' = [q \in Pointeurs |-> IF q = op.p THEN N ELSE ref[q]]
  BY DEF Ajouter, Rendre, Numero
<1>2. /\ o \in Objets /\ n \in Nat /\ op.x \in Variables /\ c \in Clefs
      /\ table[op.x] = o /\ o # Aucun /\ Differentes(v[o], n) /\ c \notin ClefsDe(v[o], n)
      /\ op.p \in Pointeurs \cup {Aucun}
  BY <1>1, Cherchee, PaireAbsente DEF Fidele
<1>3. DOMAIN v = Objets /\ l \in [Objets -> Nat]
  BY DEF Fidele, IInv, TypeOK
<1>4. /\ v'[o] = W /\ l'[o] = n + 1
      /\ \A u \in Objets : u # o => v'[u] = v[u] /\ l'[u] = l[u]
  BY <1>1, <1>2, <1>3
<1>5. /\ \A k \in 0 .. n - 1 : W[k] = v[o][k]
      /\ W[n].Clef = c /\ W[n].Val = Inconnu
  BY <1>2
<1>. HIDE DEF W
<1>5a. Allongees(v[o], W, n, c)
  BY <1>5 DEF Allongees
<1>6. OrdreDe(W, n + 1) = Append(OrdreDe(v[o], n), c)
  BY <1>2, <1>5a, OrdreAllonge
<1>7. ContenuDe(W, n + 1) = AvecClef(ContenuDe(v[o], n), c)
  BY <1>2, <1>5a, ContenuAllonge
<1>8. /\ ContenuAbs[o] = ContenuDe(v[o], n) /\ DOMAIN ContenuAbs[o] = ClefsDe(v[o], n)
      /\ OrdreAbs[o] = OrdreDe(v[o], n)
  BY <1>2, Vues DEF ContenuSur, ContenuDe, OrdreSur
<1>9. OrdreAbs' = [OrdreAbs EXCEPT ![o] = Append(OrdreAbs[o], c)]
  <2>1. \A u \in Objets : OrdreAbs'[u] = IF u = o THEN Append(OrdreAbs[o], c) ELSE OrdreAbs[u]
    BY <1>4, <1>6, <1>8, Vues DEF OrdreSur
  <2>2. OrdreAbs' = [u \in Objets |-> OrdreAbs'[u]] /\ OrdreAbs = [u \in Objets |-> OrdreAbs[u]]
    BY Vues DEF OrdreSur
  <2>. QED BY <2>1, <2>2
<1>10. ContenuAbs' = [ContenuAbs EXCEPT ![o] =
         [d \in DOMAIN ContenuAbs[o] \cup {c} |-> IF d = c THEN Inconnu ELSE ContenuAbs[o][d]]]
  <2>. DEFINE C == [d \in DOMAIN ContenuAbs[o] \cup {c} |-> IF d = c THEN Inconnu ELSE ContenuAbs[o][d]]
  <2>1. ContenuDe(W, n + 1) = C
    BY <1>7, <1>8 DEF AvecClef
  <2>. HIDE DEF C
  <2>2. \A u \in Objets : ContenuAbs'[u] = IF u = o THEN C ELSE ContenuAbs[u]
    BY <1>4, <2>1, Vues DEF ContenuSur
  <2>3. ContenuAbs' = [u \in Objets |-> ContenuAbs'[u]] /\ ContenuAbs = [u \in Objets |-> ContenuAbs[u]]
    BY Vues DEF ContenuSur
  <2>4. ContenuAbs' = [ContenuAbs EXCEPT ![o] = C]
    BY <2>2, <2>3
  <2>. QED BY <2>4 DEF C
<1>11. Abs!Pointer(op.p, o, c)
  <2>1. N # Aucun /\ Vue(N, v', l') = M
    <3>1. N # Aucun
      BY <1>2, ReferencesAssumption
    <3>2. n < n + 1
      BY <1>2
    <3>3. Vue(N, v', l') = [base |-> o, clef |-> IF n < l'[o] THEN v'[o][n].Clef ELSE Bout]
      BY <3>1 DEF Vue
    <3>. QED BY <1>4, <1>5, <3>1, <3>2, <3>3
  <2>2. ASSUME NEW q \in Pointeurs
        PROVE  Vue(ref[q], v', l') = IF RefAbs[q] = [base |-> o, clef |-> Bout] THEN M ELSE RefAbs[q]
    <3>0. RefAbs[q] = Vue(ref[q], v, l)
      BY VueAbs
    <3>1. CASE ref[q] = Aucun
      <4>1. [base |-> o, clef |-> Bout] # Aucun
        BY <1>2, ReferencesAssumption
      <4>. QED BY <3>0, <3>1, <4>1 DEF Vue
    <3>2. CASE ref[q] # Aucun
      <4>. DEFINE b == ref[q].BaseH
                  d == ref[q].Decalage
      <4>1. b \in Objets /\ d \in 0 .. l[b] /\ l[b] \in Nat
        BY <3>2, RefJuste
      <4>2. /\ RefAbs[q] = [base |-> b, clef |-> IF d < l[b] THEN v[b][d].Clef ELSE Bout]
            /\ Vue(ref[q], v', l') = [base |-> b, clef |-> IF d < l'[b] THEN v'[b][d].Clef ELSE Bout]
        BY <3>0, <3>2 DEF Vue
      <4>. HIDE DEF b, d
      <4>3. d < l[b] => v[b][d].Clef # Bout
        BY <4>1, ClefsPaires DEF Fidele
      <4>4. CASE b # o
        BY <1>4, <4>1, <4>2, <4>4
      <4>5. CASE b = o /\ d < n
        <5>1. d < l'[b] /\ v'[b][d] = v[b][d]
          BY <1>2, <1>4, <1>5, <4>1, <4>5
        <5>. QED BY <4>2, <4>3, <4>5, <5>1
      <4>6. CASE b = o /\ d = n
        <5>1. ~(d < l[b]) /\ d < l'[b] /\ v'[b][d].Clef = c
          BY <1>2, <1>4, <1>5, <4>1, <4>6
        <5>. QED BY <4>2, <4>6, <5>1
      <4>. QED BY <1>2, <4>1, <4>4, <4>5, <4>6
    <3>. QED BY <3>1, <3>2
  <2>3. c \notin DOMAIN ContenuAbs[o]
    BY <1>2, <1>8
  <2>4. \A q \in Pointeurs :
          RefAbs'[q] = IF q = op.p THEN M
                       ELSE IF RefAbs[q] = [base |-> o, clef |-> Bout] THEN M ELSE RefAbs[q]
    <3>1. \A q \in Pointeurs : RefAbs'[q] = Vue(ref'[q], v', l')
      BY Vues DEF RefSur
    <3>2. \A q \in Pointeurs : ref'[q] = IF q = op.p THEN N ELSE ref[q]
      BY <1>1
    <3>. HIDE DEF N, M
    <3>. QED BY <2>1, <2>2, <3>1, <3>2
  <2>5. RefAbs' = [q \in Pointeurs |-> RefAbs'[q]]
    BY Vues DEF RefSur
  <2>6. RefAbs' = [q \in Pointeurs |->
                     IF q = op.p THEN M
                     ELSE IF RefAbs[q] = [base |-> o, clef |-> Bout] /\ c \notin DOMAIN ContenuAbs[o]
                          THEN M ELSE RefAbs[q]]
    BY <2>3, <2>4, <2>5
  <2>. QED BY <2>6 DEF Abs!Pointer
<1>. QED BY <1>1, <1>2, <1>8, <1>9, <1>10, <1>11 DEF Abs!Designer, Abs!Ajouter

\* Reading and writing through a reference, the first pair and the next one.
LEMMA LireRefAbstrait ==
  ASSUME Fidele, NEW p \in Pointeurs, LireRef(p)
  PROVE  Abs!LireRef(p)
<1>. DEFINE b == ref[p].BaseH
            d == ref[p].Decalage
<1>1. ref[p] # Aucun /\ d < l[b] /\ resultat' = v[b][d].Val /\ UNCHANGED <<table, ref, v, l>>
  BY DEF LireRef, Valide, tas
<1>2. b \in Objets /\ l[b] \in Nat /\ d \in 0 .. l[b] - 1 /\ Differentes(v[b], l[b])
  <2>1. b \in Objets /\ l[b] \in Nat /\ d \in 0 .. l[b] /\ Differentes(v[b], l[b])
    BY <1>1, RefJuste
  <2>. HIDE DEF b, d
  <2>. QED BY <1>1, <2>1
<1>3. Abs!Designe(p) /\ RefAbs[p].base = b /\ RefAbs[p].clef = v[b][d].Clef
  BY <1>1, VueAbs DEF Valide
<1>. HIDE DEF b, d
<1>4. Abs!Valeur(b, v[b][d].Clef) = v[b][d].Val
  BY <1>2, ValeurDe, ValeurAbs, HachageAssumption
<1>. QED BY <1>1, <1>3, <1>4, MemeContenu DEF Abs!LireRef

LEMMA EcrireAbstrait ==
  ASSUME Fidele, NEW p \in Pointeurs, NEW w \in Valeurs, Ecrire(p, w)
  PROVE  Abs!Ecrire(p, w)
<1>. DEFINE b == ref[p].BaseH
            d == ref[p].Decalage
            W == [v[b] EXCEPT ![d] = [v[b][d] EXCEPT !.Val = w]]
<1>1. /\ ref[p] # Aucun /\ d < l[b] /\ v' = [v EXCEPT ![b] = W]
      /\ UNCHANGED <<table, ref, resultat, l>>
  BY DEF Ecrire, Valide
<1>2. /\ b \in Objets /\ l[b] \in Nat /\ d \in 0 .. l[b] - 1 /\ Differentes(v[b], l[b])
      /\ DOMAIN v = Objets /\ v[b] \in [0 .. l[b] - 1 -> Paires]
  <2>1. b \in Objets /\ l[b] \in Nat /\ d \in 0 .. l[b] /\ Differentes(v[b], l[b])
    BY <1>1, RefJuste
  <2>. HIDE DEF b, d, W
  <2>2. d \in 0 .. l[b] - 1
    BY <1>1, <2>1
  <2>. QED BY <2>1, <2>2 DEF Fidele, IInv, TypeOK
<1>3. Abs!Designe(p) /\ RefAbs[p].base = b /\ RefAbs[p].clef = v[b][d].Clef
  BY <1>1, VueAbs DEF Valide
<1>. HIDE DEF b, d
<1>4. Reecrites(v[b], W, l[b], d, w)
  <2>1. [v[b][d] EXCEPT !.Val = w].Clef = v[b][d].Clef /\ [v[b][d] EXCEPT !.Val = w].Val = w
    <3>1. v[b][d] \in Paires
      BY <1>2
    <3>. QED BY <3>1 DEF Paires
  <2>. DEFINE P == [v[b][d] EXCEPT !.Val = w]
  <2>. HIDE DEF P
  <2>2. W = [v[b] EXCEPT ![d] = P]
    BY DEF P
  <2>. QED BY <1>2, <2>1, <2>2 DEF P, Reecrites
<1>5. v'[b] = W /\ \A u \in Objets : u # b => v'[u] = v[u]
  BY <1>1, <1>2
<1>. HIDE DEF W
<1>6. /\ OrdreDe(W, l[b]) = OrdreDe(v[b], l[b])
      /\ ContenuDe(W, l[b]) = [ContenuDe(v[b], l[b]) EXCEPT ![v[b][d].Clef] = w]
  <2>. DEFINE w0 == v[b]
              n0 == l[b]
  <2>1. n0 \in Nat /\ d \in 0 .. n0 - 1 /\ Differentes(w0, n0) /\ Reecrites(w0, W, n0, d, w)
    BY <1>2, <1>4
  <2>. HIDE DEF w0, n0
  <2>2. /\ OrdreDe(W, n0) = OrdreDe(w0, n0)
        /\ ContenuDe(W, n0) = [ContenuDe(w0, n0) EXCEPT ![w0[d].Clef] = w]
    BY <2>1, ContenuEcrit
  <2>. QED BY <2>2 DEF w0, n0
<1>7. OrdreAbs' = OrdreAbs
  BY <1>1, <1>5, <1>6, Vues DEF OrdreSur
<1>8. ContenuAbs' = [ContenuAbs EXCEPT ![b] = [ContenuAbs[b] EXCEPT ![v[b][d].Clef] = w]]
  <2>. DEFINE C == [ContenuAbs[b] EXCEPT ![v[b][d].Clef] = w]
  <2>1. ContenuAbs[b] = ContenuDe(v[b], l[b])
    BY <1>2, Vues DEF ContenuSur
  <2>2. ContenuDe(W, l[b]) = C
    BY <1>6, <2>1
  <2>. HIDE DEF C
  <2>3. \A u \in Objets : ContenuAbs'[u] = IF u = b THEN C ELSE ContenuAbs[u]
    BY <1>1, <1>5, <2>2, Vues DEF ContenuSur
  <2>4. ContenuAbs' = [u \in Objets |-> ContenuAbs'[u]] /\ ContenuAbs = [u \in Objets |-> ContenuAbs[u]]
    BY Vues DEF ContenuSur
  <2>5. ContenuAbs' = [ContenuAbs EXCEPT ![b] = C]
    BY <2>3, <2>4
  <2>. QED BY <2>5 DEF C
<1>9. RefAbs' = RefAbs
  <2>1. ASSUME NEW q \in Pointeurs PROVE Vue(ref[q], v', l) = Vue(ref[q], v, l)
    <3>1. CASE ref[q] = Aucun
      BY <3>1 DEF Vue
    <3>2. CASE ref[q] # Aucun
      <4>1. ref[q].BaseH \in Objets /\ ref[q].Decalage \in 0 .. l[ref[q].BaseH] /\ l[ref[q].BaseH] \in Nat
        BY <3>2, RefJuste
      <4>2. ref[q].Decalage < l[ref[q].BaseH] =>
              v'[ref[q].BaseH][ref[q].Decalage].Clef = v[ref[q].BaseH][ref[q].Decalage].Clef
        <5>1. CASE ref[q].BaseH = b
          <6>1. ref[q].Decalage < l[b] => ref[q].Decalage \in 0 .. l[b] - 1
            BY <4>1, <5>1
          <6>. QED BY <1>4, <1>5, <5>1, <6>1 DEF Reecrites
        <5>2. CASE ref[q].BaseH # b
          BY <1>5, <4>1, <5>2
        <5>. QED BY <5>1, <5>2
      <4>. QED BY <4>2 DEF Vue
    <3>. QED BY <3>1, <3>2
  <2>. QED BY <1>1, <2>1, Vues DEF RefSur
<1>. QED BY <1>1, <1>3, <1>7, <1>8, <1>9 DEF Abs!Ecrire

LEMMA PremierAbstrait ==
  ASSUME Fidele, NEW p \in Pointeurs, NEW x \in Variables, Premier(p, x)
  PROVE  Abs!Premier(p, x)
<1>. DEFINE o == table[x]
            N == [BaseH |-> o, Decalage |-> 0]
            R == IF o = Aucun THEN Aucun ELSE N
            A == IF o = Aucun THEN Aucun ELSE [base |-> o, clef |-> Head(OrdreAbs[o])]
<1>1. /\ o # Aucun => l[o] # 0
      /\ ref' = [ref EXCEPT ![p] = R] /\ UNCHANGED <<table, resultat, v, l>>
  BY DEF Premier, tas
<1>2. o \in Objets \cup {Aucun} /\ (o \in Objets => l[o] \in Nat) /\ DOMAIN ref = Pointeurs
  BY DEF Fidele, IInv, TypeOK
<1>3. o # Aucun => OrdreAbs[o] # <<>> /\ Head(OrdreAbs[o]) = v[o][0].Clef
  <2>. SUFFICES ASSUME o # Aucun PROVE OrdreAbs[o] # <<>> /\ Head(OrdreAbs[o]) = v[o][0].Clef
    OBVIOUS
  <2>1. o \in Objets /\ l[o] \in Nat \ {0}
    BY <1>1, <1>2
  <2>2. OrdreAbs[o] = OrdreDe(v[o], l[o])
    BY <2>1, Vues DEF OrdreSur
  <2>3. 1 \in DOMAIN OrdreAbs[o] /\ OrdreAbs[o][1] = v[o][1 - 1].Clef
    BY <2>1, <2>2 DEF OrdreDe
  <2>. QED BY <2>3
<1>4. Vue(R, v, l) = A
  <2>1. CASE o = Aucun
    BY <2>1 DEF Vue
  <2>2. CASE o # Aucun
    <3>1. o \in Objets /\ 0 < l[o]
      BY <1>1, <1>2, <2>2
    <3>2. N # Aucun
      BY <3>1, ReferencesAssumption
    <3>. QED BY <1>3, <2>2, <3>1, <3>2 DEF Vue
  <2>. QED BY <2>1, <2>2
<1>. HIDE DEF R, A
<1>5. RefSur(ref', v, l) = [RefSur(ref, v, l) EXCEPT ![p] = A]
  BY <1>1, <1>2, <1>4 DEF RefSur
<1>6. RefAbs' = [RefAbs EXCEPT ![p] = A]
  BY <1>1, <1>5, MemeContenu, Vues
<1>. QED BY <1>1, <1>3, <1>6, MemeContenu DEF Abs!Premier, A

LEMMA SuivantAbstrait ==
  ASSUME Fidele, NEW p \in Pointeurs, Suivant(p)
  PROVE  Abs!Suivant(p)
<1>. DEFINE b == ref[p].BaseH
            d == ref[p].Decalage
            N == [BaseH |-> b, Decalage |-> d + 1]
            s == OrdreAbs[b]
            j == CHOOSE i \in DOMAIN s : s[i] = RefAbs[p].clef
            n == 1 + j
            A == [base |-> b, clef |-> IF n \in DOMAIN s THEN s[n] ELSE Bout]
<1>1. /\ ref[p] # Aucun /\ d < l[b] /\ UNCHANGED <<table, resultat, v, l>>
      /\ ref' = [ref EXCEPT ![p] = [ref[p] EXCEPT !.Decalage = d + 1]]
  BY DEF Suivant, Valide, tas
<1>2. /\ b \in Objets /\ l[b] \in Nat /\ d \in 0 .. l[b] - 1 /\ Differentes(v[b], l[b])
      /\ ref[p] = [BaseH |-> b, Decalage |-> d] /\ DOMAIN ref = Pointeurs
  BY <1>1, RefJuste DEF Fidele, IInv, TypeOK
<1>3. ref' = [ref EXCEPT ![p] = N]
  <2>1. [ref[p] EXCEPT !.Decalage = d + 1] = N
    BY <1>2
  <2>. QED BY <1>1, <2>1
<1>4. Abs!Designe(p) /\ RefAbs[p].base = b /\ RefAbs[p].clef = v[b][d].Clef
  BY <1>1, VueAbs DEF Valide
<1>5. RefAbs[p] = [base |-> b, clef |-> v[b][d].Clef]
  BY <1>1, VueAbs DEF Vue
<1>. HIDE DEF b, d
<1>6. DOMAIN s = 1 .. l[b] /\ \A k \in 1 .. l[b] : s[k] = v[b][k - 1].Clef
  BY <1>2, Vues DEF OrdreSur, OrdreDe
<1>. HIDE DEF s
<1>7. n = d + 2
  <2>1. d + 1 \in 1 .. l[b] /\ s[d + 1] = v[b][d].Clef
    BY <1>2, <1>6
  <2>2. ASSUME NEW i \in 1 .. l[b], s[i] = v[b][d].Clef PROVE i = d + 1
    <3>1. i - 1 \in 0 .. l[b] - 1 /\ v[b][i - 1].Clef = v[b][d].Clef
      BY <1>2, <1>6, <2>2
    <3>2. i - 1 = d
      BY <1>2, <3>1 DEF Differentes
    <3>. QED BY <1>2, <3>2
  <2>3. j = d + 1
    BY <1>4, <1>6, <2>1, <2>2
  <2>. HIDE DEF j
  <2>. QED BY <1>2, <2>3
<1>. HIDE DEF n
<1>8. A = [base |-> b, clef |-> IF d + 1 < l[b] THEN v[b][d + 1].Clef ELSE Bout]
  <2>1. n \in DOMAIN s <=> d + 1 < l[b]
    BY <1>2, <1>6, <1>7
  <2>2. d + 1 < l[b] => s[n] = v[b][d + 1].Clef
    BY <1>2, <1>6, <1>7
  <2>. QED BY <2>1, <2>2
<1>9. Vue(N, v, l) = A
  <2>1. N # Aucun
    BY <1>2, ReferencesAssumption
  <2>. QED BY <1>8, <2>1 DEF Vue
<1>. HIDE DEF N, A
<1>10. RefSur(ref', v, l) = [RefSur(ref, v, l) EXCEPT ![p] = A]
  BY <1>2, <1>3, <1>9 DEF RefSur
<1>11. RefAbs' = [RefAbs EXCEPT ![p] = A]
  BY <1>1, <1>10, MemeContenu, Vues
<1>12. RefAbs' = [RefAbs EXCEPT ![p].clef = IF n \in DOMAIN s THEN s[n] ELSE Bout]
  <2>1. A = [RefAbs[p] EXCEPT !.clef = IF n \in DOMAIN s THEN s[n] ELSE Bout]
    BY <1>5 DEF A
  <2>. QED BY <1>11, <2>1
<1>. QED BY <1>1, <1>4, <1>12, MemeContenu DEF Abs!Suivant, n, j, s

\* New tables: only what they hold changes, for no reference leads to them.
LEMMA TableNouvelle ==
  ASSUME Fidele, NEW o \in Objets, Libre(o), NEW W, NEW n,
         v' = [v EXCEPT ![o] = W], l' = [l EXCEPT ![o] = n], ref' = ref
  PROVE  /\ Abs!Libre(o) /\ RefAbs' = RefAbs
         /\ OrdreAbs' = [OrdreAbs EXCEPT ![o] = OrdreDe(W, n)]
         /\ ContenuAbs' = [ContenuAbs EXCEPT ![o] = ContenuDe(W, n)]
<1>1. /\ v'[o] = W /\ l'[o] = n
      /\ \A u \in Objets : u # o => v'[u] = v[u] /\ l'[u] = l[u]
  BY DEF Fidele, IInv, TypeOK
<1>2. Abs!Libre(o)
  BY VueAbs DEF Libre, Abs!Libre
<1>3. \A q \in Pointeurs : Vue(ref[q], v', l') = Vue(ref[q], v, l)
  BY <1>1, RefJuste DEF Libre, Vue
<1>4. RefAbs' = RefAbs
  BY <1>3, Vues DEF RefSur
<1>5. OrdreAbs' = [OrdreAbs EXCEPT ![o] = OrdreDe(W, n)]
  BY <1>1, Vues DEF OrdreSur
<1>6. ContenuAbs' = [ContenuAbs EXCEPT ![o] = ContenuDe(W, n)]
  BY <1>1, Vues DEF ContenuSur
<1>. QED BY <1>2, <1>4, <1>5, <1>6

LEMMA DevenirAbstrait ==
  ASSUME Fidele, NEW x \in Variables, NEW o \in Objets, Devenir(x, o)
  PROVE  Abs!Devenir(x, o)
<1>1. /\ table[x] = Aucun /\ Libre(o) /\ table' = [table EXCEPT ![x] = o]
      /\ v' = [v EXCEPT ![o] = Rien] /\ l' = [l EXCEPT ![o] = 0] /\ UNCHANGED <<ref, resultat>>
  BY DEF Devenir, Remplir
<1>2. /\ Abs!Libre(o) /\ RefAbs' = RefAbs
      /\ OrdreAbs' = [OrdreAbs EXCEPT ![o] = OrdreDe(Rien, 0)]
      /\ ContenuAbs' = [ContenuAbs EXCEPT ![o] = ContenuDe(Rien, 0)]
  BY <1>1, TableNouvelle, ZenonT(40)
<1>3. OrdreDe(Rien, 0) = <<>>
  BY DEF OrdreDe
<1>4. ContenuDe(Rien, 0) = [c \in {} |-> Inconnu]
  <2>1. ClefsDe(Rien, 0) = {}
    BY DEF ClefsDe
  <2>. QED BY <2>1 DEF ContenuDe
<1>. QED BY <1>1, <1>2, <1>3, <1>4 DEF Abs!Devenir

LEMMA CopierAbstrait ==
  ASSUME Fidele, NEW x \in Variables, NEW y \in Variables, NEW o \in Objets, Copier(x, y, o)
  PROVE  Abs!Copier(x, y, o)
<1>. DEFINE t == table[y]
<1>1. /\ t # Aucun /\ Libre(o) /\ table' = [table EXCEPT ![x] = o]
      /\ v' = [v EXCEPT ![o] = v[t]] /\ l' = [l EXCEPT ![o] = l[t]] /\ UNCHANGED <<ref, resultat>>
  BY DEF Copier, Remplir
<1>2. t \in Objets
  BY <1>1 DEF Fidele, IInv, TypeOK
<1>3. /\ Abs!Libre(o) /\ RefAbs' = RefAbs
      /\ OrdreAbs' = [OrdreAbs EXCEPT ![o] = OrdreDe(v[t], l[t])]
      /\ ContenuAbs' = [ContenuAbs EXCEPT ![o] = ContenuDe(v[t], l[t])]
  <2>. DEFINE W == v[t]
              n == l[t]
  <2>1. v' = [v EXCEPT ![o] = W] /\ l' = [l EXCEPT ![o] = n] /\ Libre(o) /\ ref' = ref
    BY <1>1
  <2>. HIDE DEF W, n, t
  <2>2. /\ Abs!Libre(o) /\ RefAbs' = RefAbs
        /\ OrdreAbs' = [OrdreAbs EXCEPT ![o] = OrdreDe(W, n)]
        /\ ContenuAbs' = [ContenuAbs EXCEPT ![o] = ContenuDe(W, n)]
    BY <2>1, TableNouvelle, ZenonT(40)
  <2>. QED BY <2>2 DEF W, n
<1>. HIDE DEF t
<1>4. OrdreAbs[t] = OrdreDe(v[t], l[t]) /\ ContenuAbs[t] = ContenuDe(v[t], l[t])
  BY <1>2, Vues DEF OrdreSur, ContenuSur
<1>. QED BY <1>1, <1>3, <1>4 DEF Abs!Copier, t

\* The references of a script are right after every step.
LEMMA RefsSuivant ==
  ASSUME Fidele, [Next]_vars
  PROVE  RefsJustes'
<1>0. TypeOK /\ DOMAIN ref = Pointeurs /\ l \in [Objets -> Nat]
  BY DEF Fidele, IInv, TypeOK
<1>1. CASE UNCHANGED <<ref, l>>
  BY <1>1 DEF RefsJustes, Fidele
<1>2. ASSUME NEW o \in Objets, NEW n, Libre(o), ref' = ref, l' = [l EXCEPT ![o] = n]
      PROVE  RefsJustes'
  BY <1>0, <1>2, RefJuste DEF RefsJustes, Libre
<1>3. CASE Trouver
  <2>1. /\ Entree.i <= l[Base] /\ l' = l
        /\ \A q \in Pointeurs : ref'[q] = ref[q] \/ ref'[q] = [BaseH |-> Base, Decalage |-> Entree.i]
    <3>1. Entree.i \in 0 .. l[Base] - 1 /\ l[Base] \in Nat
      BY <1>3, PaireTrouvee, Cherchee DEF Fidele, Trouver, EnRecherche
    <3>. QED BY <1>3, <3>1 DEF Trouver, Rendre, tas
  <2>. QED BY <2>1 DEF RefsJustes, Fidele
<1>4. CASE Ajouter
  <2>1. Base \in Objets /\ l[Base] \in Nat
    BY <1>4, Cherchee DEF Fidele, Ajouter
  <2>2. /\ l' = [l EXCEPT ![Base] = l[Base] + 1]
        /\ \A q \in Pointeurs : ref'[q] = ref[q] \/ ref'[q] = [BaseH |-> Base, Decalage |-> l[Base]]
    BY <1>4 DEF Ajouter, Rendre, Numero
  <2>3. ASSUME NEW q \in Pointeurs, ref'[q] # Aucun PROVE ref'[q].Decalage <= l'[ref'[q].BaseH]
    <3>1. l'[Base] = l[Base] + 1 /\ \A u \in Objets : u # Base => l'[u] = l[u]
      BY <1>0, <2>1, <2>2
    <3>2. CASE ref'[q] = [BaseH |-> Base, Decalage |-> l[Base]]
      BY <2>1, <3>1, <3>2
    <3>3. CASE ref'[q] = ref[q]
      <4>1. /\ ref[q].BaseH \in Objets /\ l[ref[q].BaseH] \in Nat
            /\ ref[q].Decalage \in 0 .. l[ref[q].BaseH]
        BY <2>3, <3>3, RefJuste
      <4>2. CASE ref[q].BaseH = Base
        BY <2>1, <3>1, <3>3, <4>1, <4>2
      <4>3. CASE ref[q].BaseH # Base
        BY <3>1, <3>3, <4>1, <4>3
      <4>. QED BY <4>2, <4>3
    <3>. QED BY <2>2, <3>2, <3>3
  <2>. QED BY <2>3 DEF RefsJustes
<1>5. ASSUME NEW p \in Pointeurs, NEW x \in Variables, Premier(p, x)
      PROVE  RefsJustes'
  <2>1. /\ l' = l /\ \A q \in Pointeurs : q # p => ref'[q] = ref[q]
        /\ ref'[p] = IF table[x] = Aucun THEN Aucun ELSE [BaseH |-> table[x], Decalage |-> 0]
    BY <1>0, <1>5 DEF Premier, tas
  <2>2. table[x] # Aucun => l[table[x]] \in Nat
    BY <1>0 DEF TypeOK
  <2>. QED BY <2>1, <2>2 DEF RefsJustes, Fidele
<1>6. ASSUME NEW p \in Pointeurs, Suivant(p)
      PROVE  RefsJustes'
  <2>1. /\ l' = l /\ \A q \in Pointeurs : q # p => ref'[q] = ref[q]
        /\ ref'[p] = [ref[p] EXCEPT !.Decalage = ref[p].Decalage + 1]
        /\ ref[p] # Aucun /\ ref[p].Decalage < l[ref[p].BaseH]
    BY <1>0, <1>6 DEF Suivant, Valide, tas
  <2>2. ref[p].Decalage \in Nat /\ l[ref[p].BaseH] \in Nat
        /\ ref[p] = [BaseH |-> ref[p].BaseH, Decalage |-> ref[p].Decalage]
    BY <2>1, RefJuste
  <2>3. ref'[p].BaseH = ref[p].BaseH /\ ref'[p].Decalage = ref[p].Decalage + 1
    BY <2>1, <2>2
  <2>. QED BY <2>1, <2>2, <2>3 DEF RefsJustes, Fidele
<1>7. ASSUME NEW x \in Variables, NEW c \in Clefs, NEW p \in Pointeurs \cup {Aucun},
             HachageRef(x, c, p)
      PROVE  RefsJustes'
  BY <1>1, <1>2, <1>7 DEF HachageRef, Devenir, Remplir, tas
<1>8. ASSUME NEW x \in Variables, NEW y \in Variables, NEW o \in Objets, Copier(x, y, o)
      PROVE  RefsJustes'
  BY <1>2, <1>8 DEF Copier, Remplir
<1>. QED
  BY <1>1, <1>3, <1>4, <1>5, <1>6, <1>7, <1>8
  DEF Next, ObtId, vars, tas, HachageVal, Avancer, Absent, LireRef, Ecrire, InstanceDe

\* Every step is one of Dictionnaires or changes nothing that a script sees.
LEMMA EtapeAbstraite ==
  ASSUME Fidele, [Next]_vars
  PROVE  [Abs!Next]_(Abs!vars)
<1>1. CASE UNCHANGED <<table, ref, resultat, v, l>>
  BY <1>1, MemeContenu DEF Abs!vars
<1>2. ASSUME NEW x \in Variables, NEW c \in Clefs, HachageVal(x, c), table[x] = Aucun
      PROVE  Abs!Next
  <2>1. resultat' = Inconnu /\ UNCHANGED <<table, ref, v, l>>
    BY <1>2 DEF HachageVal, tas
  <2>2. Abs!Valeur(table[x], c) = Inconnu
    BY <1>2 DEF Abs!Valeur
  <2>3. Abs!Lire(x, c)
    BY <2>1, <2>2, MemeContenu DEF Abs!Lire
  <2>. QED BY <2>3 DEF Abs!Next
<1>3. ASSUME NEW x \in Variables, NEW o \in Objets, Devenir(x, o) PROVE Abs!Next
  BY <1>3, DevenirAbstrait DEF Abs!Next
<1>4. CASE Trouver
  <2>1. op.x \in Variables /\ op.clef \in Clefs
    BY <1>4, Cherchee DEF Fidele, Trouver, EnRecherche
  <2>2. Abs!Next
    BY <1>4, <2>1, TrouverAbstrait DEF Abs!Next
  <2>. QED BY <2>2
<1>5. CASE Absent
  <2>1. op.x \in Variables /\ op.clef \in Clefs
    BY <1>5, Cherchee DEF Fidele, Absent
  <2>2. Abs!Next
    BY <1>5, <2>1, AbsentAbstrait DEF Abs!Next
  <2>. QED BY <2>2
<1>6. CASE Ajouter
  <2>1. op.x \in Variables /\ op.clef \in Clefs
    BY <1>6, Cherchee DEF Fidele, Ajouter
  <2>2. Abs!Next
    BY <1>6, <2>1, AjouterAbstrait DEF Abs!Next
  <2>. QED BY <2>2
<1>7. ASSUME NEW p \in Pointeurs, LireRef(p) \/ Suivant(p) PROVE Abs!Next
  BY <1>7, LireRefAbstrait, SuivantAbstrait DEF Abs!Next
<1>8. ASSUME NEW p \in Pointeurs, NEW w \in Valeurs, Ecrire(p, w) PROVE Abs!Next
  BY <1>8, EcrireAbstrait DEF Abs!Next
<1>9. ASSUME NEW p \in Pointeurs, NEW x \in Variables, Premier(p, x) PROVE Abs!Next
  BY <1>9, PremierAbstrait DEF Abs!Next
<1>10. ASSUME NEW x \in Variables, NEW y \in Variables, NEW o \in Objets, Copier(x, y, o)
       PROVE  Abs!Next
  BY <1>10, CopierAbstrait DEF Abs!Next
<1>11. ASSUME NEW x \in Variables, NEW y \in Variables, InstanceDe(x, y) PROVE Abs!Next
  <2>1. Abs!Partager(x, y)
    BY <1>11, MemeContenu DEF InstanceDe, tas, Abs!Partager
  <2>. QED BY <2>1 DEF Abs!Next
<1>12. ASSUME NEW x \in Variables, NEW c \in Clefs, NEW p \in Pointeurs \cup {Aucun},
              HachageRef(x, c, p)
       PROVE  [Abs!Next]_(Abs!vars)
  <2>1. (UNCHANGED <<table, ref, resultat, v, l>>) \/ \E o \in Objets : Devenir(x, o)
    BY <1>12 DEF HachageRef, tas
  <2>. QED BY <1>1, <1>3, <2>1
<1>13. ASSUME NEW x \in Variables, NEW c \in Clefs, HachageVal(x, c)
       PROVE  [Abs!Next]_(Abs!vars)
  <2>1. (UNCHANGED <<table, ref, resultat, v, l>>) \/ table[x] = Aucun
    BY <1>13 DEF HachageVal, tas
  <2>. QED BY <1>1, <1>2, <1>13, <2>1
<1>14. CASE Avancer \/ UNCHANGED vars
  BY <1>1, <1>14 DEF Avancer, tas, vars
<1>. QED
  BY <1>4, <1>5, <1>6, <1>7, <1>8, <1>9, <1>10, <1>11, <1>12, <1>13, <1>14 DEF Next, ObtId

\* The tables of the language are those of Dictionnaires, for any keys, hash
\* values, collisions and reallocations: a search, however many turns it
\* takes, is one reading or one designation of the key it was given; an
\* insertion moves no pair that a reference designates.
THEOREM Raffinement == Spec => AbsSpec
<1>1. Init => Abs!Init
  <2>. SUFFICES ASSUME Init PROVE Abs!Init
    OBVIOUS
  <2>1. \A o \in Objets : OrdreDe(v[o], l[o]) = <<>> /\ ContenuDe(v[o], l[o]) = [c \in {} |-> Inconnu]
    <3>. SUFFICES ASSUME NEW o \in Objets
                  PROVE  OrdreDe(v[o], l[o]) = <<>> /\ ContenuDe(v[o], l[o]) = [c \in {} |-> Inconnu]
      OBVIOUS
    <3>1. l[o] = 0
      BY DEF Init
    <3>2. ClefsDe(v[o], l[o]) = {}
      BY <3>1 DEF ClefsDe
    <3>. QED BY <3>1, <3>2 DEF OrdreDe, ContenuDe
  <2>2. RefAbs = [p \in Pointeurs |-> Aucun]
    BY DEF Init, RefAbs
  <2>. QED BY <2>1, <2>2, Vues DEF Init, Abs!Init, OrdreSur, ContenuSur
<1>2. Init => RefsJustes
  BY DEF Init, RefsJustes
<1>3. IInv /\ RefsJustes /\ [Next]_vars => RefsJustes' /\ [Abs!Next]_(Abs!vars)
  BY RefsSuivant, EtapeAbstraite DEF Fidele
<1>. QED BY <1>1, <1>2, <1>3, Invariant, PTL DEF Spec, AbsSpec, Abs!Spec
=============================================================================
