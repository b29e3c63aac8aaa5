-------------------------- MODULE TableTaches_proof ---------------------------
(***************************************************************************)
(* programme->Tache stays exact as long as no two operations on it are in  *)
(* progress together, for any number of universes and of tasks that create *)
(* some.  The invariant follows the table through Etendre and Supprimer:   *)
(* the first cells always hold, each once, the universes that run and have *)
(* not been taken out, and l is one ahead between the memmove and l--.     *)
(***************************************************************************)
EXTENDS TableTaches, FiniteSetTheorems, TLAPS

\* The universes the table must hold.
Presents == {u \in Univers : pc[u] \in {"vit", "trouve"}}

\* Supprimer has moved the cells but not yet written l.
Deplace == \E u \in Univers : pc[u] \in {"decale", "lu"}

\* The first k cells of a table hold the elements of S, each once.
Contient(tab, k, S) ==
  /\ \A i \in 0 .. k - 1 : tab[i] \in S
  /\ \A i, j \in 0 .. k - 1 : tab[i] = tab[j] => i = j
  /\ \A u \in S : \E i \in 0 .. k - 1 : tab[i] = u

Formes ==
  /\ t \in [Cellules -> Univers \cup {Rien}]
  /\ l \in Nat
  /\ ajoute \in [Createurs -> Univers \cup {Rien}]
  /\ etape \in [Createurs -> {"repos", "lu", "ecrit"}]
  /\ luE \in [Createurs -> Nat]
  /\ pc \in [Univers -> {"absent", "vit", "trouve", "decale", "lu", "fini", "assert"}]
  /\ pos \in [Univers -> Nat]
  /\ luS \in [Univers -> Nat]

\* One Etendre or one Supprimer at a time.
Seul ==
  /\ \A c, d \in Createurs : etape[c] # "repos" /\ etape[d] # "repos" => c = d
  /\ \A u, w \in Univers : pc[u] \in EnSuppression /\ pc[w] \in EnSuppression => u = w
  /\ \A u \in Univers : \A c \in Createurs :
       pc[u] \in EnSuppression => etape[c] = "repos"

\* What Etendre knows.
Ajout ==
  \A c \in Createurs :
    /\ etape[c] # "repos" =>
         ajoute[c] \in Univers /\ pc[ajoute[c]] = "absent" /\ luE[c] = l
    /\ etape[c] = "ecrit" => t[l] = ajoute[c]

\* What Supprimer knows.
Retrait ==
  \A u \in Univers :
    /\ pc[u] = "trouve" => pos[u] < l /\ t[pos[u]] = u
    /\ pc[u] = "lu" => luS[u] = l
    /\ pc[u] # "assert"

Contenu ==
  /\ Contient(t, Cardinality(Presents), Presents)
  /\ ~Deplace => l = Cardinality(Presents)
  /\ Deplace => l = Cardinality(Presents) + 1

IInv == Formes /\ Seul /\ Ajout /\ Retrait /\ Contenu

\* There are finitely many universes in the table.
LEMMA Finis ==
  ASSUME Hypotheses
  PROVE  /\ IsFiniteSet(Presents) /\ Cardinality(Presents) \in Nat
         /\ Cardinality(Univers) \in Nat
         /\ Cardinality(Presents) <= Cardinality(Univers)
<1>1. Presents \in SUBSET Univers
  BY DEF Presents
<1>2. QED
  BY <1>1, FS_Subset, FS_CardinalityType DEF Hypotheses

\* A universe that is not there leaves room for one more.
LEMMA Place ==
  ASSUME Hypotheses, NEW u \in Univers, u \notin Presents
  PROVE  Cardinality(Presents) + 1 <= Cardinality(Univers)
<1>1. Presents \cup {u} \in SUBSET Univers
  BY DEF Presents
<1>2. Cardinality(Presents \cup {u}) = Cardinality(Presents) + 1
  BY Finis, FS_AddElement
<1>3. Cardinality(Presents \cup {u}) <= Cardinality(Univers)
  BY <1>1, FS_Subset DEF Hypotheses
<1>4. QED
  BY <1>2, <1>3

\* An element added after the others.
LEMMA AuBout ==
  ASSUME NEW tab, NEW k \in Nat, NEW S, Contient(tab, k, S), tab[k] \notin S
  PROVE  Contient(tab, k + 1, S \cup {tab[k]})
<1>1. \A i \in 0 .. k : i \in 0 .. k - 1 \/ i = k
  OBVIOUS
<1>2. 0 .. k + 1 - 1 = 0 .. k /\ k \in 0 .. k
  OBVIOUS
<1>3. \A i \in 0 .. k : tab[i] \in S \cup {tab[k]}
  BY <1>1 DEF Contient
<1>4. \A i, j \in 0 .. k : tab[i] = tab[j] => i = j
  BY <1>1 DEF Contient
<1>5. \A u \in S \cup {tab[k]} : \E i \in 0 .. k : tab[i] = u
  BY <1>1, <1>2 DEF Contient
<1>6. QED
  BY <1>2, <1>3, <1>4, <1>5 DEF Contient

\* The cells after an element moved down over it: what memmove is for.
LEMMA Tasse ==
  ASSUME NEW tab, NEW tab2, NEW k \in Nat \ {0}, NEW S, NEW p \in 0 .. k - 1,
         Contient(tab, k, S),
         \A i \in 0 .. k - 2 : tab2[i] = IF p <= i THEN tab[i + 1] ELSE tab[i]
  PROVE  Contient(tab2, k - 1, S \ {tab[p]})
<1> DEFINE de(i) == IF p <= i THEN i + 1 ELSE i
<1>1. \A i \in 0 .. k - 2 : de(i) \in 0 .. k - 1 /\ de(i) # p /\ tab2[i] = tab[de(i)]
  OBVIOUS
<1>2. \A i, j \in 0 .. k - 2 : de(i) = de(j) => i = j
  OBVIOUS
<1>3. \A j \in 0 .. k - 1 : j # p => \E i \in 0 .. k - 2 : de(i) = j
  <2> SUFFICES ASSUME NEW j \in 0 .. k - 1, j # p
               PROVE  \E i \in 0 .. k - 2 : de(i) = j
    OBVIOUS
  <2>1. CASE j < p
    <3>1. j \in 0 .. k - 2 /\ de(j) = j
      BY <2>1
    <3>2. QED
      BY <3>1
  <2>2. CASE j > p
    <3>1. j - 1 \in 0 .. k - 2 /\ de(j - 1) = j
      BY <2>2
    <3>2. QED
      BY <3>1
  <2>3. QED
    BY <2>1, <2>2
<1> HIDE DEF de
<1>4. 0 .. (k - 1) - 1 = 0 .. k - 2
  OBVIOUS
<1>5. \A i \in 0 .. k - 2 : tab2[i] \in S \ {tab[p]}
  BY <1>1 DEF Contient
<1>6. \A i, j \in 0 .. k - 2 : tab2[i] = tab2[j] => i = j
  BY <1>1, <1>2 DEF Contient
<1>7. \A u \in S \ {tab[p]} : \E i \in 0 .. k - 2 : tab2[i] = u
  <2> SUFFICES ASSUME NEW u \in S, u # tab[p]
               PROVE  \E i \in 0 .. k - 2 : tab2[i] = u
    OBVIOUS
  <2>1. PICK j \in 0 .. k - 1 : tab[j] = u
    BY DEF Contient
  <2>2. PICK i \in 0 .. k - 2 : de(i) = j
    BY <1>3, <2>1
  <2>3. QED
    BY <1>1, <2>1, <2>2
<1>8. QED
  BY <1>4, <1>5, <1>6, <1>7 DEF Contient

\* A step that leaves the table and the universes in it as they were.
LEMMA TableIntacte ==
  ASSUME Contenu, Presents' = Presents, Deplace' = Deplace, t' = t, l' = l
  PROVE  Contenu'
  BY DEF Contenu, Contient

-----------------------------------------------------------------------------
(* One step at a time. *)

\* The table starts empty.
LEMMA Debut == Init => IInv
<1> SUFFICES ASSUME Init PROVE IInv
  OBVIOUS
<1>1. Presents = {} /\ ~Deplace
  BY DEF Init, Presents, Deplace
<1>2. Cardinality(Presents) = 0
  BY <1>1, FS_EmptySet
<1>3. Contenu
  BY <1>1, <1>2 DEF Init, Contenu, Contient
<1>4. Formes /\ Seul /\ Ajout /\ Retrait
  BY DEF Init, Formes, Seul, Ajout, Retrait, EnSuppression
<1>5. QED
  BY <1>3, <1>4 DEF IInv

\* Etendre reads l.
LEMMA PasEtendreLit ==
  ASSUME ~melees', IInv, NEW c \in Createurs, NEW u \in Univers,
         EtendreLit(c, u)
  PROVE  IInv'
<1>1. /\ UNCHANGED <<t, l, pc, pos, luS>> /\ Libre /\ pc[u] = "absent"
      /\ ajoute' = [ajoute EXCEPT ![c] = u]
      /\ etape' = [etape EXCEPT ![c] = "lu"]
      /\ luE' = [luE EXCEPT ![c] = l]
  BY DEF EtendreLit, fils, Commencer
<1>2. Presents' = Presents /\ Deplace' = Deplace
  BY <1>1 DEF Presents, Deplace
<1>3. Contenu'
  BY <1>1, <1>2, TableIntacte DEF IInv
<1>4. Formes' /\ Seul' /\ Ajout' /\ Retrait'
  BY <1>1 DEF IInv, Formes, Seul, Ajout, Retrait, EnSuppression, Libre
<1>5. QED
  BY <1>3, <1>4 DEF IInv

\* Etendre writes the new element.
LEMMA PasEtendreEcrit ==
  ASSUME Hypotheses, IInv, NEW c \in Createurs, EtendreEcrit(c)
  PROVE  IInv'
<1>1. /\ etape[c] = "lu" /\ etape' = [etape EXCEPT ![c] = "ecrit"]
      /\ t' = [t EXCEPT ![l] = ajoute[c]]
      /\ UNCHANGED <<l, ajoute, luE, pc, pos, luS>>
      /\ ajoute[c] \in Univers /\ pc[ajoute[c]] = "absent" /\ luE[c] = l
  BY DEF EtendreEcrit, fils, IInv, Ajout
<1>2. \A u \in Univers : pc[u] \notin EnSuppression
  BY <1>1 DEF IInv, Seul
<1>3. ~Deplace /\ ajoute[c] \notin Presents
  BY <1>1, <1>2 DEF Deplace, EnSuppression, Presents
<1>4. l = Cardinality(Presents) /\ l + 1 <= Cardinality(Univers)
  BY <1>1, <1>3, Place DEF IInv, Contenu
<1>5. l \in Cellules /\ l \in Nat
  BY <1>4, Finis DEF Cellules
<1>6. Presents' = Presents /\ Deplace' = Deplace
  BY <1>1 DEF Presents, Deplace
<1>7. \A i \in 0 .. l - 1 : t'[i] = t[i]
  <2>1. \A i \in 0 .. l - 1 : i \in Cellules /\ i # l
    BY <1>4, <1>5, Finis DEF Cellules
  <2>2. QED
    BY <1>1, <2>1 DEF IInv, Formes
<1>8. Contient(t', Cardinality(Presents), Presents)
  BY <1>4, <1>7 DEF IInv, Contenu, Contient
<1>9. Contenu'
  BY <1>1, <1>3, <1>4, <1>6, <1>8 DEF Contenu
<1>10. Formes' /\ Seul' /\ Ajout' /\ Retrait'
  BY <1>1, <1>2, <1>5 DEF IInv, Formes, Seul, Ajout, Retrait, EnSuppression
<1>11. QED
  BY <1>9, <1>10 DEF IInv

\* Etendre publishes the new length: the universe is in the table.
LEMMA PasEtendrePublie ==
  ASSUME Hypotheses, IInv, NEW c \in Createurs, EtendrePublie(c)
  PROVE  IInv'
<1>1. /\ etape[c] = "ecrit" /\ etape' = [etape EXCEPT ![c] = "repos"]
      /\ t' = t /\ l' = l + 1
      /\ ajoute' = [ajoute EXCEPT ![c] = Rien]
      /\ luE' = [luE EXCEPT ![c] = 0]
      /\ pc' = [pc EXCEPT ![ajoute[c]] = "vit"] /\ UNCHANGED <<pos, luS>>
      /\ ajoute[c] \in Univers /\ pc[ajoute[c]] = "absent" /\ t[l] = ajoute[c]
  BY DEF EtendrePublie, IInv, Ajout
<1>2. \A u \in Univers : pc[u] \notin EnSuppression
  BY <1>1 DEF IInv, Seul
<1>3. pc \in [Univers -> {"absent", "vit", "trouve", "decale", "lu", "fini", "assert"}]
  BY DEF IInv, Formes
<1>4. \A u \in Univers : pc'[u] \notin EnSuppression
  BY <1>1, <1>2, <1>3 DEF EnSuppression
<1>5. ~Deplace /\ ~Deplace' /\ ajoute[c] \notin Presents
  BY <1>1, <1>2, <1>4 DEF Deplace, EnSuppression, Presents
<1>6. Presents' = Presents \cup {ajoute[c]}
  BY <1>1, <1>3 DEF Presents
<1>7. /\ l = Cardinality(Presents) /\ l \in Nat
      /\ Cardinality(Presents') = Cardinality(Presents) + 1
  BY <1>5, <1>6, Finis, FS_AddElement DEF IInv, Contenu
<1>8. Contient(t, l, Presents)
  BY <1>7 DEF IInv, Contenu
<1>9. Contient(t, l + 1, Presents \cup {t[l]})
  BY <1>1, <1>5, <1>7, <1>8, AuBout
<1>10. Contenu'
  BY <1>1, <1>5, <1>6, <1>7, <1>9 DEF Contenu
<1>11. Formes' /\ Seul' /\ Ajout'
  BY <1>1, <1>3, <1>4, <1>7 DEF IInv, Formes, Seul, Ajout
<1>12. Retrait'
  BY <1>1, <1>3, <1>4 DEF IInv, Retrait, EnSuppression
<1>13. QED
  BY <1>10, <1>11, <1>12 DEF IInv

\* Supprimer looks for the universe, and finds it.
LEMMA PasChercher ==
  ASSUME Hypotheses, ~melees', IInv, NEW u \in Univers, Chercher(u)
  PROVE  IInv'
<1>1. /\ pc[u] = "vit" /\ \A c \in Createurs : etape[c] = "repos"
      /\ \A w \in Univers : pc[w] \notin EnSuppression
      /\ UNCHANGED <<t, l, ajoute, etape, luE, luS>>
  BY DEF Chercher, creation, Commencer, Libre
<1>2. pc \in [Univers -> {"absent", "vit", "trouve", "decale", "lu", "fini", "assert"}]
  BY DEF IInv, Formes
<1>3. ~Deplace /\ u \in Presents
  BY <1>1 DEF Deplace, EnSuppression, Presents
<1>4. l = Cardinality(Presents) /\ Contient(t, l, Presents) /\ l \in Nat
      /\ l <= Cardinality(Univers)
  BY <1>3, Finis DEF IInv, Contenu
<1>5. PICK i \in 0 .. l - 1 : t[i] = u
  BY <1>3, <1>4 DEF Contient
<1>6. Positions(u) = {i}
  <2>1. \A j \in Cellules : j < l <=> j \in 0 .. l - 1
    BY <1>4, Finis DEF Cellules
  <2>2. i \in Cellules
    BY <1>4, Finis DEF Cellules
  <2>3. Positions(u) = {j \in 0 .. l - 1 : t[j] = u}
    BY <1>4, <2>1, Finis DEF Positions, Cellules
  <2>4. \A j \in 0 .. l - 1 : t[j] = u => j = i
    BY <1>4, <1>5 DEF Contient
  <2>5. QED
    BY <1>5, <2>3, <2>4
<1>7. (CHOOSE k \in Positions(u) : \A j \in Positions(u) : k <= j) = i
  BY <1>6
<1>8. /\ pc' = [pc EXCEPT ![u] = "trouve"]
      /\ pos' = [pos EXCEPT ![u] = i]
  BY <1>6, <1>7 DEF Chercher
<1>9. Presents' = Presents /\ Deplace' = Deplace
  BY <1>1, <1>2, <1>8 DEF Presents, Deplace, EnSuppression
<1>10. Contenu'
  BY <1>1, <1>3, <1>9, TableIntacte DEF IInv
<1>11. Formes' /\ Seul' /\ Ajout'
  BY <1>1, <1>2, <1>8 DEF IInv, Formes, Seul, Ajout, EnSuppression
<1>12. Retrait'
  BY <1>1, <1>2, <1>4, <1>5, <1>8 DEF IInv, Retrait, EnSuppression, Formes
<1>13. QED
  BY <1>10, <1>11, <1>12 DEF IInv

\* Supprimer moves what is after the universe over it.
LEMMA PasDecaler ==
  ASSUME Hypotheses, IInv, NEW u \in Univers, Decaler(u)
  PROVE  IInv'
<1> DEFINE k == Cardinality(Presents)
<1>1. /\ pc[u] = "trouve" /\ pos[u] < l /\ t[pos[u]] = u
      /\ \A c \in Createurs : etape[c] = "repos"
      /\ \A w \in Univers : w # u => pc[w] \notin EnSuppression
  BY DEF Decaler, IInv, Retrait, Seul, EnSuppression
<1>2. /\ pc' = [pc EXCEPT ![u] = "decale"]
      /\ t' = IF pos[u] < l - 1 THEN Tasser(pos[u]) ELSE t
      /\ pos' = [pos EXCEPT ![u] = 0]
      /\ UNCHANGED <<l, ajoute, etape, luE, luS>>
  BY <1>1 DEF Decaler, creation
<1>3. pc \in [Univers -> {"absent", "vit", "trouve", "decale", "lu", "fini", "assert"}]
  BY DEF IInv, Formes
<1>4. ~Deplace /\ u \in Presents
  BY <1>1 DEF Deplace, EnSuppression, Presents
<1>5. /\ l = k /\ Contient(t, k, Presents) /\ k \in Nat
      /\ k <= Cardinality(Univers) /\ Cardinality(Univers) \in Nat
  BY <1>4, Finis DEF IInv, Contenu
<1>6. pos[u] \in 0 .. k - 1 /\ k \in Nat \ {0}
  BY <1>1, <1>5 DEF IInv, Formes
<1>7. Presents' = Presents \ {u} /\ Deplace'
  BY <1>1, <1>2, <1>3 DEF Presents, Deplace
<1>8. Cardinality(Presents') = k - 1
  BY <1>4, <1>7, Finis, FS_RemoveElement
<1>9. t' \in [Cellules -> Univers \cup {Rien}]
  <2>1. \A i \in Cellules : i <= l => i + 1 \in Cellules
    BY <1>5 DEF Cellules
  <2>2. t \in [Cellules -> Univers \cup {Rien}]
    BY DEF IInv, Formes
  <2>3. Tasser(pos[u]) \in [Cellules -> Univers \cup {Rien}]
    BY <2>1, <2>2 DEF Tasser
  <2>4. QED
    BY <1>2, <2>2, <2>3
<1>10. \A i \in 0 .. k - 2 : t'[i] = IF pos[u] <= i THEN t[i + 1] ELSE t[i]
  <2>1. \A i \in 0 .. k - 2 : i \in Cellules /\ i <= l
    BY <1>5 DEF Cellules
  <2>2. CASE pos[u] < l - 1
    BY <1>2, <2>1, <2>2 DEF Tasser
  <2>3. CASE pos[u] >= l - 1
    <3>1. \A i \in 0 .. k - 2 : ~(pos[u] <= i)
      BY <1>5, <1>6, <2>3
    <3>2. t' = t
      BY <1>2, <1>5, <1>6, <2>3
    <3>3. QED
      BY <3>1, <3>2
  <2>4. QED
    BY <1>5, <1>6, <2>2, <2>3
<1>11. Contient(t', k - 1, Presents \ {u})
  <2> HIDE DEF k
  <2>1. Contient(t', k - 1, Presents \ {t[pos[u]]})
    BY <1>5, <1>6, <1>10, Tasse
  <2>2. QED
    BY <1>1, <2>1
<1>12. Contenu'
  BY <1>2, <1>5, <1>7, <1>8, <1>11 DEF Contenu
<1>13. Formes' /\ Seul' /\ Ajout'
  BY <1>1, <1>2, <1>3, <1>9 DEF IInv, Formes, Seul, Ajout, EnSuppression
<1>14. Retrait'
  BY <1>1, <1>2, <1>3 DEF IInv, Retrait, EnSuppression
<1>15. QED
  BY <1>12, <1>13, <1>14 DEF IInv

\* Supprimer reads l.
LEMMA PasLireL ==
  ASSUME IInv, NEW u \in Univers, LireL(u)
  PROVE  IInv'
<1>1. /\ pc[u] = "decale" /\ pc' = [pc EXCEPT ![u] = "lu"]
      /\ luS' = [luS EXCEPT ![u] = l]
      /\ UNCHANGED <<t, l, ajoute, etape, luE, pos>>
  BY DEF LireL, creation
<1>2. pc \in [Univers -> {"absent", "vit", "trouve", "decale", "lu", "fini", "assert"}]
  BY DEF IInv, Formes
<1>3. Presents' = Presents /\ Deplace' /\ Deplace
  BY <1>1, <1>2 DEF Presents, Deplace
<1>4. Contenu'
  BY <1>1, <1>3, TableIntacte DEF IInv
<1>5. Formes' /\ Seul' /\ Ajout' /\ Retrait'
  BY <1>1, <1>2 DEF IInv, Formes, Seul, Ajout, Retrait, EnSuppression
<1>6. QED
  BY <1>4, <1>5 DEF IInv

\* Supprimer writes the new length.
LEMMA PasEcrireL ==
  ASSUME Hypotheses, IInv, NEW u \in Univers, EcrireL(u)
  PROVE  IInv'
<1>1. /\ pc[u] = "lu" /\ pc' = [pc EXCEPT ![u] = "fini"] /\ l' = l - 1
      /\ luS' = [luS EXCEPT ![u] = 0]
      /\ UNCHANGED <<t, ajoute, etape, luE, pos>>
  BY DEF EcrireL, creation, IInv, Retrait
<1>2. pc \in [Univers -> {"absent", "vit", "trouve", "decale", "lu", "fini", "assert"}]
  BY DEF IInv, Formes
<1>3. /\ \A c \in Createurs : etape[c] = "repos"
      /\ \A w \in Univers : pc'[w] \notin EnSuppression
  BY <1>1, <1>2 DEF IInv, Seul, EnSuppression
<1>4. Presents' = Presents /\ Deplace /\ ~Deplace'
  BY <1>1, <1>2, <1>3 DEF Presents, Deplace, EnSuppression
<1>5. l = Cardinality(Presents) + 1 /\ Cardinality(Presents) \in Nat
  BY <1>4, Finis DEF IInv, Contenu
<1>6. Contenu'
  BY <1>1, <1>4, <1>5 DEF IInv, Contenu
<1>7. Formes' /\ Seul' /\ Ajout'
  BY <1>1, <1>2, <1>3, <1>5 DEF IInv, Formes, Seul, Ajout
<1>8. Retrait'
  BY <1>1, <1>2, <1>3 DEF IInv, Retrait, EnSuppression
<1>9. QED
  BY <1>6, <1>7, <1>8 DEF IInv

\* As long as the operations are not mixed every step keeps the invariant.
LEMMA Inductif ==
  ASSUME Hypotheses, melees \/ IInv, [Next]_vars
  PROVE  (melees \/ IInv)'
<1> SUFFICES ASSUME ~melees'
             PROVE  IInv'
  OBVIOUS
<1>1. CASE UNCHANGED vars
  BY <1>1
  DEF vars, IInv, Formes, Seul, Ajout, Retrait, Contenu, Contient, Presents,
      Deplace
<1>2. ASSUME NEW c \in Createurs, NEW u \in Univers, EtendreLit(c, u)
      PROVE  IInv'
  BY <1>2, PasEtendreLit DEF EtendreLit, Commencer
<1>3. ASSUME NEW c \in Createurs, EtendreEcrit(c) \/ EtendrePublie(c)
      PROVE  IInv'
  BY <1>3, PasEtendreEcrit, PasEtendrePublie DEF EtendreEcrit, EtendrePublie
<1>4. ASSUME NEW u \in Univers, Chercher(u)
      PROVE  IInv'
  BY <1>4, PasChercher DEF Chercher, Commencer
<1>5. ASSUME NEW u \in Univers, Decaler(u) \/ LireL(u) \/ EcrireL(u)
      PROVE  IInv'
  BY <1>5, PasDecaler, PasLireL, PasEcrireL DEF Decaler, LireL, EcrireL
<1>6. QED
  BY <1>1, <1>2, <1>3, <1>4, <1>5 DEF Next, Termine

\* As long as no two operations were in progress together, whenever none is the
\* table holds the running universes, each once, and nothing else, however many
\* there were.
THEOREM TableToujoursExacte ==
  ASSUME Hypotheses
  PROVE  Spec => []TableExacte
<1>1. melees \/ IInv => TableExacte
  <2> SUFFICES ASSUME IInv, Libre
               PROVE  /\ {t[i] : i \in {j \in Cellules : j < l}}
                            = {u \in Univers : pc[u] = "vit"}
                      /\ l = Cardinality({u \in Univers : pc[u] = "vit"})
    BY DEF TableExacte
  <2>1. Presents = {u \in Univers : pc[u] = "vit"} /\ ~Deplace
    BY DEF Libre, EnSuppression, Presents, Deplace
  <2>2. l = Cardinality(Presents) /\ Contient(t, l, Presents)
    BY <2>1 DEF IInv, Contenu
  <2>3. {j \in Cellules : j < l} = 0 .. l - 1
    BY <2>2, Finis DEF Cellules
  <2>4. {t[i] : i \in 0 .. l - 1} = Presents
    BY <2>2 DEF Contient
  <2>5. QED
    BY <2>1, <2>2, <2>3, <2>4
<1>2. QED
  BY <1>1, Debut, Inductif, PTL DEF Spec

\* Until then the assertion of Supprimer holds: a universe that ends finds
\* itself in the table.
THEOREM JamaisAssert ==
  ASSUME Hypotheses
  PROVE  Spec => [](melees \/ AssertPosition)
<1>1. melees \/ IInv => melees \/ AssertPosition
  BY DEF IInv, Retrait, AssertPosition
<1>2. QED
  BY <1>1, Debut, Inductif, PTL DEF Spec
=============================================================================
