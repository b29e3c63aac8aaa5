---------------------------- MODULE Taches_proof -----------------------------
(***************************************************************************)
(* What the mutex of Taches guarantees, for any number of universes, any   *)
(* script and any mixture of errors.                                       *)
(*                                                                         *)
(* The inductive invariant behind mutual exclusion counts: a task that     *)
(* executes virtual code either owns the one mutex or was let through by   *)
(* one of the recorded losses.  Every step is first reduced, by the lemmas *)
(* on Aller, to what it does to the set of executing tasks.                *)
(*                                                                         *)
(* The last part is about what most errors do not spoil: the mutex that is *)
(* given back.                                                             *)
(***************************************************************************)
EXTENDS TachesEtTable, FiniteSetTheorems, TLAPS

\* What is proved of the table alone.
TP == INSTANCE TableTaches_proof WITH
  t <- tab, l <- lTab, pc <- pcTab, Createurs <- Taches, Rien <- Aucun

\* Moving one task changes its place only.
LEMMA AllerPlace ==
  ASSUME TypeOK, NEW t \in Taches, NEW de \in Etapes, NEW vers \in Etapes,
         Aller(t, de, vers)
  PROVE  /\ pc' \in [Taches -> Etapes]
         /\ pc[t] = de /\ pc'[t] = vers
         /\ \A u \in Taches : u # t => pc'[u] = pc[u]
  BY DEF TypeOK, PlaceOK, Aller

\* Outside BigCrunch the targets stay what they were.
LEMMA AllerSansCible ==
  ASSUME TypeOK, NEW t \in Taches, NEW de \in Etapes,
         NEW vers \in Etapes \ {"crunch", "joint"},
         Aller(t, de, vers), cible' = cible
  PROVE  PlaceOK'
  BY DEF TypeOK, PlaceOK, Aller

\* Type correctness, including that a task inside BigCrunch has a target.
THEOREM TypeCorrect == Spec => []TypeOK
<1>1. Init => TypeOK
  <2> SUFFICES ASSUME Init
               PROVE  TypeOK
    OBVIOUS
  <2>1. Travail \in 0..Travail /\ 0 \in Nat /\ 1 \in Nat
    BY TachesAssumption
  <2>2. QED
    BY <2>1 DEF Init, TypeOK, PlaceOK, Taches, Etapes
<1>2. TypeOK /\ [Next]_vars => TypeOK'
  <2> SUFFICES ASSUME TypeOK, [Next]_vars
               PROVE  TypeOK'
    OBVIOUS
  <2> USE TachesAssumption DEF Etapes
  <2>1. ASSUME NEW t \in Taches, EntrerExecuter(t)
        PROVE  TypeOK'
    <3>1. Aller(t, "entree", "code")
      BY <2>1 DEF EntrerExecuter
    <3>2. PlaceOK'
      BY <2>1, <3>1, AllerSansCible DEF EntrerExecuter, fils
    <3>3. QED
      BY <2>1, <3>2 DEF EntrerExecuter, TypeOK, Prendre, donnees, fils
  <2>2. ASSUME NEW t \in Taches, RepriseLigne(t)
        PROVE  TypeOK'
    <3>1. Aller(t, "ligne", "code")
      BY <2>2 DEF RepriseLigne
    <3>2. PlaceOK'
      BY <2>2, <3>1, AllerSansCible DEF RepriseLigne, fils
    <3>3. QED
      BY <2>2, <3>2 DEF RepriseLigne, TypeOK, Prendre, donnees, fils
  <2>3. ASSUME NEW t \in Taches, PrendreException(t)
        PROVE  TypeOK'
    <3>1. Aller(t, "exception", "signale")
      BY <2>3 DEF PrendreException
    <3>2. PlaceOK'
      BY <2>3, <3>1, AllerSansCible DEF PrendreException, fils
    <3>3. QED
      BY <2>3, <3>2 DEF PrendreException, TypeOK, Prendre, donnees, fils
  <2>4. ASSUME NEW t \in Taches, EntrerTexte(t)
        PROVE  TypeOK'
    <3>1. Aller(t, "imbrique", "texte")
      BY <2>4 DEF EntrerTexte
    <3>2. PlaceOK'
      BY <2>4, <3>1, AllerSansCible DEF EntrerTexte, fils
    <3>3. QED
      BY <2>4, <3>2 DEF EntrerTexte, TypeOK, Prendre, donnees, fils
  <2>5. ASSUME NEW t \in Taches, RetourNatif(t)
        PROVE  TypeOK'
    <3>1. Aller(t, "retour", "code")
      BY <2>5 DEF RetourNatif
    <3>2. PlaceOK'
      <4>1. cible' = [cible EXCEPT ![t] = Aucun]
        BY <2>5 DEF RetourNatif
      <4>2. /\ pc' \in [Taches -> Etapes] /\ pc'[t] = "code"
            /\ \A x \in Taches : x # t => pc'[x] = pc[x]
        BY <3>1, AllerPlace
      <4>3. QED
        BY <4>1, <4>2 DEF TypeOK, PlaceOK
    <3>3. QED
      BY <2>5, <3>2 DEF RetourNatif, TypeOK, Prendre, donnees, fils
  <2>6. ASSUME NEW t \in Taches, DebutLigne(t)
        PROVE  TypeOK'
    <3>1. Aller(t, "code", "ligne")
      BY <2>6 DEF DebutLigne
    <3>2. PlaceOK'
      BY <2>6, <3>1, AllerSansCible DEF DebutLigne, fils
    <3>3. QED
      BY <2>6, <3>2 DEF DebutLigne, TypeOK, Liberer, donnees, fils
  <2>7. ASSUME NEW t \in Taches, LireVarGlob(t)
        PROVE  TypeOK'
    <3>1. Aller(t, "code", "ecrit")
      BY <2>7 DEF LireVarGlob
    <3>2. PlaceOK'
      BY <2>7, <3>1, AllerSansCible DEF LireVarGlob, fils
    <3>3. QED
      BY <2>7, <3>2 DEF LireVarGlob, TypeOK, Instruction, fils
  <2>8. ASSUME NEW t \in Taches, EcrireVarGlob(t)
        PROVE  TypeOK'
    <3>1. Aller(t, "ecrit", "code")
      BY <2>8 DEF EcrireVarGlob
    <3>2. PlaceOK'
      BY <2>8, <3>1, AllerSansCible DEF EcrireVarGlob, fils
    <3>3. QED
      BY <2>8, <3>2 DEF EcrireVarGlob, TypeOK, fils
  <2>9. ASSUME NEW t \in Taches, Stop(t)
        PROVE  TypeOK'
    <3>1. Aller(t, "code", "sortie")
      BY <2>9 DEF Stop
    <3>2. PlaceOK'
      BY <2>9, <3>1, AllerSansCible DEF Stop, fils
    <3>3. QED
      BY <2>9, <3>2 DEF Stop, TypeOK, Liberer, donnees, fils
  <2>10. ASSUME NEW t \in Taches, FinBoucle(t)
        PROVE  TypeOK'
    <3>1. Aller(t, "nul", "sortie")
      BY <2>10 DEF FinBoucle
    <3>2. PlaceOK'
      BY <2>10, <3>1, AllerSansCible DEF FinBoucle, fils
    <3>3. QED
      BY <2>10, <3>2 DEF FinBoucle, TypeOK, Liberer, donnees, fils
  <2>11. ASSUME NEW t \in Taches, OperationLance(t)
        PROVE  TypeOK'
    <3>1. Aller(t, "code", "sortie")
      BY <2>11 DEF OperationLance
    <3>2. PlaceOK'
      BY <2>11, <3>1, AllerSansCible DEF OperationLance, fils
    <3>3. QED
      BY <2>11, <3>2 DEF OperationLance, TypeOK, donnees, fils
  <2>12. ASSUME NEW t \in Taches, AppelNatif(t)
        PROVE  TypeOK'
    <3>1. Aller(t, "code", "natif")
      BY <2>12 DEF AppelNatif
    <3>2. reste' \in [Taches -> 0..Travail]
      BY <2>12, TypeOK DEF AppelNatif, TypeOK, Instruction
    <3>3. PlaceOK'
      BY <2>12, <3>1, AllerSansCible DEF AppelNatif, fils
    <3>4. QED
      BY <2>12, <3>2, <3>3 DEF AppelNatif, TypeOK, Liberer, donnees, fils
  <2>13. ASSUME NEW t \in Taches, FinNatif(t)
        PROVE  TypeOK'
    <3>1. Aller(t, "natif", "retour")
      BY <2>13 DEF FinNatif
    <3>2. PlaceOK'
      BY <2>13, <3>1, AllerSansCible DEF FinNatif, fils
    <3>3. QED
      BY <2>13, <3>2 DEF FinNatif, TypeOK, donnees, fils
  <2>14. ASSUME NEW t \in Taches, NatifSignale(t)
        PROVE  TypeOK'
    <3>1. Aller(t, "natif", "exception")
      BY <2>14 DEF NatifSignale
    <3>2. PlaceOK'
      BY <2>14, <3>1, AllerSansCible DEF NatifSignale, fils
    <3>3. QED
      BY <2>14, <3>2 DEF NatifSignale, TypeOK, donnees, fils
  <2>15. ASSUME NEW t \in Taches, GotoDansTexte(t)
        PROVE  TypeOK'
    <3>1. Aller(t, "code", "imbrique")
      BY <2>15 DEF GotoDansTexte
    <3>2. PlaceOK'
      BY <2>15, <3>1, AllerSansCible DEF GotoDansTexte, fils
    <3>3. QED
      BY <2>15, <3>2 DEF GotoDansTexte, TypeOK, Instruction, donnees, fils
  <2>16. ASSUME NEW t \in Taches, FinTexte(t)
        PROVE  TypeOK'
    <3>1. Aller(t, "texte", "code")
      BY <2>16 DEF FinTexte
    <3>2. perdus' \in Nat
      BY <2>16, TypeOK DEF FinTexte, TypeOK, globales
    <3>3. PlaceOK'
      BY <2>16, <3>1, AllerSansCible DEF FinTexte, fils
    <3>4. QED
      BY <2>16, <3>2, <3>3 DEF FinTexte, TypeOK, Liberer, globales, fils
  <2>17. ASSUME NEW t \in Taches, FinTache(t)
        PROVE  TypeOK'
    <3>1. Aller(t, "sortie", "fini")
      BY <2>17 DEF FinTache
    <3>2. PlaceOK'
      BY <2>17, <3>1, AllerSansCible DEF FinTache, fils
    <3>3. QED
      BY <2>17, <3>2 DEF FinTache, TypeOK, donnees, fils
  <2>18. ASSUME NEW t \in Taches, BigCrunchEchoue(t)
        PROVE  TypeOK'
    <3>1. Aller(t, "crunch", "retour")
      BY <2>18 DEF BigCrunchEchoue
    <3>2. PlaceOK'
      BY <2>18, <3>1, AllerSansCible DEF BigCrunchEchoue, fils
    <3>3. QED
      BY <2>18, <3>2 DEF BigCrunchEchoue, TypeOK, donnees, fils
  <2>19. ASSUME NEW t \in Taches, BigCrunchAttend(t)
        PROVE  TypeOK'
    <3>1. Aller(t, "crunch", "joint")
      BY <2>19 DEF BigCrunchAttend
    <3>2. PlaceOK'
      <4>1. cible' = cible
        BY <2>19 DEF BigCrunchAttend, fils
      <4>2. /\ pc' \in [Taches -> Etapes] /\ pc[t] = "crunch"
            /\ \A x \in Taches : x # t => pc'[x] = pc[x]
        BY <3>1, AllerPlace
      <4>3. QED
        BY <4>1, <4>2 DEF TypeOK, PlaceOK
    <3>3. QED
      BY <2>19, <3>2 DEF BigCrunchAttend, TypeOK, donnees, fils
  <2>20. ASSUME NEW t \in Taches, BigCrunchFini(t)
        PROVE  TypeOK'
    <3>1. Aller(t, "joint", "retour")
      BY <2>20 DEF BigCrunchFini
    <3>2. cible[t] \in Univers
      BY <3>1, AllerPlace DEF TypeOK, PlaceOK
    <3>3. PlaceOK'
      BY <2>20, <3>1, AllerSansCible DEF BigCrunchFini
    <3>4. QED
      BY <2>20, <3>2, <3>3 DEF BigCrunchFini, TypeOK, donnees
  <2>21. ASSUME NEW t \in Taches, GotoErreur(t)
        PROVE  TypeOK'
    <3>1. PICK vers \in {"code", "nul"} : Aller(t, "code", vers)
      BY <2>21 DEF GotoErreur, Exception
    <3>2. PlaceOK'
      BY <2>21, <3>1, AllerSansCible DEF GotoErreur, fils
    <3>3. QED
      BY <2>21, <3>2 DEF GotoErreur, TypeOK, Instruction, donnees, fils
  <2>22. ASSUME NEW t \in Taches, ParametresFaux(t)
        PROVE  TypeOK'
    <3>1. PICK vers \in {"code", "nul"} : Aller(t, "code", vers)
      BY <2>22 DEF ParametresFaux, Exception
    <3>2. PlaceOK'
      BY <2>22, <3>1, AllerSansCible DEF ParametresFaux, fils
    <3>3. QED
      BY <2>22, <3>2 DEF ParametresFaux, TypeOK, Instruction, donnees, fils
  <2>23. ASSUME NEW t \in Taches, NatifLance(t)
        PROVE  TypeOK'
    <3>1. PICK vers \in {"code", "nul"} : Aller(t, "natif", vers)
      BY <2>23 DEF NatifLance, Exception
    <3>2. PlaceOK'
      BY <2>23, <3>1, AllerSansCible DEF NatifLance, fils
    <3>3. QED
      BY <2>23, <3>2 DEF NatifLance, TypeOK, globales, fils
  <2>24. ASSUME NEW t \in Taches, LibererException(t)
        PROVE  TypeOK'
    <3>1. PICK vers \in {"code", "nul"} : Aller(t, "signale", vers)
      BY <2>24 DEF LibererException, Exception
    <3>2. perdus' \in Nat
      BY <2>24, TypeOK DEF LibererException, TypeOK, globales
    <3>3. PlaceOK'
      BY <2>24, <3>1, AllerSansCible DEF LibererException, fils
    <3>4. QED
      BY <2>24, <3>2, <3>3
      DEF LibererException, TypeOK, Liberer, globales, fils
  <2>25. ASSUME NEW t \in Taches, TexteLance(t)
        PROVE  TypeOK'
    <3>1. PICK vers \in {"code", "nul"} : Aller(t, "texte", vers)
      BY <2>25 DEF TexteLance, Exception
    <3>2. PlaceOK'
      BY <2>25, <3>1, AllerSansCible DEF TexteLance, fils
    <3>3. QED
      BY <2>25, <3>2 DEF TexteLance, TypeOK, donnees, fils
  <2>26. ASSUME NEW t \in Taches, EnErreur(t)
        PROVE  TypeOK'
    BY <2>26 DEF EnErreur, TypeOK, PlaceOK, donnees, fils
  <2>27. ASSUME NEW t \in Taches, NEW u \in Univers, NouvelleTache(t, u)
        PROVE  TypeOK'
    BY <2>27
    DEF NouvelleTache, Instruction, TypeOK, PlaceOK, Taches, donnees, fils
  <2>28. ASSUME NEW t \in Taches, NEW u \in Univers, AppelBigCrunch(t, u)
        PROVE  TypeOK'
    <3>1. Aller(t, "code", "crunch")
      BY <2>28 DEF AppelBigCrunch
    <3>2. reste' \in [Taches -> 0..Travail]
      BY <2>28, TypeOK DEF AppelBigCrunch, TypeOK, Instruction
    <3>3. pc' \in [Taches -> Etapes]
      BY <3>1, AllerPlace
    <3>4. PlaceOK'
      <4>1. cible' = [cible EXCEPT ![t] = u]
        BY <2>28 DEF AppelBigCrunch
      <4>2. \A x \in Taches : x # t => pc'[x] = pc[x]
        BY <3>1, AllerPlace
      <4>3. QED
        BY <3>3, <4>1, <4>2 DEF TypeOK, PlaceOK
    <3>5. QED
      BY <2>28, <3>2, <3>4 DEF AppelBigCrunch, TypeOK, Liberer, donnees
  <2>29. CASE FinProcessus
    BY <2>29 DEF FinProcessus, TypeOK, PlaceOK, donnees, fils
  <2>30. CASE Commande
    <3>1. Aller(Principal, "sortie", "entree")
      BY <2>30 DEF Commande
    <3>2. Principal \in Taches
      BY DEF Taches
    <3>3. PlaceOK'
      BY <2>30, <3>1, <3>2, AllerSansCible DEF Commande
    <3>4. /\ gest' \in [Taches -> BOOLEAN]
          /\ reste' \in [Taches -> 0..Travail]
      BY <2>30, <3>2 DEF Commande, TypeOK
    <3>5. QED
      BY <2>30, <3>3, <3>4 DEF Commande, TypeOK, donnees
  <2>31. CASE UNCHANGED vars
    BY <2>31 DEF vars, TypeOK, PlaceOK
  <2>32. QED
    BY <2>1, <2>2, <2>3, <2>4, <2>5, <2>6, <2>7, <2>8, <2>9, <2>10,
       <2>11, <2>12, <2>13, <2>14, <2>15, <2>16, <2>17, <2>18,
       <2>19, <2>20, <2>21, <2>22, <2>23, <2>24, <2>25, <2>26,
       <2>27, <2>28, <2>29, <2>30, <2>31
    DEF Next, PrendLeVerrou, Entrer, Avance, AvanceSeule, Continuer, Peupler, Termine
<1>3. QED
  BY <1>1, <1>2, PTL DEF Spec

-----------------------------------------------------------------------------
(* How a step changes the set of tasks that execute virtual code. *)

\* The tasks are finitely many, so that those in virtual code can be counted.
LEMMA ExecutantsFinis ==
  ASSUME TypeOK
  PROVE  IsFiniteSet(Executants) /\ Cardinality(Executants) \in Nat
<1>1. IsFiniteSet(Taches)
  BY TachesAssumption, FS_AddElement DEF Taches
<1>2. Executants \in SUBSET Taches
  BY DEF Executants
<1>3. QED
  BY <1>1, <1>2, FS_Subset, FS_CardinalityType

\* A task starts executing.
LEMMA Commence ==
  ASSUME TypeOK, NEW t \in Taches, NEW de \in Etapes \ EtapesVM,
         NEW vers \in EtapesVM, Aller(t, de, vers)
  PROVE  Cardinality(Executants') = Cardinality(Executants) + 1
<1>1. Executants' = Executants \cup {t} /\ t \notin Executants
  BY DEF Executants, EnVM, Aller, TypeOK, PlaceOK
<1>2. QED
  BY <1>1, ExecutantsFinis, FS_AddElement

\* A task stops executing.
LEMMA Cesse ==
  ASSUME TypeOK, NEW t \in Taches, NEW de \in EtapesVM,
         NEW vers \in Etapes \ EtapesVM, Aller(t, de, vers)
  PROVE  Cardinality(Executants') = Cardinality(Executants) - 1
<1>1. Executants' = Executants \ {t} /\ t \in Executants
  BY DEF Executants, EnVM, Aller, TypeOK, PlaceOK
<1>2. QED
  BY <1>1, ExecutantsFinis, FS_RemoveElement

\* A task goes on executing, or goes on not executing.
LEMMA Continue ==
  ASSUME TypeOK, NEW t \in Taches, NEW de, NEW vers,
         de \in EtapesVM <=> vers \in EtapesVM, Aller(t, de, vers)
  PROVE  Executants' = Executants
  BY DEF Executants, EnVM, Aller, TypeOK, PlaceOK

\* The four ways a step may change the two sides of DegatsBornes.
LEMMA Comptes ==
  ASSUME TypeOK, TypeOK', DegatsBornes,
         NEW n, n = Cardinality(Executants),
         NEW n1, n1 = Cardinality(Executants'),
         \/ n1 = n     /\ perdus' = perdus     /\ verrou' = verrou
         \/ n1 = n - 1 /\ perdus' = perdus
         \/ n1 = n + 1 /\ perdus' = perdus     /\ ~verrou /\ verrou'
         \/ n1 = n + 1 /\ perdus' = perdus + 1 /\ verrou' = verrou
         \/ n1 = n     /\ perdus' = perdus + 1
  PROVE  DegatsBornes'
<1> DEFINE v  == IF verrou THEN 1 ELSE 0
           v1 == IF verrou' THEN 1 ELSE 0
<1>1. v \in {0, 1} /\ v1 \in {0, 1}
  OBVIOUS
<1>2. n <= perdus + v
  BY DEF DegatsBornes
<1>3. n \in Nat /\ perdus \in Nat /\ perdus' \in Nat
  BY ExecutantsFinis DEF TypeOK, PlaceOK
<1>4. (verrou' = verrou => v1 = v) /\ (~verrou => v = 0) /\ (verrou' => v1 = 1)
  OBVIOUS
<1>5. n1 <= perdus' + v1
  <2> HIDE DEF v, v1
  <2>1. CASE n1 = n /\ perdus' = perdus /\ v1 = v
    BY <1>2, <2>1
  <2>2. CASE n1 = n - 1 /\ perdus' = perdus
    BY <1>1, <1>2, <1>3, <2>2
  <2>3. CASE n1 = n + 1 /\ perdus' = perdus /\ v = 0 /\ v1 = 1
    BY <1>2, <1>3, <2>3
  <2>4. CASE n1 = n + 1 /\ perdus' = perdus + 1 /\ v1 = v
    BY <1>1, <1>2, <1>3, <2>4
  <2>5. CASE n1 = n /\ perdus' = perdus + 1
    BY <1>1, <1>2, <1>3, <2>5
  <2>6. QED
    BY <1>4, <2>1, <2>2, <2>3, <2>4, <2>5, Zenon
<1>6. QED
  BY <1>5 DEF DegatsBornes

\* The number of tasks in virtual code never exceeds one, plus one for each
\* time a task went on without the mutex.
THEOREM Degats == Spec => []DegatsBornes
<1>1. Init => DegatsBornes
  <2> SUFFICES ASSUME Init PROVE DegatsBornes
    OBVIOUS
  <2>1. Executants = {}
    BY DEF Init, Executants, EnVM, EtapesVM
  <2>2. QED
    BY <2>1, FS_EmptySet DEF Init, DegatsBornes
<1>2. TypeOK /\ TypeOK' /\ DegatsBornes /\ [Next]_vars => DegatsBornes'
  <2> SUFFICES ASSUME TypeOK, TypeOK', DegatsBornes, [Next]_vars
               PROVE  DegatsBornes'
    OBVIOUS
  <2> USE DEF Etapes, EtapesVM
  <2>1. ASSUME NEW t \in Taches, EntrerExecuter(t)
        PROVE  DegatsBornes'
    <3>1. Aller(t, "entree", "code")
      BY <2>1 DEF EntrerExecuter
    <3>2. Cardinality(Executants') = Cardinality(Executants) + 1
      BY <3>1, Commence
    <3>3. QED
      BY <2>1, <3>2, Comptes DEF EntrerExecuter, Prendre, donnees
  <2>2. ASSUME NEW t \in Taches, RepriseLigne(t)
        PROVE  DegatsBornes'
    <3>1. Aller(t, "ligne", "code")
      BY <2>2 DEF RepriseLigne
    <3>2. Cardinality(Executants') = Cardinality(Executants) + 1
      BY <3>1, Commence
    <3>3. QED
      BY <2>2, <3>2, Comptes DEF RepriseLigne, Prendre, donnees
  <2>3. ASSUME NEW t \in Taches, PrendreException(t)
        PROVE  DegatsBornes'
    <3>1. Aller(t, "exception", "signale")
      BY <2>3 DEF PrendreException
    <3>2. Cardinality(Executants') = Cardinality(Executants) + 1
      BY <3>1, Commence
    <3>3. QED
      BY <2>3, <3>2, Comptes DEF PrendreException, Prendre, donnees
  <2>4. ASSUME NEW t \in Taches, EntrerTexte(t)
        PROVE  DegatsBornes'
    <3>1. Aller(t, "imbrique", "texte")
      BY <2>4 DEF EntrerTexte
    <3>2. Cardinality(Executants') = Cardinality(Executants) + 1
      BY <3>1, Commence
    <3>3. QED
      BY <2>4, <3>2, Comptes DEF EntrerTexte, Prendre, donnees
  <2>5. ASSUME NEW t \in Taches, RetourNatif(t)
        PROVE  DegatsBornes'
    <3>1. Aller(t, "retour", "code")
      BY <2>5 DEF RetourNatif
    <3>2. Cardinality(Executants') = Cardinality(Executants) + 1
      BY <3>1, Commence
    <3>3. QED
      BY <2>5, <3>2, Comptes DEF RetourNatif, Prendre, donnees
  <2>6. ASSUME NEW t \in Taches, DebutLigne(t)
        PROVE  DegatsBornes'
    <3>1. Aller(t, "code", "ligne")
      BY <2>6 DEF DebutLigne
    <3>2. Cardinality(Executants') = Cardinality(Executants) - 1
      BY <3>1, Cesse
    <3>3. QED
      BY <2>6, <3>2, Comptes DEF DebutLigne, donnees
  <2>7. ASSUME NEW t \in Taches, Stop(t)
        PROVE  DegatsBornes'
    <3>1. Aller(t, "code", "sortie")
      BY <2>7 DEF Stop
    <3>2. Cardinality(Executants') = Cardinality(Executants) - 1
      BY <3>1, Cesse
    <3>3. QED
      BY <2>7, <3>2, Comptes DEF Stop, donnees
  <2>8. ASSUME NEW t \in Taches, FinBoucle(t)
        PROVE  DegatsBornes'
    <3>1. Aller(t, "nul", "sortie")
      BY <2>8 DEF FinBoucle
    <3>2. Cardinality(Executants') = Cardinality(Executants) - 1
      BY <3>1, Cesse
    <3>3. QED
      BY <2>8, <3>2, Comptes DEF FinBoucle, donnees
  <2>9. ASSUME NEW t \in Taches, AppelNatif(t)
        PROVE  DegatsBornes'
    <3>1. Aller(t, "code", "natif")
      BY <2>9 DEF AppelNatif
    <3>2. Cardinality(Executants') = Cardinality(Executants) - 1
      BY <3>1, Cesse
    <3>3. QED
      BY <2>9, <3>2, Comptes DEF AppelNatif, donnees
  <2>10. ASSUME NEW t \in Taches, NEW u \in Univers, AppelBigCrunch(t, u)
        PROVE  DegatsBornes'
    <3>1. Aller(t, "code", "crunch")
      BY <2>10 DEF AppelBigCrunch
    <3>2. Cardinality(Executants') = Cardinality(Executants) - 1
      BY <3>1, Cesse
    <3>3. QED
      BY <2>10, <3>2, Comptes DEF AppelBigCrunch, donnees
  <2>11. ASSUME NEW t \in Taches, OperationLance(t)
        PROVE  DegatsBornes'
    <3>1. Aller(t, "code", "sortie")
      BY <2>11 DEF OperationLance
    <3>2. Cardinality(Executants') = Cardinality(Executants) - 1
      BY <3>1, Cesse
    <3>3. QED
      BY <2>11, <3>2, Comptes DEF OperationLance, donnees
  <2>12. ASSUME NEW t \in Taches, GotoDansTexte(t)
        PROVE  DegatsBornes'
    <3>1. Aller(t, "code", "imbrique")
      BY <2>12 DEF GotoDansTexte
    <3>2. Cardinality(Executants') = Cardinality(Executants) - 1
      BY <3>1, Cesse
    <3>3. QED
      BY <2>12, <3>2, Comptes DEF GotoDansTexte, donnees
  <2>13. ASSUME NEW t \in Taches, LireVarGlob(t)
        PROVE  DegatsBornes'
    <3>1. Aller(t, "code", "ecrit")
      BY <2>13 DEF LireVarGlob
    <3>2. Executants' = Executants
      BY <3>1, Continue
    <3>3. QED
      BY <2>13, <3>2, Comptes DEF LireVarGlob, donnees
  <2>14. ASSUME NEW t \in Taches, EcrireVarGlob(t)
        PROVE  DegatsBornes'
    <3>1. Aller(t, "ecrit", "code")
      BY <2>14 DEF EcrireVarGlob
    <3>2. Executants' = Executants
      BY <3>1, Continue
    <3>3. QED
      BY <2>14, <3>2, Comptes DEF EcrireVarGlob, donnees
  <2>15. ASSUME NEW t \in Taches, FinNatif(t)
        PROVE  DegatsBornes'
    <3>1. Aller(t, "natif", "retour")
      BY <2>15 DEF FinNatif
    <3>2. Executants' = Executants
      BY <3>1, Continue
    <3>3. QED
      BY <2>15, <3>2, Comptes DEF FinNatif, donnees
  <2>16. ASSUME NEW t \in Taches, NatifSignale(t)
        PROVE  DegatsBornes'
    <3>1. Aller(t, "natif", "exception")
      BY <2>16 DEF NatifSignale
    <3>2. Executants' = Executants
      BY <3>1, Continue
    <3>3. QED
      BY <2>16, <3>2, Comptes DEF NatifSignale, donnees
  <2>17. ASSUME NEW t \in Taches, BigCrunchEchoue(t)
        PROVE  DegatsBornes'
    <3>1. Aller(t, "crunch", "retour")
      BY <2>17 DEF BigCrunchEchoue
    <3>2. Executants' = Executants
      BY <3>1, Continue
    <3>3. QED
      BY <2>17, <3>2, Comptes DEF BigCrunchEchoue, donnees
  <2>18. ASSUME NEW t \in Taches, BigCrunchAttend(t)
        PROVE  DegatsBornes'
    <3>1. Aller(t, "crunch", "joint")
      BY <2>18 DEF BigCrunchAttend
    <3>2. Executants' = Executants
      BY <3>1, Continue
    <3>3. QED
      BY <2>18, <3>2, Comptes DEF BigCrunchAttend, donnees
  <2>19. ASSUME NEW t \in Taches, BigCrunchFini(t)
        PROVE  DegatsBornes'
    <3>1. Aller(t, "joint", "retour")
      BY <2>19 DEF BigCrunchFini
    <3>2. Executants' = Executants
      BY <3>1, Continue
    <3>3. QED
      BY <2>19, <3>2, Comptes DEF BigCrunchFini, donnees
  <2>20. ASSUME NEW t \in Taches, FinTache(t)
        PROVE  DegatsBornes'
    <3>1. Aller(t, "sortie", "fini")
      BY <2>20 DEF FinTache
    <3>2. Executants' = Executants
      BY <3>1, Continue
    <3>3. QED
      BY <2>20, <3>2, Comptes DEF FinTache, donnees
  <2>21. ASSUME NEW t \in Taches, FinTexte(t)
        PROVE  DegatsBornes'
    <3>1. Aller(t, "texte", "code")
      BY <2>21 DEF FinTexte
    <3>2. Executants' = Executants
      BY <3>1, Continue
    <3>3. QED
      BY <2>21, <3>2, Comptes DEF FinTexte, globales
  <2>22. ASSUME NEW t \in Taches, GotoErreur(t)
        PROVE  DegatsBornes'
    <3>1. PICK vers \in {"code", "nul"} : Aller(t, "code", vers)
      BY <2>22 DEF GotoErreur, Exception
    <3>2. Executants' = Executants
      BY <3>1, Continue
    <3>3. QED
      BY <2>22, <3>2, Comptes DEF GotoErreur, donnees
  <2>23. ASSUME NEW t \in Taches, ParametresFaux(t)
        PROVE  DegatsBornes'
    <3>1. PICK vers \in {"code", "nul"} : Aller(t, "code", vers)
      BY <2>23 DEF ParametresFaux, Exception
    <3>2. Executants' = Executants
      BY <3>1, Continue
    <3>3. QED
      BY <2>23, <3>2, Comptes DEF ParametresFaux, donnees
  <2>24. ASSUME NEW t \in Taches, TexteLance(t)
        PROVE  DegatsBornes'
    <3>1. PICK vers \in {"code", "nul"} : Aller(t, "texte", vers)
      BY <2>24 DEF TexteLance, Exception
    <3>2. Executants' = Executants
      BY <3>1, Continue
    <3>3. QED
      BY <2>24, <3>2, Comptes DEF TexteLance, donnees
  <2>25. ASSUME NEW t \in Taches, LibererException(t)
        PROVE  DegatsBornes'
    <3>1. PICK vers \in {"code", "nul"} : Aller(t, "signale", vers)
      BY <2>25 DEF LibererException, Exception
    <3>2. Executants' = Executants
      BY <3>1, Continue
    <3>3. QED
      BY <2>25, <3>2, Comptes DEF LibererException, globales
  <2>26. ASSUME NEW t \in Taches, NatifLance(t)
        PROVE  DegatsBornes'
    <3>1. PICK vers \in {"code", "nul"} : Aller(t, "natif", vers)
      BY <2>26 DEF NatifLance, Exception
    <3>2. Cardinality(Executants') = Cardinality(Executants) + 1
      BY <3>1, Commence
    <3>3. QED
      BY <2>26, <3>2, Comptes DEF NatifLance, globales
  <2>27. ASSUME NEW t \in Taches, EnErreur(t)
        PROVE  DegatsBornes'
    BY <2>27, Comptes DEF EnErreur, Executants, EnVM, donnees
  <2>28. ASSUME NEW t \in Taches, NEW u \in Univers, NouvelleTache(t, u)
        PROVE  DegatsBornes'
    <3>1. Executants' = Executants
      BY <2>28 DEF NouvelleTache, Executants, EnVM, TypeOK, PlaceOK, Taches
    <3>2. QED
      BY <2>28, <3>1, Comptes DEF NouvelleTache, donnees
  <2>29. CASE FinProcessus
    BY <2>29, Comptes DEF FinProcessus, Executants, EnVM, donnees
  <2>30. CASE Commande
    <3>1. Aller(Principal, "sortie", "entree") /\ Principal \in Taches
      BY <2>30 DEF Commande, Taches
    <3>2. Executants' = Executants
      BY <3>1, Continue
    <3>3. QED
      BY <2>30, <3>2, Comptes DEF Commande, donnees
  <2>31. CASE UNCHANGED vars
    BY <2>31, Comptes DEF vars, Executants, EnVM
  <2>32. QED
    BY <2>1, <2>2, <2>3, <2>4, <2>5, <2>6, <2>7, <2>8, <2>9, <2>10,
       <2>11, <2>12, <2>13, <2>14, <2>15, <2>16, <2>17, <2>18,
       <2>19, <2>20, <2>21, <2>22, <2>23, <2>24, <2>25, <2>26,
       <2>27, <2>28, <2>29, <2>30, <2>31
    DEF Next, PrendLeVerrou, Entrer, Avance, AvanceSeule, Continuer, Peupler, Termine
<1>3. QED
  BY <1>1, <1>2, TypeCorrect, PTL DEF Spec

\* Without a loss there is one token for at most one task.
LEMMA UnSeulJeton == TypeOK /\ DegatsBornes => AccesExclusif
<1> SUFFICES ASSUME TypeOK, DegatsBornes, perdus = 0,
                    NEW t \in Taches, NEW u \in Taches, EnVM(t), EnVM(u), t # u
             PROVE  FALSE
  BY DEF AccesExclusif
<1>1. Cardinality(Executants) <= 1
  <2>1. (IF verrou THEN 1 ELSE 0) \in {0, 1}
    OBVIOUS
  <2>2. QED
    BY <2>1, ExecutantsFinis DEF DegatsBornes
<1>2. IsFiniteSet({t}) /\ Cardinality({t}) = 1
  BY FS_Singleton
<1>3. IsFiniteSet({t} \cup {u}) /\ Cardinality({t} \cup {u}) = 2
  BY <1>2, FS_AddElement
<1>4. {t} \cup {u} \in SUBSET Executants
  BY DEF Executants
<1>5. Cardinality({t} \cup {u}) <= Cardinality(Executants)
  BY <1>4, ExecutantsFinis, FS_Subset
<1>6. QED
  BY <1>1, <1>3, <1>5, ExecutantsFinis

\* Mutual exclusion: as long as no task has lost the mutex, one at a time.
THEOREM Exclusion == Spec => []AccesExclusif
  BY TypeCorrect, Degats, UnSeulJeton, PTL

-----------------------------------------------------------------------------
(* No increment is lost while nobody has lost the mutex. *)

\* A task between the read and the write of I_INCREMENTER has read the
\* current value.
LectureFraiche ==
  perdus = 0 => \A t \in Taches : pc[t] = "ecrit" => lu[t] = varGlob

\* A step that neither touches the variable nor starts a read keeps it.
LEMMA CompteurIntact ==
  ASSUME TypeOK, LectureFraiche, CompteurExact,
         UNCHANGED <<varGlob, lu, faits>>,
         perdus' = 0 => perdus = 0,
         \A x \in Taches : pc'[x] = "ecrit" => pc[x] = "ecrit"
  PROVE  LectureFraiche' /\ CompteurExact'
  BY DEF LectureFraiche, CompteurExact, CompteurJuste

\* As long as no task has lost the mutex the shared variable counts the
\* increments: a value that was read is still there when it is written back.
THEOREM Compteur == Spec => []CompteurExact
<1>1. Init => LectureFraiche /\ CompteurExact
  BY DEF Init, LectureFraiche, CompteurExact, CompteurJuste
<1>2. TypeOK /\ AccesExclusif /\ LectureFraiche /\ CompteurExact /\ [Next]_vars
        => LectureFraiche' /\ CompteurExact'
  <2> SUFFICES ASSUME TypeOK, AccesExclusif, LectureFraiche, CompteurExact,
                      [Next]_vars
               PROVE  LectureFraiche' /\ CompteurExact'
    OBVIOUS
  <2>1. ASSUME NEW t \in Taches, LireVarGlob(t)
        PROVE  LectureFraiche' /\ CompteurExact'
    BY <2>1
    DEF LireVarGlob, Aller, TypeOK, PlaceOK, LectureFraiche, CompteurExact,
        CompteurJuste
  <2>2. ASSUME NEW t \in Taches, EcrireVarGlob(t)
        PROVE  LectureFraiche' /\ CompteurExact'
    <3>1. perdus = 0 => \A u \in Taches : pc[u] = "ecrit" => u = t
      BY <2>2 DEF EcrireVarGlob, Aller, AccesExclusif, EnVM, EtapesVM
    <3>2. perdus = 0 => lu[t] = varGlob /\ varGlob = faits
      BY <2>2
      DEF EcrireVarGlob, Aller, LectureFraiche, CompteurExact, CompteurJuste
    <3>3. QED
      BY <2>2, <3>1, <3>2
      DEF EcrireVarGlob, Aller, TypeOK, PlaceOK, LectureFraiche, CompteurExact,
          CompteurJuste
  <2>3. ASSUME NEW t \in Taches, PrendLeVerrou(t)
        PROVE  LectureFraiche' /\ CompteurExact'
    BY <2>3, CompteurIntact
    DEF PrendLeVerrou, Entrer, EntrerExecuter, RepriseLigne, RetourNatif,
        PrendreException, EntrerTexte, Aller, TypeOK, PlaceOK, donnees
  <2>4. ASSUME NEW t \in Taches,
               \/ DebutLigne(t) \/ EnErreur(t) \/ Stop(t) \/ FinBoucle(t)
               \/ OperationLance(t) \/ AppelNatif(t) \/ FinNatif(t)
               \/ NatifSignale(t) \/ GotoDansTexte(t) \/ BigCrunchEchoue(t)
               \/ BigCrunchAttend(t) \/ BigCrunchFini(t) \/ FinTache(t)
        PROVE  LectureFraiche' /\ CompteurExact'
    BY <2>4, CompteurIntact
    DEF DebutLigne, EnErreur, Stop, FinBoucle, OperationLance, AppelNatif,
        FinNatif, NatifSignale, GotoDansTexte, BigCrunchEchoue,
        BigCrunchAttend, BigCrunchFini, FinTache, Aller, TypeOK, PlaceOK,
        donnees
  <2>5. ASSUME NEW t \in Taches,
               GotoErreur(t) \/ ParametresFaux(t) \/ TexteLance(t)
        PROVE  LectureFraiche' /\ CompteurExact'
    BY <2>5, CompteurIntact
    DEF GotoErreur, ParametresFaux, TexteLance, Exception, Aller, TypeOK,
        PlaceOK,
        donnees
  <2>6. ASSUME NEW t \in Taches,
               NatifLance(t) \/ LibererException(t) \/ FinTexte(t)
        PROVE  LectureFraiche' /\ CompteurExact'
    <3>1. perdus' # 0
      BY <2>6 DEF NatifLance, LibererException, FinTexte, TypeOK, PlaceOK
    <3>2. QED
      BY <3>1 DEF LectureFraiche, CompteurExact
  <2>7. ASSUME NEW t \in Taches, NEW u \in Univers,
               NouvelleTache(t, u) \/ AppelBigCrunch(t, u)
        PROVE  LectureFraiche' /\ CompteurExact'
    BY <2>7, CompteurIntact
    DEF NouvelleTache, AppelBigCrunch, Aller, TypeOK, PlaceOK, Taches, donnees
  <2>8. CASE FinProcessus \/ Commande \/ UNCHANGED vars
    BY <2>8, CompteurIntact
    DEF FinProcessus, Commande, vars, Aller, TypeOK, PlaceOK, Taches, donnees
  <2>9. QED
    BY <2>1, <2>2, <2>3, <2>4, <2>5, <2>6, <2>7, <2>8
    DEF Next, Avance, AvanceSeule, Continuer, Peupler, Termine
<1>3. QED
  BY <1>1, <1>2, TypeCorrect, Exclusion, PTL DEF Spec

-----------------------------------------------------------------------------
(* What is left of the mutex. *)

\* The errors after which Executer is left, or entered again, with the mutex
\* locked.
GardentLeVerrou == {"operation", "texte"}

\* A program without them never leaves the mutex behind: whenever it is locked
\* some task is in byte code and will release it.
THEOREM VerrouRendu ==
  ASSUME GardentLeVerrou \cap Imprevus = {}
  PROVE  Spec => []VerrouJamaisPerdu
<1>1. Init => VerrouJamaisPerdu
  BY DEF Init, VerrouJamaisPerdu
<1>2. TypeOK /\ VerrouJamaisPerdu /\ [Next]_vars => VerrouJamaisPerdu'
  <2> SUFFICES ASSUME TypeOK, VerrouJamaisPerdu, [Next]_vars
               PROVE  VerrouJamaisPerdu'
    OBVIOUS
  <2> USE DEF EnVM, EtapesVM
  <2>1. ASSUME NEW t \in Taches, PrendLeVerrou(t)
        PROVE  VerrouJamaisPerdu'
    <3>1. pc'[t] \in {"code", "signale", "texte"}
      BY <2>1
      DEF PrendLeVerrou, Entrer, EntrerExecuter, RepriseLigne, RetourNatif,
          PrendreException, EntrerTexte, Aller, TypeOK, PlaceOK
    <3>2. QED
      BY <3>1 DEF VerrouJamaisPerdu
  <2>2. ASSUME NEW t \in Taches,
               \/ DebutLigne(t) \/ Stop(t) \/ FinBoucle(t) \/ AppelNatif(t)
               \/ LibererException(t) \/ FinTexte(t)
        PROVE  VerrouJamaisPerdu'
    BY <2>2
    DEF DebutLigne, Stop, FinBoucle, AppelNatif, LibererException, FinTexte,
        Liberer, VerrouJamaisPerdu
  <2>3. ASSUME NEW t \in Taches,
               \/ LireVarGlob(t) \/ EcrireVarGlob(t) \/ FinNatif(t)
               \/ NatifSignale(t) \/ BigCrunchEchoue(t) \/ BigCrunchAttend(t)
               \/ BigCrunchFini(t) \/ FinTache(t)
        PROVE  VerrouJamaisPerdu'
    BY <2>3
    DEF LireVarGlob, EcrireVarGlob, FinNatif, NatifSignale, BigCrunchEchoue,
        BigCrunchAttend, BigCrunchFini, FinTache, Aller, TypeOK, PlaceOK,
        VerrouJamaisPerdu
  <2>4. ASSUME NEW t \in Taches,
               \/ GotoErreur(t) \/ ParametresFaux(t) \/ TexteLance(t)
               \/ NatifLance(t)
        PROVE  VerrouJamaisPerdu'
    BY <2>4
    DEF GotoErreur, ParametresFaux, TexteLance, NatifLance, Exception, Aller,
        TypeOK, PlaceOK, VerrouJamaisPerdu
  <2>5. ASSUME NEW t \in Taches, NEW u \in Univers,
               NouvelleTache(t, u) \/ AppelBigCrunch(t, u)
        PROVE  VerrouJamaisPerdu'
    BY <2>5
    DEF NouvelleTache, AppelBigCrunch, Liberer, Aller, TypeOK, PlaceOK, Taches,
        VerrouJamaisPerdu
  <2>6. CASE Commande
    BY <2>6 DEF Commande, Aller, TypeOK, PlaceOK, Taches, VerrouJamaisPerdu
  <2>7. CASE \/ \E t \in Taches : EnErreur(t)
             \/ FinProcessus \/ UNCHANGED vars
    BY <2>7 DEF EnErreur, FinProcessus, vars, VerrouJamaisPerdu
  <2>8. CASE \E t \in Taches : OperationLance(t) \/ GotoDansTexte(t)
    BY <2>8 DEF OperationLance, GotoDansTexte, GardentLeVerrou
  <2>9. QED
    BY <2>1, <2>2, <2>3, <2>4, <2>5, <2>6, <2>7, <2>8
    DEF Next, Avance, AvanceSeule, Continuer, Peupler, Termine
<1>3. QED
  BY <1>1, <1>2, TypeCorrect, PTL DEF Spec
\* The places of a task in an error that comes from elsewhere.
Egares == {"exception", "signale", "imbrique", "texte"}

\* A script whose native functions do not throw, and that nests no text, makes
\* the steps of NextScript only, the steps the run on fairness is about.
THEOREM ScriptSeul ==
  ASSUME Imprevus \subseteq Propres
  PROVE  Spec => Init /\ [][NextScript]_vars
<1>. DEFINE Dehors == \A t \in Taches : pc[t] \notin Egares
<1>1. Init => Dehors
  BY DEF Init, Egares
<1>2. TypeOK /\ Dehors /\ [Next]_vars => [NextScript]_vars
  <2> SUFFICES ASSUME Dehors, Next
               PROVE  NextScript
    OBVIOUS
  <2>1. ASSUME NEW t \in Taches PROVE PrendLeVerrou(t) => Entrer(t)
    BY DEF PrendLeVerrou, PrendreException, EntrerTexte, Aller, Egares
  <2>2. ASSUME NEW t \in Taches PROVE AvanceSeule(t) => Continuer(t)
    BY DEF AvanceSeule, OperationLance, NatifLance, NatifSignale,
           LibererException, GotoDansTexte, FinTexte, TexteLance, Exception,
           Aller, Egares, Propres
  <2>3. QED
    BY <2>1, <2>2 DEF Next, NextScript, Avance
<1>3. TypeOK /\ Dehors /\ [NextScript]_vars => Dehors'
  <2> SUFFICES ASSUME TypeOK, Dehors, [NextScript]_vars
               PROVE  Dehors'
    OBVIOUS
  <2> USE DEF Egares
  <2>1. ASSUME NEW t \in Taches, Entrer(t)
        PROVE  Dehors'
    BY <2>1 DEF Entrer, EntrerExecuter, RepriseLigne, RetourNatif, Aller, TypeOK,
                PlaceOK
  <2>2. ASSUME NEW t \in Taches, Continuer(t)
        PROVE  Dehors'
    BY <2>2 DEF Continuer, DebutLigne, LireVarGlob, EcrireVarGlob, EnErreur, Stop,
                FinBoucle, GotoErreur, ParametresFaux, AppelNatif, FinNatif,
                AppelBigCrunch, BigCrunchEchoue, BigCrunchAttend,
                BigCrunchFini, Exception, Aller, TypeOK, PlaceOK
  <2>3. ASSUME NEW t \in Taches, Peupler(t)
        PROVE  Dehors'
    BY <2>3 DEF Peupler, FinTache, NouvelleTache, Aller, TypeOK, PlaceOK, Taches
  <2>4. CASE Commande
    BY <2>4 DEF Commande, Aller, TypeOK, PlaceOK, Taches
  <2>5. CASE FinProcessus \/ UNCHANGED vars
    BY <2>5 DEF FinProcessus, vars
  <2>6. QED
    BY <2>1, <2>2, <2>3, <2>4, <2>5 DEF NextScript, Termine
<1>4. QED
  BY <1>1, <1>2, <1>3, TypeCorrect, PTL DEF Spec

-----------------------------------------------------------------------------
(* The tasks with their table. *)

\* A program with its table does only what Taches says: the theorems above hold
\* of it.
THEOREM TableImplante == SpecTable => Spec
<1>1. InitTable => Init
  BY DEF InitTable
<1>2. [NextTable]_tout => [Next]_vars
  <2> SUFFICES ASSUME [NextTable]_tout
               PROVE  [Next]_vars
    OBVIOUS
  <2>1. ASSUME NEW t \in Taches, Ailleurs(t)
        PROVE  [Next]_vars
    BY <2>1 DEF Ailleurs, Next, Avance
  <2>2. ASSUME NEW t \in Taches, Creer(t)
        PROVE  [Next]_vars
    BY <2>2 DEF Creer, Next, Avance, Peupler
  <2>3. ASSUME NEW t \in Taches,
               CreerEcrit(t) \/ \E u \in Univers : CreerLit(t, u)
        PROVE  [Next]_vars
    BY <2>3 DEF CreerEcrit, CreerLit
  <2>4. ASSUME NEW u \in Univers, Supprimer(u) \/ Finir(u)
        PROVE  [Next]_vars
    BY <2>4 DEF Supprimer, Finir, Next, Avance, Peupler, Taches
  <2>5. QED
    BY <2>1, <2>2, <2>3, <2>4 DEF NextTable, Next, Termine, tout
<1>3. QED
  BY <1>1, <1>2, PTL DEF Spec, SpecTable

\* Each of its steps is one of the table, or leaves the table alone.
THEOREM TableSuivie == SpecTable => Table!Spec
<1>1. InitTable => Table!Init
  BY DEF InitTable
<1>2. [NextTable]_tout => [Table!Next]_(Table!vars)
  BY DEF NextTable, tout, table, Ailleurs, CreerEcrit, CreerLit, Creer,
         Supprimer, Finir, Table!Next, Table!vars
<1>3. QED
  BY <1>1, <1>2, PTL DEF SpecTable, Table!Spec

\* As long as no two operations on it were mixed the table holds the universes
\* that have not been taken out, whatever errors the script provokes.
THEOREM TableJuste == SpecTable => []TableExacte
<1>1. TP!Hypotheses
  BY TachesAssumption DEF TP!Hypotheses, IsFiniteSet, TP!IsFiniteSet
<1>2. TP!Spec => []TP!TableExacte
  BY <1>1, TP!TableToujoursExacte
<1>3. TP!Cellules = Table!Cellules
  BY DEF TP!Cellules, Table!Cellules, TP!Cardinality, Table!Cardinality
<1>4. Table!Init => TP!Init
  BY <1>3 DEF TP!Init, Table!Init
<1>5. [Table!Next]_(Table!vars) => [TP!Next]_(TP!vars)
  BY <1>3 DEF TP!vars, Table!vars, TP!Next, Table!Next, TP!EtendreLit,
         Table!EtendreLit, TP!EtendreEcrit, Table!EtendreEcrit,
         TP!EtendrePublie, Table!EtendrePublie, TP!Chercher, Table!Chercher,
         TP!Decaler, Table!Decaler, TP!LireL, Table!LireL, TP!EcrireL,
         Table!EcrireL, TP!Termine, Table!Termine, TP!Commencer,
         Table!Commencer, TP!Libre, Table!Libre, TP!EnSuppression,
         Table!EnSuppression, TP!Positions, Table!Positions, TP!Tasser,
         Table!Tasser, TP!fils, Table!fils, TP!creation, Table!creation
<1>6. TP!TableExacte <=> TableExacte
  BY <1>3 DEF TableExacte, TP!TableExacte, Table!TableExacte, TP!Libre,
              Table!Libre, TP!EnSuppression, Table!EnSuppression,
              TP!Cardinality, Table!Cardinality
<1>7. QED
  BY <1>2, <1>4, <1>5, <1>6, TableSuivie, PTL DEF TP!Spec, Table!Spec
=============================================================================
