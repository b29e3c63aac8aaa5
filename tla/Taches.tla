-------------------------------- MODULE Taches --------------------------------
(***************************************************************************)
(* The tasks of a GOTO++ program and the one mutex they share.             *)
(*                                                                         *)
(* Every CInterpreteur runs CInterpreteur::Executer in a thread of its own *)
(* and must hold programme->mutex while it executes virtual code.  It      *)
(* gives the mutex up at every I_DEBUTLIGNE, inside every C function       *)
(* between FinParametres and Retourner*, and when Executer returns.        *)
(* Errors leave this protocol by other doors: a const carac * thrown by a  *)
(* C function, by an instruction, or by GOTOerreur.  The constant Imprevus *)
(* says which of them the script provokes, so that a run can show what     *)
(* holds without one of them and what breaks with it.                      *)
(*                                                                         *)
(* Data is abstracted to one global variable that lines increment.         *)
(***************************************************************************)
EXTENDS Naturals, FiniteSets

CONSTANTS
  Univers,      \* the CTache objects the script may create
  Principal,    \* the interpreter of czmain
  Aucun,        \* "no universe"
  Travail,      \* bound: instructions with an effect per Executer
  Imprevus,     \* the kinds of errors the script provokes
  Attentes,     \* <<t, u>>: task t may call BigCrunch on u
  Interactif,   \* gpp was started without a source file
  MaxCommandes  \* bound: "goto" commands typed in interactive mode

ASSUME TachesAssumption ==
  /\ Principal \notin Univers
  /\ Aucun \notin Univers
  /\ IsFiniteSet(Univers)
  /\ Travail \in Nat
  /\ Imprevus \subseteq {"gotoerreur", "parametres", "natif", "module",
                         "operation", "texte"}
  /\ Attentes \subseteq (Univers \cup {Principal}) \X Univers
  /\ Interactif \in BOOLEAN
  /\ MaxCommandes \in Nat

Taches == Univers \cup {Principal}

VARIABLES
  verrou,    \* programme->mutex is locked
  pc,        \* where each thread is
  gest,      \* Appel[0].EnErreur # NULL
  reste,     \* instructions the interpreter may still execute
  varGlob,   \* the shared global variable
  lu,        \* the value an I_INCREMENTER has read and not yet written
  faits,     \* history: increments completed by all tasks
  perdus,    \* history: times a task went on executing without the mutex
  cible,     \* the universe a BigCrunch waits for
  rejoints,  \* universes some pthread_join has returned
  commandes, \* commands started
  procFini   \* the process has exited

vars == <<verrou, pc, gest, reste, varGlob, lu, faits, perdus, cible, rejoints,
          commandes, procFini>>

Etapes == {"absent", "entree", "code", "ligne", "ecrit", "natif", "crunch",
           "joint", "retour", "exception", "signale", "imbrique", "texte",
           "nul", "sortie", "fini"}

\* Where each task is; inside BigCrunch it has a universe to wait for.
PlaceOK ==
  /\ pc \in [Taches -> Etapes]
  /\ cible \in [Taches -> Univers \cup {Aucun}]
  /\ \A t \in Taches : pc[t] \in {"crunch", "joint"} => cible[t] \in Univers

TypeOK ==
  /\ verrou \in BOOLEAN
  /\ PlaceOK
  /\ gest \in [Taches -> BOOLEAN]
  /\ reste \in [Taches -> 0..Travail]
  /\ varGlob \in Nat
  /\ lu \in [Taches -> Nat]
  /\ faits \in Nat
  /\ perdus \in Nat
  /\ rejoints \subseteq Univers
  /\ commandes \in Nat
  /\ procFini \in BOOLEAN

Init ==
  /\ verrou = FALSE
  /\ pc = [t \in Taches |-> IF t = Principal THEN "entree" ELSE "absent"]
  /\ gest = [t \in Taches |-> FALSE]
  /\ reste = [t \in Taches |-> Travail]
  /\ varGlob = 0
  /\ lu = [t \in Taches |-> 0]
  /\ faits = 0
  /\ perdus = 0
  /\ cible = [t \in Taches |-> Aucun]
  /\ rejoints = {}
  /\ commandes = 1
  /\ procFini = FALSE

(***************************************************************************)
(* The mutex.  On the pthread build it is neither recursive nor checked:   *)
(* Prendre waits whoever the holder is, Liberer unlocks whoever calls it.  *)
(***************************************************************************)
Prendre == ~verrou /\ verrou' = TRUE
Liberer == verrou' = FALSE

\* Thread t goes from one place to another.
Aller(t, de, vers) ==
  /\ ~procFini
  /\ pc[t] = de
  /\ pc' = [pc EXCEPT ![t] = vers]

\* An instruction with an effect, taken from the budget of its interpreter.
Instruction(t) ==
  /\ reste[t] > 0
  /\ reste' = [reste EXCEPT ![t] = @ - 1]

donnees == <<varGlob, lu, faits, perdus>>
globales == <<varGlob, lu, faits>>
fils    == <<cible, rejoints, commandes>>

\* CInterpreteur::Exception: to the handler, or Ins.Goto(NULL).  The mutex is
\* left as it is.
Exception(t, de) == Aller(t, de, IF gest[t] THEN "code" ELSE "nul")

-----------------------------------------------------------------------------
(* The loop of Executer. *)

EntrerExecuter(t) ==
  /\ Aller(t, "entree", "code")
  /\ Prendre
  /\ UNCHANGED <<gest, reste, donnees, fils, procFini>>

DebutLigne(t) ==
  /\ Aller(t, "code", "ligne")
  /\ Liberer
  /\ UNCHANGED <<gest, reste, donnees, fils, procFini>>

\* Mutant: I_DEBUTLIGNE forgets to take the mutex back.
RepriseSansPrendre(t) ==
  /\ Aller(t, "ligne", "code")
  /\ UNCHANGED <<verrou, gest, reste, donnees, fils, procFini>>

RepriseLigne(t) ==
  /\ Aller(t, "ligne", "code")
  /\ Prendre
  /\ UNCHANGED <<gest, reste, donnees, fils, procFini>>

\* I_INCREMENTER, *Deref(var.v.p)+=val: the read and the write.
LireVarGlob(t) ==
  /\ Aller(t, "code", "ecrit")
  /\ Instruction(t)
  /\ lu' = [lu EXCEPT ![t] = varGlob]
  /\ UNCHANGED <<verrou, gest, varGlob, faits, perdus, fils, procFini>>

EcrireVarGlob(t) ==
  /\ Aller(t, "ecrit", "code")
  /\ varGlob' = lu[t] + 1
  /\ faits' = faits + 1
  /\ UNCHANGED <<verrou, gest, reste, lu, perdus, fils, procFini>>

\* I_ENERREUR outside any function.
EnErreur(t) ==
  /\ ~procFini
  /\ pc[t] = "code"
  /\ ~gest[t]
  /\ gest' = [gest EXCEPT ![t] = TRUE]
  /\ UNCHANGED <<verrou, pc, reste, donnees, fils, procFini>>

\* Mutant: I_STOP returns without releasing the mutex.
StopSansLiberer(t) ==
  /\ Aller(t, "code", "sortie")
  /\ UNCHANGED <<verrou, gest, reste, donnees, fils, procFini>>

\* I_STOP and I_FINTACHE.
Stop(t) ==
  /\ Aller(t, "code", "sortie")
  /\ Liberer
  /\ UNCHANGED <<gest, reste, donnees, fils, procFini>>

\* Mutant: nothing releases the mutex after the loop.
FinBoucleSansLiberer(t) ==
  /\ Aller(t, "nul", "sortie")
  /\ UNCHANGED <<verrou, gest, reste, donnees, fils, procFini>>

\* while (Ins.i) ends because an exception found no handler.
FinBoucle(t) ==
  /\ Aller(t, "nul", "sortie")
  /\ Liberer
  /\ UNCHANGED <<gest, reste, donnees, fils, procFini>>

\* An instruction throws: Executer is left through ExecuterCatch and the
\* mutex stays locked.
OperationLance(t) ==
  /\ "operation" \in Imprevus
  /\ Aller(t, "code", "sortie")
  /\ UNCHANGED <<verrou, gest, reste, donnees, fils, procFini>>

-----------------------------------------------------------------------------
(* C functions called by I_EXECC and I_EXECVAL. *)

\* biGotoErreur takes the interpreter itself and never releases the mutex.
GotoErreur(t) ==
  /\ "gotoerreur" \in Imprevus
  /\ Exception(t, "code")
  /\ Instruction(t)
  /\ UNCHANGED <<verrou, gest, donnees, fils, procFini>>

\* Lire* or Pile.FinParametres throws before the mutex is released.
ParametresFaux(t) ==
  /\ "parametres" \in Imprevus
  /\ Exception(t, "code")
  /\ Instruction(t)
  /\ UNCHANGED <<verrou, gest, donnees, fils, procFini>>

\* FinParametres: the body of the function runs without the mutex.
AppelNatif(t) ==
  /\ Aller(t, "code", "natif")
  /\ Instruction(t)
  /\ Liberer
  /\ UNCHANGED <<gest, donnees, fils, procFini>>

FinNatif(t) ==
  /\ Aller(t, "natif", "retour")
  /\ UNCHANGED <<verrou, gest, reste, donnees, fils, procFini>>

\* Mutant: a Retourner* that does not take the mutex back.
RetourSansPrendre(t) ==
  /\ Aller(t, "retour", "code")
  /\ cible' = [cible EXCEPT ![t] = Aucun]
  /\ UNCHANGED <<verrou, gest, reste, donnees, rejoints, commandes, procFini>>

\* Retourner*.
RetourNatif(t) ==
  /\ Aller(t, "retour", "code")
  /\ Prendre
  /\ cible' = [cible EXCEPT ![t] = Aucun]
  /\ UNCHANGED <<gest, reste, donnees, rejoints, commandes, procFini>>

\* The body throws: AppelerFonctionC catches, and nobody takes the mutex back.
NatifLance(t) ==
  /\ "natif" \in Imprevus
  /\ Exception(t, "natif")
  /\ perdus' = perdus + 1
  /\ UNCHANGED <<verrou, gest, reste, globales, fils, procFini>>

\* The body calls IInterpreteur::Exception: Prendre, Exception(), Liberer.
NatifSignale(t) ==
  /\ "module" \in Imprevus
  /\ Aller(t, "natif", "exception")
  /\ UNCHANGED <<verrou, gest, reste, donnees, fils, procFini>>

\* Mutant: IInterpreteur::Exception does not wait for the mutex.
ExceptionSansAttendre(t) ==
  /\ Aller(t, "exception", "signale")
  /\ verrou' = TRUE
  /\ UNCHANGED <<gest, reste, donnees, fils, procFini>>

PrendreException(t) ==
  /\ Aller(t, "exception", "signale")
  /\ Prendre
  /\ UNCHANGED <<gest, reste, donnees, fils, procFini>>

LibererException(t) ==
  /\ Exception(t, "signale")
  /\ Liberer
  /\ perdus' = perdus + 1
  /\ UNCHANGED <<gest, reste, globales, fils, procFini>>

\* biGotoDansTexte: a nested Executer, called with the mutex held.
GotoDansTexte(t) ==
  /\ "texte" \in Imprevus
  /\ Aller(t, "code", "imbrique")
  /\ Instruction(t)
  /\ UNCHANGED <<verrou, gest, donnees, fils, procFini>>

EntrerTexte(t) ==
  /\ Aller(t, "imbrique", "texte")
  /\ Prendre
  /\ UNCHANGED <<gest, reste, donnees, fils, procFini>>

\* The compiled text is one line that ends with I_STOP.
FinTexte(t) ==
  /\ Aller(t, "texte", "code")
  /\ Liberer
  /\ perdus' = perdus + 1
  /\ UNCHANGED <<gest, reste, globales, fils, procFini>>

\* An instruction of the text throws: AppelerFonctionC of the outer Executer
\* catches it, with the mutex locked by the inner one.
TexteLance(t) ==
  /\ "operation" \in Imprevus
  /\ Exception(t, "texte")
  /\ UNCHANGED <<verrou, gest, reste, donnees, fils, procFini>>

-----------------------------------------------------------------------------
(* Universes: creation, end and BigCrunch. *)

\* I_GOTOTACHE: the new interpreter has no handler of its own.
NouvelleTache(t, u) ==
  /\ ~procFini
  /\ pc[t] = "code"
  /\ pc[u] = "absent"
  /\ Instruction(t)
  /\ pc' = [pc EXCEPT ![u] = "entree"]
  /\ UNCHANGED <<verrou, gest, donnees, fils, procFini>>

\* ExecuterIntTache returns and the thread ends.  What comes just before, the
\* steps of Tache.Supprimer(T) outside the mutex, is in TachesEtTable.
FinTache(u) ==
  /\ u \in Univers
  /\ Aller(u, "sortie", "fini")
  /\ UNCHANGED <<verrou, gest, reste, donnees, fils, procFini>>

\* Mutant: BigCrunch waits with the mutex.
AppelBigCrunchSansLiberer(t, u) ==
  /\ <<t, u>> \in Attentes
  /\ pc[u] # "absent"
  /\ Aller(t, "code", "crunch")
  /\ Instruction(t)
  /\ cible' = [cible EXCEPT ![t] = u]
  /\ UNCHANGED <<verrou, gest, donnees, rejoints, commandes, procFini>>

AppelBigCrunch(t, u) ==
  /\ <<t, u>> \in Attentes
  /\ pc[u] # "absent"
  /\ Aller(t, "code", "crunch")
  /\ Instruction(t)
  /\ Liberer
  /\ cible' = [cible EXCEPT ![t] = u]
  /\ UNCHANGED <<gest, donnees, rejoints, commandes, procFini>>

\* pthread_join fails at once (its result is ignored): the caller itself, a
\* universe that waits for the caller, one somebody waits for, one already
\* joined (its descriptor is dead: undefined, in practice ESRCH).
JointImpossible(t) ==
  \/ cible[t] = t
  \/ pc[cible[t]] = "joint" /\ cible[cible[t]] = t
  \/ \E w \in Taches : pc[w] = "joint" /\ cible[w] = cible[t]
  \/ cible[t] \in rejoints

BigCrunchEchoue(t) ==
  /\ Aller(t, "crunch", "retour")
  /\ JointImpossible(t)
  /\ UNCHANGED <<verrou, gest, reste, donnees, fils, procFini>>

BigCrunchAttend(t) ==
  /\ Aller(t, "crunch", "joint")
  /\ ~JointImpossible(t)
  /\ UNCHANGED <<verrou, gest, reste, donnees, fils, procFini>>

BigCrunchFini(t) ==
  /\ Aller(t, "joint", "retour")
  /\ pc[cible[t]] = "fini"
  /\ rejoints' = rejoints \cup {cible[t]}
  /\ UNCHANGED <<verrou, gest, reste, donnees, cible, commandes, procFini>>

-----------------------------------------------------------------------------
(* czmain. *)

\* Without -i the process exits when the main interpreter does.
FinProcessus ==
  /\ ~procFini
  /\ pc[Principal] = "sortie"
  /\ procFini' = TRUE
  /\ UNCHANGED <<verrou, pc, gest, reste, donnees, fils>>

\* Interactive mode: a new interpreter for the next "goto" command.
Commande ==
  /\ Interactif
  /\ commandes < MaxCommandes
  /\ Aller(Principal, "sortie", "entree")
  /\ commandes' = commandes + 1
  /\ gest' = [gest EXCEPT ![Principal] = FALSE]
  /\ reste' = [reste EXCEPT ![Principal] = Travail]
  /\ UNCHANGED <<verrou, donnees, cible, rejoints, procFini>>

Termine == procFini /\ UNCHANGED vars

-----------------------------------------------------------------------------

\* The protocol: the steps that need the mutex, and those that only need the
\* processor.
Entrer(t) == EntrerExecuter(t) \/ RepriseLigne(t) \/ RetourNatif(t)

Continuer(t) ==
  \/ DebutLigne(t) \/ LireVarGlob(t) \/ EcrireVarGlob(t) \/ EnErreur(t)
  \/ Stop(t) \/ FinBoucle(t)
  \/ GotoErreur(t) \/ ParametresFaux(t)
  \/ AppelNatif(t) \/ FinNatif(t)
  \/ \E u \in Univers : AppelBigCrunch(t, u)
  \/ BigCrunchEchoue(t) \/ BigCrunchAttend(t) \/ BigCrunchFini(t)

\* These two also change programme->Tache.
Peupler(t) == FinTache(t) \/ \E u \in Univers : NouvelleTache(t, u)

\* With the doors by which a task may leave the protocol.
PrendLeVerrou(t) == Entrer(t) \/ PrendreException(t) \/ EntrerTexte(t)

AvanceSeule(t) ==
  \/ Continuer(t)
  \/ OperationLance(t) \/ NatifLance(t) \/ NatifSignale(t)
  \/ LibererException(t) \/ GotoDansTexte(t) \/ FinTexte(t)
  \/ TexteLance(t)

Avance(t) == AvanceSeule(t) \/ Peupler(t)

Next ==
  \/ \E t \in Taches : PrendLeVerrou(t) \/ Avance(t)
  \/ FinProcessus
  \/ Commande
  \/ Termine

Spec == Init /\ [][Next]_vars

\* The steps of a script that only makes errors of its own: what Next is when
\* Imprevus has no other (ScriptSeul in Taches_proof).
Propres == {"gotoerreur", "parametres"}

NextScript ==
  \/ \E t \in Taches : Entrer(t) \/ Continuer(t) \/ Peupler(t)
  \/ FinProcessus
  \/ Commande
  \/ Termine

(***************************************************************************)
(* A runnable thread eventually runs.  A thread blocked on the mutex gets  *)
(* it if the mutex is free again and again: the mutex makes no promise,    *)
(* but the operating system preempts threads in the window between Liberer *)
(* and Prendre of I_DEBUTLIGNE.  No instruction loops without a line.      *)
(* czmain is runnable too, except when it waits for a command.             *)
(***************************************************************************)
Equite ==
  /\ \A t \in Taches : WF_vars(Avance(t)) /\ SF_vars(PrendLeVerrou(t))
  /\ WF_vars(~Interactif /\ FinProcessus)

SpecEquitable == Spec /\ Equite

SpecScript == Init /\ [][NextScript]_vars /\ Equite

-----------------------------------------------------------------------------
(* Properties. *)

\* Thread t executes virtual code, in which machine.cpp assumes it is alone.
EtapesVM == {"code", "ecrit", "signale", "texte", "nul"}
EnVM(t) == pc[t] \in EtapesVM

Executants == {t \in Taches : EnVM(t)}

\* As long as no error has made a task lose the mutex, two tasks never
\* execute virtual code together: what the Prendre of Executer, of
\* I_DEBUTLIGNE and of Retourner* are for.
AccesExclusif ==
  perdus = 0 => \A t, u \in Taches : EnVM(t) /\ EnVM(u) => t = u

\* Each time a task goes on without the mutex (a C function threw, called
\* Exception, or a nested Executer released it), at most one more task can
\* be executing virtual code at the same time, and for good.
DegatsBornes ==
  Cardinality(Executants) <= perdus + (IF verrou THEN 1 ELSE 0)

\* "Augmente de nombre1 la valeur de la variable": no increment made by one
\* task is lost to an increment made by another.
CompteurJuste == varGlob = faits

\* The mutex is enough for that while no task has lost it.
CompteurExact == perdus = 0 => CompteurJuste

\* The mutex is only locked while some task is at work under it: no task
\* leaves Executer with the mutex in its pocket.
VerrouJamaisPerdu == verrou => \E t \in Taches : EnVM(t)

\* "Une partie du temps sera consacree a la tache existante, et une autre
\* partie a la nouvelle tache": a task that waits for its turn gets it,
\* unless the process exits first.
ChacunSonTour ==
  \A t \in Taches :
    pc[t] \in {"entree", "ligne", "retour"} ~> (pc[t] = "code" \/ procFini)

\* The tasks whose end can end the BigCrunch of t: the universe it waits for
\* and, while that one is itself in a BigCrunch, the one it waits for.
EnAttente == {"crunch", "joint"}
AttendPar(t, u) ==
  \/ cible[t] = u
  \/ cible[t] \in Univers /\ pc[cible[t]] \in EnAttente /\ cible[cible[t]] = u

\* "Attend la fin d'un univers parallele": a BigCrunch lasts for ever only if
\* a universe it depends on never stops executing byte code, whoever waits
\* for whom and whatever holds the mutex meanwhile.
AttenteJustifiee ==
  \A t \in Taches :
    <>[](pc[t] \in EnAttente) =>
      \/ <>procFini
      \/ \E u \in Univers : []<>(AttendPar(t, u) /\ pc[u] = "code")
=============================================================================
