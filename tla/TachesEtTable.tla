---------------------------- MODULE TachesEtTable -----------------------------
(***************************************************************************)
(* Taches with programme->Tache: a creator adds its universe to the table  *)
(* in I_GOTOTACHE, before the thread starts, and the thread of a universe  *)
(* takes it out between the end of Executer and its own end.  The first    *)
(* has the mutex, as long as its task has not lost it; the second has not. *)
(***************************************************************************)
EXTENDS Taches

VARIABLES
  tab, lTab,            \* the members of programme->Tache
  ajoute, etape, luE,   \* Etendre, for each task
  pcTab, pos, luS,      \* Supprimer, for each universe
  melees                \* history: two operations were in progress together

Table == INSTANCE TableTaches WITH
  t <- tab, l <- lTab, pc <- pcTab, Createurs <- Taches, Rien <- Aucun

table == <<tab, lTab, ajoute, etape, luE, pcTab, pos, luS, melees>>
tout == <<vars, table>>

InitTable == Init /\ Table!Init

-----------------------------------------------------------------------------
(* I_GOTOTACHE. *)

\* The instruction begins: the new CTache, and l as Etendre reads it.
CreerLit(t, u) ==
  /\ ~procFini
  /\ pc[t] = "code" /\ reste[t] > 0
  /\ pc[u] = "absent"
  /\ Table!EtendreLit(t, u)
  /\ UNCHANGED vars

CreerEcrit(t) ==
  /\ ~procFini
  /\ Table!EtendreEcrit(t)
  /\ UNCHANGED vars

\* l is written, and the thread starts.
Creer(t) ==
  \E u \in Univers :
    /\ ajoute[t] = u
    /\ Table!EtendrePublie(t)
    /\ NouvelleTache(t, u)

-----------------------------------------------------------------------------
(* ExecuterIntTache, after Executer. *)

Supprimer(u) ==
  /\ ~procFini
  /\ pc[u] = "sortie"
  /\ Table!Chercher(u) \/ Table!Decaler(u) \/ Table!LireL(u) \/ Table!EcrireL(u)
  /\ UNCHANGED vars

Finir(u) ==
  /\ pcTab[u] = "fini"
  /\ FinTache(u)
  /\ UNCHANGED table

-----------------------------------------------------------------------------

\* A task in the middle of I_GOTOTACHE does nothing else.
Ailleurs(t) ==
  /\ etape[t] = "repos"
  /\ PrendLeVerrou(t) \/ AvanceSeule(t)
  /\ UNCHANGED table

NextTable ==
  \/ \E t \in Taches :
       Ailleurs(t) \/ CreerEcrit(t) \/ Creer(t) \/ \E u \in Univers : CreerLit(t, u)
  \/ \E u \in Univers : Supprimer(u) \/ Finir(u)
  \/ (FinProcessus \/ Commande) /\ UNCHANGED table
  \/ procFini /\ UNCHANGED tout

SpecTable == InitTable /\ [][NextTable]_tout

-----------------------------------------------------------------------------
(* Properties. *)

\* Whatever errors the script provokes, the table holds the universes that
\* have not ended, each once, unless two operations on it were in progress
\* together.
TableExacte == Table!TableExacte
=============================================================================
