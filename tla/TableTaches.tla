----------------------------- MODULE TableTaches ------------------------------
(***************************************************************************)
(* programme->Tache, the table of the running universes, at the level of   *)
(* the reads and writes of its members t and l.  I_GOTOTACHE calls Etendre *)
(* with the mutex; the thread of a universe calls Supprimer when Executer  *)
(* has returned, without it.  This module lets all of them go on together; *)
(* TachesEtTable puts the table in the program that uses it.               *)
(***************************************************************************)
EXTENDS Naturals, FiniteSets

CONSTANTS
  Univers,
  Createurs,  \* the tasks that may create universes
  Rien        \* no element, no position

\* What the constants have to be.
Hypotheses == Rien \notin Univers /\ IsFiniteSet(Univers)

VARIABLES
  t, l,    \* the members of Tableau<CTache*>
  ajoute,  \* the universe each creator's Etendre is adding, or Rien
  etape,   \* where that Etendre is
  luE,     \* the l it has read
  pc,      \* where the thread of each universe is
  pos,     \* what Chercher returned
  luS,     \* the l that l-- has read in Supprimer; these go back to 0 after use
  melees   \* history: two of these operations have been in progress together

vars == <<t, l, ajoute, etape, luE, pc, pos, luS, melees>>

\* The allocated cells.  Supprimer looks at two more than there are elements.
Cellules == 0 .. Cardinality(Univers) + 2

TypeOK ==
  /\ t \in [Cellules -> Univers \cup {Rien}]
  /\ l \in Cellules
  /\ ajoute \in [Createurs -> Univers \cup {Rien}]
  /\ etape \in [Createurs -> {"repos", "lu", "ecrit"}]
  /\ luE \in [Createurs -> Cellules]
  /\ pc \in [Univers -> {"absent", "vit", "trouve", "decale", "lu", "fini", "assert"}]
  /\ pos \in [Univers -> Cellules]
  /\ luS \in [Univers -> Cellules]
  /\ melees \in BOOLEAN

EnSuppression == {"trouve", "decale", "lu"}

Init ==
  /\ t = [i \in Cellules |-> Rien] /\ l = 0
  /\ ajoute = [c \in Createurs |-> Rien]
  /\ etape = [c \in Createurs |-> "repos"]
  /\ luE = [c \in Createurs |-> 0]
  /\ pc = [u \in Univers |-> "absent"]
  /\ pos = [u \in Univers |-> 0]
  /\ luS = [u \in Univers |-> 0]
  /\ melees = FALSE

\* Nobody is in Etendre nor in Supprimer.
Libre ==
  /\ \A c \in Createurs : etape[c] = "repos"
  /\ \A u \in Univers : pc[u] \notin EnSuppression

\* An operation begins.
Commencer == melees' = (melees \/ ~Libre)

fils == <<pc, pos, luS>>
creation == <<ajoute, etape, luE>>

-----------------------------------------------------------------------------
(* t[l++]=nouveau, then pthread_create. *)

EtendreLit(c, u) ==
  /\ etape[c] = "repos"
  /\ pc[u] = "absent"
  /\ \A d \in Createurs : ajoute[d] # u
  /\ ajoute' = [ajoute EXCEPT ![c] = u]
  /\ etape' = [etape EXCEPT ![c] = "lu"]
  /\ luE' = [luE EXCEPT ![c] = l]
  /\ Commencer
  /\ UNCHANGED <<t, l, fils>>

EtendreEcrit(c) ==
  /\ etape[c] = "lu"
  /\ t' = [t EXCEPT ![luE[c]] = ajoute[c]]
  /\ etape' = [etape EXCEPT ![c] = "ecrit"]
  /\ UNCHANGED <<l, ajoute, luE, fils, melees>>

EtendrePublie(c) ==
  /\ etape[c] = "ecrit"
  /\ l' = luE[c] + 1
  /\ etape' = [etape EXCEPT ![c] = "repos"]
  /\ ajoute' = [ajoute EXCEPT ![c] = Rien]
  /\ luE' = [luE EXCEPT ![c] = 0]
  /\ pc' = [pc EXCEPT ![ajoute[c]] = "vit"]
  /\ UNCHANGED <<t, pos, luS, melees>>

-----------------------------------------------------------------------------
(* Tache.Supprimer(T), in the thread of the universe. *)

Positions(u) == {i \in Cellules : i < l /\ t[i] = u}

\* Chercher, and the ASSERT on its result.
Chercher(u) ==
  /\ pc[u] = "vit"
  /\ IF Positions(u) = {}
     THEN pc' = [pc EXCEPT ![u] = "assert"] /\ UNCHANGED pos
     ELSE /\ pc' = [pc EXCEPT ![u] = "trouve"]
          /\ pos' = [pos EXCEPT ![u] = CHOOSE i \in Positions(u) :
                                         \A j \in Positions(u) : i <= j]
  /\ Commencer
  /\ UNCHANGED <<t, l, creation, luS>>

\* Mutant: the memmove starts one element too far.
SansPremier(p) == [i \in Cellules |-> IF p < i /\ i <= l THEN t[i + 1] ELSE t[i]]

\* memmove(position,position+1,sizeof(T)*(Fin()-position+1)).
Tasser(p) == [i \in Cellules |-> IF p <= i /\ i <= l THEN t[i + 1] ELSE t[i]]

\* The memmove, if the element is not the last; nothing at all if the table has
\* become shorter than the position.
Decaler(u) ==
  /\ pc[u] = "trouve"
  /\ IF pos[u] < l
     THEN /\ pc' = [pc EXCEPT ![u] = "decale"]
          /\ t' = IF pos[u] < l - 1 THEN Tasser(pos[u]) ELSE t
     ELSE pc' = [pc EXCEPT ![u] = "fini"] /\ UNCHANGED t
  /\ pos' = [pos EXCEPT ![u] = 0]
  /\ UNCHANGED <<l, creation, luS, melees>>

LireL(u) ==
  /\ pc[u] = "decale"
  /\ pc' = [pc EXCEPT ![u] = "lu"]
  /\ luS' = [luS EXCEPT ![u] = l]
  /\ UNCHANGED <<t, l, creation, pos, melees>>

EcrireL(u) ==
  /\ pc[u] = "lu"
  /\ pc' = [pc EXCEPT ![u] = "fini"]
  /\ l' = luS[u] - 1
  /\ luS' = [luS EXCEPT ![u] = 0]
  /\ UNCHANGED <<t, creation, pos, melees>>

\* The script creates no more universes and the existing ones have ended.
Termine ==
  /\ \A c \in Createurs : etape[c] = "repos"
  /\ \A u \in Univers : pc[u] \in {"absent", "fini", "assert"}
  /\ UNCHANGED vars

Next ==
  \/ \E c \in Createurs :
       EtendreEcrit(c) \/ EtendrePublie(c) \/ \E u \in Univers : EtendreLit(c, u)
  \/ \E u \in Univers : Chercher(u) \/ Decaler(u) \/ LireL(u) \/ EcrireL(u)
  \/ Termine

Spec == Init /\ [][Next]_vars

-----------------------------------------------------------------------------
(* Properties. *)

\* As long as no two operations have been in progress together, whenever none
\* is the table holds the running universes, each once, and nothing else.
TableExacte ==
  ~melees /\ Libre =>
    /\ {t[i] : i \in {j \in Cellules : j < l}} = {u \in Univers : pc[u] = "vit"}
    /\ l = Cardinality({u \in Univers : pc[u] = "vit"})

\* ASSERT(position): a universe that ends finds itself in the table.
AssertPosition == \A u \in Univers : pc[u] # "assert"
=============================================================================
