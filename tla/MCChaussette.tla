----------------------------- MODULE MCChaussette -----------------------------
(* Small instances of Chaussette.                                            *)
EXTENDS Chaussette

CONSTANTS t1, t2

\* One task that reads lines and the rest, over two connections.
Seule ==
  [taches |-> {t1}, appels |-> {"Vider", "LireLigne", "Fermer", "Tricoter"}, octets |-> 4,
   lignes |-> 4, connexions |-> 2]

\* Two tasks that read lines and the rest and make a second connection.
DeuxLisent ==
  [taches |-> {t1, t2}, appels |-> {"Vider", "LireLigne", "Tricoter"}, octets |-> 3,
   lignes |-> 2, connexions |-> 2]

\* One task fills it while the other empties it and closes it.
RemplirEtVider ==
  [taches |-> {t1, t2}, appels |-> {"Remplir", "Vider", "Fermer"}, octets |-> 1,
   lignes |-> 0, connexions |-> 1]

Usages == {Seule, DeuxLisent, RemplirEtVider}

DeZeroASept == 0 .. 7

\* One task that reads three lines.
TroisLignes ==
  {[taches |-> {t1}, appels |-> {"LireLigne"}, octets |-> 5, lignes |-> 3, connexions |-> 1]}
=============================================================================
