------------------------------ MODULE Chaussette ------------------------------
(***************************************************************************)
(* A Chaussette, the socket of the module chaussettes.  Vider, LireLigne   *)
(* and Tricoter share a buffer, Tampon, without a mutex: their bodies are  *)
(* C functions, which run while the interpreter's mutex is free, so that   *)
(* two tasks can be in them together.  Remplir sends a string.             *)
(*                                                                         *)
(* What a task does to the memory another one is using is undefined: the   *)
(* process is then stopped (plante) and not followed any further.          *)
(*                                                                         *)
(* The bytes of a connection are numbered from 1 in the order they were    *)
(* sent; a byte is its number, and Fins says which ones are '\n'.  The     *)
(* cells of Tampon nobody wrote to hold 0.  The bytes of the string of     *)
(* Remplir are numbered from 1 too; other numbers are the memory around it.*)
(***************************************************************************)
EXTENDS Integers, SequencesExt

CONSTANTS
  Taches,   \* the tasks of the program
  Paquet,   \* the size a recv asks for (65536 in the code)
  Octets,   \* bound: bytes the peer sends
  Memoire,  \* bound: cells of Tampon
  Longueurs, \* lengths of the strings given to Remplir
  Modulo,   \* 2^w, w the width of size_t
  Pannes,   \* bound: times send fails during a call
  Scripts   \* the uses of a Chaussette that are looked at, records of
            \*   taches    the tasks that use it
            \*   appels    the functions they call
            \*   octets    bound: bytes the peer sends
            \*   lignes    bound: calls of LireLigne on a connection
            \*   connexions  bound: connections made with Tricoter

ASSUME ChaussetteAssumption ==
  /\ IsFiniteSet(Taches)
  /\ Modulo \in Nat \ {0} /\ Longueurs \subseteq 0 .. Modulo - 1 /\ Pannes \in Nat
  /\ Octets \in Nat /\ Paquet \in Nat \ {0} /\ Memoire \in Nat
  /\ Scripts \subseteq
       [taches : SUBSET Taches, octets : 0 .. Octets,
        appels : SUBSET {"Vider", "LireLigne", "Tricoter", "Fermer", "Remplir"},
        lignes : Nat, connexions : Nat \ {0}]

VARIABLES
  script,   \* the use that is made of this Chaussette
  Fins,     \* the bytes of the connection that are '\n'
  envoyes,  \* bytes the peer sends before it closes
  recus,    \* bytes recv has returned
  ouverte,  \* the socket is valid
  alloue,   \* Tampon is not NULL
  Tampon, aTampon, lTampon,
  pc,       \* where each task is
  Fin, p,   \* those of LireLigne: Fin is its position in Tampon, -1 for NULL
  ici,      \* the position recv was given
  ret,      \* the string the call will return
  livres,   \* history: bytes returned to the script on this connection
  melange,  \* history: two tasks have used Tampon at the same time
  plante,   \* the process has crashed, or has used memory it does not own
  connexions,
  lignes,   \* calls of LireLigne
  envoi,    \* the variables of Remplir
  pris      \* history: the bytes the socket has taken from it

vars == <<script, Fins, envoyes, recus, ouverte, alloue, Tampon, aTampon, lTampon, pc, Fin, p,
          ici, ret, livres, melange, plante, connexions, lignes, envoi, pris>>

Cellules == 0 .. Memoire - 1
Suite(i, j) == [k \in 1 .. j - i + 1 |-> i + k - 1]
Contenu(n) == [k \in 1 .. n |-> Tampon[k - 1]]

TypeOK ==
  /\ script \in Scripts
  /\ Fins \subseteq 1 .. Octets
  /\ envoyes \in 0 .. Octets /\ recus \in 0 .. envoyes
  /\ {ouverte, alloue, melange, plante} \subseteq BOOLEAN
  /\ Tampon \in [Cellules -> 0 .. Octets]
  /\ aTampon \in 0 .. Memoire /\ lTampon \in 0 .. aTampon
  /\ pc \in [Taches -> {"libre", "cherche", "lit", "recoit", "prend", "retire", "attend",
                        "rend", "vide", "ailleurs", "remplit"}]
  /\ Fin \in [Taches -> -1 .. Memoire] /\ p \in [Taches -> 0 .. Memoire]
  /\ ici \in [Taches -> 0 .. Memoire]
  /\ ret \in [Taches -> Seq(0 .. Octets)]
  /\ livres \in Seq(0 .. Octets)
  /\ connexions \in 1 .. script.connexions /\ lignes \in 0 .. script.lignes
  /\ envoi \in [longueur : Longueurs \cup {0}, resteAEnvoyer : 0 .. Modulo - 1, c : Int,
               pannes : 0 .. Pannes]
  /\ pris \in Seq(Int)

\* Remplir at its first byte.
Texte(n) == [longueur |-> n, resteAEnvoyer |-> n, c |-> 0, pannes |-> 0]

Init ==
  /\ script \in Scripts
  /\ envoyes \in 0 .. script.octets
  /\ Fins \in SUBSET (1 .. envoyes)
  /\ recus = 0 /\ ouverte = TRUE /\ alloue = FALSE
  /\ Tampon = [i \in Cellules |-> 0] /\ aTampon = 0 /\ lTampon = 0
  /\ pc = [t \in Taches |-> "libre"]
  /\ Fin = [t \in Taches |-> -1]
  /\ p = [t \in Taches |-> 0]
  /\ ici = [t \in Taches |-> 0]
  /\ ret = [t \in Taches |-> <<>>]
  /\ livres = <<>> /\ melange = FALSE /\ plante = FALSE
  /\ connexions = 1 /\ lignes = 0
  /\ envoi = Texte(0) /\ pris = <<>>

Aller(t, de, vers) == pc[t] = de /\ pc' = [pc EXCEPT ![t] = vers]
sortie  == <<envoi, pris>>
liaison == <<script, Fins, envoyes, connexions, sortie>>
tampon  == <<alloue, Tampon, aTampon, lTampon>>
ligne   == <<Fin, p, ici>>

\* The sizes recv may return, none when the peer has closed.
Arrivees == {n \in 1 .. Paquet : recus + n <= envoyes}

Ferme == recus = envoyes

\* The locals of a call that ends.
Oublier(t) ==
  /\ Fin' = [Fin EXCEPT ![t] = -1]
  /\ p' = [p EXCEPT ![t] = 0]
  /\ ici' = [ici EXCEPT ![t] = 0]
  /\ ret' = [ret EXCEPT ![t] = <<>>]

\* The call throws: the socket is invalid, or recv returned nothing.
Lancer(t, de) ==
  /\ Aller(t, de, "libre")
  /\ Oublier(t)
  /\ UNCHANGED <<liaison, lignes, recus, ouverte, tampon, livres, melange, plante>>

\* Where a task uses Tampon.
SurTampon == {"cherche", "lit", "recoit", "prend", "retire", "vide"}

Autres(t) == {w \in Taches : w # t /\ pc[w] \in SurTampon}

\* Task t begins to use Tampon.
Entrer(t) == melange' = (melange \/ Autres(t) # {})

-----------------------------------------------------------------------------
(* LireLigne. *)

AppelerLireLigne(t) ==
  /\ "LireLigne" \in script.appels
  /\ Aller(t, "libre", "cherche")
  /\ lignes < script.lignes /\ lignes' = lignes + 1
  /\ Entrer(t)
  /\ UNCHANGED <<liaison, recus, ouverte, tampon, ligne, ret, livres, plante>>

FinDeLigne(i) == i \in Cellules /\ Tampon[i] \in Fins

\* Mutant: the search looks for the last '\n'.
DernierePosition == Max({0} \cup {i \in 0 .. lTampon - 1 : FinDeLigne(i)})

\* The position where the search stops: the first '\n', or lTampon, whose cell
\* is looked at too.
Position == Min({lTampon} \cup {i \in 0 .. lTampon - 1 : FinDeLigne(i)})

\* An empty buffer is not searched: Fin and p are what they were.  A search that
\* stops at the end of the block reads the byte after it: were that a '\n', the
\* line would be longer than the buffer and RetirerLigne would crash.
Chercher(t) ==
  LET plein == alloue /\ lTampon # 0
      f == IF plein THEN Position ELSE Fin[t]
  IN /\ Fin' = [Fin EXCEPT ![t] = f]
     /\ p' = [p EXCEPT ![t] = IF plein THEN f + (IF FinDeLigne(f) THEN 1 ELSE 0) ELSE @]
     /\ Aller(t, "cherche", IF FinDeLigne(f) THEN "prend" ELSE "lit")
     /\ plante' \in {FALSE, plein /\ f = aTampon}
     /\ UNCHANGED <<liaison, lignes, recus, ouverte, tampon, ici, ret, livres, melange>>

LireFermee(t) == ~ouverte /\ Lancer(t, "lit")

\* There may be no room for another packet.
Agrandir == aTampon - lTampon < Paquet

\* Room is made, by moving the buffer if need be, and recv is called.  When the
\* buffer moves under another task, that task goes on with the old one.
Preparer(t) ==
  /\ ouverte
  /\ Aller(t, "lit", "recoit")
  /\ IF Agrandir
     THEN /\ aTampon + Paquet <= Memoire
          /\ aTampon' = aTampon + Paquet
          /\ alloue' = TRUE
          /\ \E bouge \in {FALSE, Autres(t) # {}} : plante' = bouge
     ELSE UNCHANGED <<aTampon, alloue, plante>>
  /\ ici' = [ici EXCEPT ![t] = lTampon]
  /\ UNCHANGED <<liaison, lignes, recus, ouverte, Tampon, lTampon, Fin, p, ret, livres, melange>>

\* Mutant: the length is that of the last packet.
LongueurPaquet(n) == n

LongueurApres(n) == lTampon + n

\* recv writes where it was told, and fails without harm if Tampon is NULL
\* (Tricoter leaves aTampon as it was).
Recevoir(t) ==
  /\ Aller(t, "recoit", "cherche")
  /\ alloue
  /\ \E n \in Arrivees :
       /\ Tampon' = [i \in Cellules |-> IF i \in ici[t] .. ici[t] + n - 1
                                       THEN recus + 1 + i - ici[t] ELSE Tampon[i]]
       /\ IF LongueurApres(n) <= aTampon
          THEN lTampon' = LongueurApres(n) /\ UNCHANGED plante
          ELSE plante' = TRUE /\ UNCHANGED lTampon
       /\ recus' = recus + n
  /\ UNCHANGED <<liaison, lignes, ouverte, alloue, aTampon, ligne, ret, livres, melange>>

RecevoirEchoue(t) == (~ouverte \/ Ferme \/ ~alloue) /\ Lancer(t, "recoit")

\* The p first cells.
CopierLigne(t) ==
  /\ Aller(t, "prend", "retire")
  /\ ret' = [ret EXCEPT ![t] = Contenu(p[t])]
  /\ UNCHANGED <<liaison, lignes, recus, ouverte, tampon, ligne, livres, melange, plante>>

\* lTampon-=p, and the memmove of lTampon bytes, of a huge number of them if
\* lTampon became negative.
RetirerLigne(t) ==
  /\ Aller(t, "retire", "libre")
  /\ IF p[t] <= lTampon
     THEN /\ lTampon' = lTampon - p[t]
          /\ Tampon' = [i \in Cellules |-> IF i < lTampon - p[t] THEN Tampon[i + p[t]]
                                           ELSE Tampon[i]]
          /\ livres' = livres \o ret[t]
          /\ UNCHANGED plante
     ELSE plante' = TRUE /\ UNCHANGED <<lTampon, Tampon, livres>>
  /\ Oublier(t)
  /\ UNCHANGED <<liaison, lignes, recus, ouverte, alloue, aTampon, melange>>

-----------------------------------------------------------------------------
(* Vider, Fermer and Tricoter. *)

\* What LireLigne left, or what the next recv brings.
AppelerVider(t) ==
  /\ "Vider" \in script.appels
  /\ IF lTampon # 0
     THEN /\ Aller(t, "libre", "vide")
          /\ ret' = [ret EXCEPT ![t] = Contenu(lTampon)]
          /\ Entrer(t)
     ELSE ouverte /\ Aller(t, "libre", "attend") /\ UNCHANGED <<ret, melange>>
  /\ UNCHANGED <<liaison, lignes, recus, ouverte, tampon, ligne, livres, plante>>

\* Mutant: the buffer is not emptied.
GarderTampon == lTampon

ApresVider == 0

ViderTampon(t) ==
  /\ Aller(t, "vide", "libre")
  /\ lTampon' = ApresVider
  /\ livres' = livres \o ret[t]
  /\ Oublier(t)
  /\ UNCHANGED <<liaison, lignes, recus, ouverte, alloue, Tampon, aTampon, melange, plante>>

\* recv to a buffer of the call's own, which nobody else can touch.
ViderSocket(t) ==
  /\ Aller(t, "attend", "rend")
  /\ \E n \in Arrivees : recus' = recus + n /\ ret' = [ret EXCEPT ![t] = Suite(recus + 1, recus + n)]
  /\ UNCHANGED <<liaison, lignes, ouverte, tampon, ligne, livres, melange, plante>>

RendreSocket(t) ==
  /\ Aller(t, "rend", "libre")
  /\ livres' = livres \o ret[t]
  /\ Oublier(t)
  /\ UNCHANGED <<liaison, lignes, recus, ouverte, tampon, melange, plante>>

ViderEchoue(t) == (~ouverte \/ Ferme) /\ Lancer(t, "attend")

\* A Vider of a former connection returns what it got there, or throws.
ViderAilleurs(t) == Lancer(t, "ailleurs")

\* A recv that has begun goes on, or fails.
Fermer(t) ==
  /\ "Fermer" \in script.appels
  /\ pc[t] = "libre"
  /\ ouverte
  /\ ouverte' = FALSE
  /\ UNCHANGED <<liaison, lignes, recus, tampon, pc, ligne, ret, livres, melange, plante>>

\* The new socket takes the place of the old one and the buffer is given back,
\* whoever uses it.  aTampon keeps its value.  (free(Tampon) on memory of the
\* collector is undefined too: here the program may survive it.  A connection
\* that fails throws before anything has changed.)
Tricoter(t) ==
  /\ "Tricoter" \in script.appels
  /\ pc[t] = "libre"
  /\ connexions < script.connexions
  /\ connexions' = connexions + 1 /\ lignes' = 0
  /\ envoyes' \in 0 .. script.octets
  /\ Fins' \in SUBSET (1 .. envoyes')
  /\ recus' = 0 /\ ouverte' = TRUE
  /\ alloue' = FALSE /\ lTampon' = 0
  /\ Tampon' = [i \in Cellules |-> 0]
  /\ livres' = <<>>
  /\ pc' = [w \in Taches |-> IF pc[w] \in {"attend", "rend"} THEN "ailleurs" ELSE pc[w]]
  /\ Entrer(t)
  /\ plante' \in {Autres(t) # {}, alloue}
  /\ UNCHANGED <<script, aTampon, ligne, ret, sortie>>

-----------------------------------------------------------------------------
(* Remplir, one call at a time. *)

reception == <<script, Fins, envoyes, connexions, lignes, recus, ouverte, tampon, ligne, ret,
               livres, melange, plante>>

AppelerRemplir(t) ==
  /\ "Remplir" \in script.appels
  /\ ouverte
  /\ \A w \in Taches : pc[w] # "remplit"
  /\ Aller(t, "libre", "remplit")
  /\ \E n \in Longueurs : envoi' = Texte(n)
  /\ pris' = <<>>
  /\ UNCHANGED reception

envoyer == Min({envoi.resteAEnvoyer, Paquet})

\* Mutant: the whole packet is believed sent.
ToutEnvoye(envoye) == envoi.resteAEnvoyer - envoyer

\* resteAEnvoyer-=envoye, on a size_t.
ResteApres(envoye) == (envoi.resteAEnvoyer - envoye) % Modulo

\* Mutant: c advances by whole packets.
PaquetSuivant(envoye) == envoi.c + envoyer

CurseurApres(envoye) == envoi.c + envoye

\* send returned envoye and the loop goes on from there.
Avancer(envoye, pannes) ==
  envoi' = [envoi EXCEPT !.resteAEnvoyer = ResteApres(envoye), !.c = CurseurApres(envoye),
                         !.pannes = pannes]

\* send takes a part of the packet.
Envoyer(t) ==
  /\ pc[t] = "remplit"
  /\ ouverte
  /\ \E envoye \in 1 .. envoyer :
       /\ Avancer(envoye, envoi.pannes)
       /\ pris' = pris \o [k \in 1 .. envoye |-> envoi.c + k]
  /\ UNCHANGED <<reception, pc>>

\* send returns -1, because the connection is broken, or because the socket was
\* closed meanwhile.  envoye is unsigned, so that the test <= 0 is false and
\* nothing is thrown: the loop goes on with one more byte to send.
EnvoiEchoue(t) ==
  /\ pc[t] = "remplit"
  /\ envoi.resteAEnvoyer # 0
  /\ envoi.pannes < Pannes
  /\ Avancer(-1, envoi.pannes + 1)
  /\ UNCHANGED <<reception, pc, pris>>

FinRemplir(t) ==
  /\ Aller(t, "remplit", "libre")
  /\ envoi.resteAEnvoyer = 0
  /\ UNCHANGED <<reception, sortie>>

Next ==
  /\ ~plante
  /\ \E t \in script.taches :
       \/ AppelerLireLigne(t) \/ Chercher(t) \/ LireFermee(t) \/ Preparer(t)
       \/ Recevoir(t) \/ RecevoirEchoue(t) \/ CopierLigne(t) \/ RetirerLigne(t)
       \/ AppelerVider(t) \/ ViderTampon(t)
       \/ ViderSocket(t) \/ RendreSocket(t) \/ ViderEchoue(t) \/ ViderAilleurs(t)
       \/ Fermer(t) \/ Tricoter(t)
       \/ AppelerRemplir(t) \/ Envoyer(t) \/ EnvoiEchoue(t) \/ FinRemplir(t)

Spec == Init /\ [][Next]_vars

-----------------------------------------------------------------------------
(* Properties. *)

\* No task has taken bytes it has not yet given to the script.
AuRepos ==
  ~plante /\ \A t \in Taches :
    pc[t] \in {"libre", "cherche", "lit", "recoit", "attend", "ailleurs", "remplit"}

\* Every byte that arrived is either in Tampon or was returned to the script,
\* once, in the order it was sent, whatever mixture of Vider, LireLigne and
\* Tricoter a script with one task uses.
Flux ==
  Cardinality(script.taches) = 1 /\ AuRepos => livres \o Contenu(lTampon) = Suite(1, recus)

\* With several tasks too each byte that arrived is in Tampon or was returned,
\* once, as long as they do not use Tampon at the same time: a Vider that waits
\* on the socket has its own buffer and disturbs nobody.
ChacunUneFois ==
  ~melange /\ AuRepos =>
    /\ ToSet(livres \o Contenu(lTampon)) = 1 .. recus
    /\ Len(livres) + lTampon = recus

\* "On verifie si il y a une ligne complete": all the bytes of the line that
\* LireLigne returns are bytes recv has put in Tampon.
LigneRecue == \A t \in Taches : pc[t] = "retire" => p[t] <= lTampon

\* LireLigne returns one line: its only '\n' is its last byte.
UneLigne ==
  ~melange => \A t \in Taches : pc[t] = "retire" =>
    {i \in DOMAIN ret[t] : ret[t][i] \in Fins} = {Len(ret[t])}

\* The cursor and the count of Remplir never diverge, whatever send returns:
\* the loop stops at the end of the string and nowhere else.
ArretALaFin == (envoi.c + envoi.resteAEnvoyer) % Modulo = envoi.longueur

\* "Le cadeau a mettre dans la chaussette": while send does not fail, what the
\* socket takes is the string, each byte once, from the first one on.
CadeauEntier ==
  envoi.pannes = 0 =>
    /\ \A k \in DOMAIN pris : pris[k] = k
    /\ envoi.resteAEnvoyer = 0 => Len(pris) = envoi.longueur
=============================================================================
