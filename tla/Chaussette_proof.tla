--------------------------- MODULE Chaussette_proof ---------------------------
(***************************************************************************)
(* First the arithmetic of Remplir, for every width of size_t, every       *)
(* string and every way send cuts it up.  c and resteAEnvoyer move in      *)
(* opposite ways; the subtraction wraps around when a failure of send      *)
(* makes it, and the sum stays the length modulo the width.                *)
(*                                                                         *)
(* Then the types of the reception, and where the bytes are.  For one task *)
(* they make the stream, cut between what was returned, what the call      *)
(* holds and what the buffer holds (Suivi); for several tasks each byte is *)
(* in one place, once, as long as two of them have not used the buffer at  *)
(* the same time (Reparties).                                              *)
(***************************************************************************)
EXTENDS Chaussette, SequenceTheorems, FiniteSetTheorems, WellFoundedInduction, TLAPS

-----------------------------------------------------------------------------
(* The proofs use the least number of a set, or the greatest, in the place   *)
(* of induction: of those for which a statement would fail.                  *)

\* A set of natural numbers has a least element: the initial segments are
\* well-ordered by inclusion.
LEMMA PlusPetit ==
  ASSUME NEW S \in SUBSET Nat, S # {}
  PROVE  \E x \in S : \A y \in S : x <= y
<1>. DEFINE T == {0 .. x : x \in S}
<1>1. T \subseteq FiniteSubsetsOf(Nat) /\ T # {}
  <2>1. \A x \in S : IsFiniteSet(0 .. x) /\ 0 .. x \in SUBSET Nat
    BY FS_Interval
  <2>. QED BY <2>1 DEF FiniteSubsetsOf
<1>2. PICK t \in T : \A u \in T : ~ (<<u, t>> \in StrictSubsetOrdering(Nat))
  <2>. HIDE DEF T
  <2>. QED BY <1>1, FS_StrictSubsetOrderingWellFounded, WFMin
<1>3. PICK x \in S : t = 0 .. x
  OBVIOUS
<1>4. ASSUME NEW y \in S, y < x PROVE FALSE
  <2>1. 0 .. y \in T /\ 0 .. y \in SUBSET Nat /\ t \in SUBSET Nat
    BY <1>3
  <2>2. 0 .. y \subseteq t /\ x \in t /\ x \notin 0 .. y
    BY <1>3, <1>4
  <2>. QED BY <1>2, <2>1, <2>2 DEF StrictSubsetOrdering
<1>. QED BY <1>4

\* The remainder and the quotient of a division.
LEMMA Division ==
  \A m, x \in Int : m > 0 =>
    /\ x % m \in 0 .. m - 1
    /\ x \div m \in Int
    /\ x = m * (x \div m) + (x % m)
<1>1. \A m, x \in Int : m > 0 => x % m \in 0 .. m - 1 /\ x \div m \in Int
  BY SMT
<1>2. \A m, x \in Int : m > 0 => x = m * (x \div m) + (x % m)
  BY SMT
<1>3. QED
  BY <1>1, <1>2

\* There is only one.
LEMMA UnSeulReste ==
  \A m, q, r, q2, r2 \in Int :
    0 <= r /\ r < m /\ 0 <= r2 /\ r2 < m /\ m * q + r = m * q2 + r2 => r = r2
  BY SMT

\* The quotients add up.
LEMMA Regrouper ==
  \A m, a, c, q, r, x, y, s \in Int :
    s = m * a + c /\ x = m * q + r /\ s = y + r => y + x = m * (a + q) + c
  BY SMT

\* What is added to a remainder may as well be added to the number.
LEMMA ResteDeSomme ==
  \A m, x, y, r \in Int : m > 0 /\ r = x % m => (y + r) % m = (y + x) % m
<1> SUFFICES ASSUME NEW m \in Int, m > 0, NEW x \in Int, NEW y \in Int, NEW r \in Int, r = x % m
             PROVE  (y + r) % m = (y + x) % m
  BY ZenonT(40)
<1>1. PICK q \in Int : q = x \div m
  BY Division
<1>2. x = m * q + r
  BY <1>1, Division
<1>3. PICK a, c \in Int : a = (y + r) \div m /\ c = (y + r) % m
  BY <1>1, Division
<1>4. PICK b, d \in Int : b = (y + x) \div m /\ d = (y + x) % m
  BY Division
<1>5. y + r = m * a + c /\ 0 <= c /\ c < m
  BY <1>1, <1>3, Division
<1>6. y + x = m * b + d /\ 0 <= d /\ d < m
  BY <1>4, Division
<1>7. PICK s \in Int : s = y + r
  BY <1>1
<1>8. y + x = m * (a + q) + c
  BY <1>1, <1>2, <1>3, <1>5, <1>7, Regrouper
<1>9. PICK e \in Int : e = a + q
  BY <1>1, <1>3
<1>10. m * e + c = m * b + d
  BY <1>6, <1>8, <1>9
<1>11. c = d
  <2>1. m \in Int /\ e \in Int /\ c \in Int /\ b \in Int /\ d \in Int
    BY <1>3, <1>4, <1>9, Zenon
  <2>2. QED
    BY <1>5, <1>6, <1>10, <2>1, UnSeulReste, Zenon
<1>12. QED
  BY <1>1, <1>3, <1>4, <1>11

\* A number smaller than the width does not wrap.
LEMMA SansDebordement ==
  \A m, x \in Int : 0 <= x /\ x < m => x % m = x
<1>1. \A m, x \in Int : 0 <= x /\ x < m => x = m * (x \div m) + (x % m) /\ x = m * 0 + x
  BY Division
<1>2. \A m, x \in Int : 0 <= x /\ x < m => x % m \in 0 .. m - 1 /\ x \div m \in Int
  BY Division
<1>3. QED
  BY <1>1, <1>2, UnSeulReste

-----------------------------------------------------------------------------
(* The variables of Remplir. *)

Formes ==
  envoi \in [longueur : 0 .. Modulo - 1, resteAEnvoyer : 0 .. Modulo - 1, c : Int,
             pannes : Nat]

\* While send has not failed: what is sent and what is left make the string,
\* and the socket has taken what is sent, each byte once.
Partage ==
  envoi.pannes = 0 =>
    /\ envoi.c + envoi.resteAEnvoyer = envoi.longueur
    /\ pris \in Seq(Int) /\ Len(pris) = envoi.c
    /\ \A k \in DOMAIN pris : pris[k] = k

IInv == Formes /\ ArretALaFin /\ Partage

\* The width of size_t is a number and 0 is below it.
LEMMA Largeur == Modulo \in Nat \ {0} /\ Modulo \in Int /\ Modulo > 0 /\ 0 \in 0 .. Modulo - 1
  BY ChaussetteAssumption

\* Remplir at its first byte.
LEMMA Commence ==
  ASSUME NEW n \in 0 .. Modulo - 1, envoi' = Texte(n), pris' = <<>>
  PROVE  IInv'
<1>1. /\ envoi' = [longueur |-> n, resteAEnvoyer |-> n, c |-> 0, pannes |-> 0]
      /\ n \in Nat /\ n < Modulo
  BY Largeur DEF Texte
<1>2. Formes'
  BY <1>1 DEF Formes
<1>3. ArretALaFin'
  <2>1. (0 + n) % Modulo = n
    BY <1>1, Largeur, SansDebordement
  <2>2. QED
    BY <1>1, <2>1 DEF ArretALaFin
<1>4. Partage'
  <2>1. pris' \in Seq(Int) /\ Len(pris') = 0 /\ DOMAIN pris' = {}
    OBVIOUS
  <2>2. QED
    BY <1>1, <2>1 DEF Partage
<1>5. QED
  BY <1>2, <1>3, <1>4 DEF IInv

\* One turn of the loop, whatever send returned.
LEMMA UnTour ==
  ASSUME IInv, NEW e \in Int, NEW pannes \in Nat, Avancer(e, pannes)
  PROVE  Formes' /\ ArretALaFin'
<1>1. PICK c, r, n \in Int :
        /\ c = envoi.c /\ r = envoi.resteAEnvoyer /\ n = envoi.longueur
  BY DEF IInv, Formes
<1>2. PICK x, y \in Int : x = r - e /\ y = c + e
  BY <1>1
<1>3. PICK w \in 0 .. Modulo - 1 : w = x % Modulo
  BY <1>2, Largeur, Division
<1>4. /\ envoi'.longueur = n /\ envoi'.resteAEnvoyer = w
      /\ envoi'.c = y /\ envoi'.pannes = pannes
      /\ envoi' = [envoi EXCEPT !.resteAEnvoyer = w, !.c = y, !.pannes = pannes]
  BY <1>1, <1>2, <1>3 DEF Avancer, ResteApres, CurseurApres, IInv, Formes
<1>5. Formes'
  BY <1>2, <1>3, <1>4 DEF IInv, Formes
<1>6. (y + w) % Modulo = (y + x) % Modulo
  <2>1. w \in Int /\ x \in Int /\ y \in Int
    BY <1>2, <1>3, Largeur
  <2>2. w = x % Modulo /\ Modulo \in Int /\ Modulo > 0
    BY <1>3, Largeur
  <2>3. QED
    BY <2>1, <2>2, ResteDeSomme
<1>7. y + x = c + r
  BY <1>1, <1>2
<1>8. (c + r) % Modulo = n
  BY <1>1 DEF IInv, ArretALaFin
<1>9. ArretALaFin'
  BY <1>4, <1>6, <1>7, <1>8 DEF ArretALaFin
<1>10. QED
  BY <1>5, <1>9

\* send takes some bytes: the cursor and the rest move together.
LEMMA PasEnvoyer ==
  ASSUME IInv, NEW t, Envoyer(t)
  PROVE  IInv'
<1>1. PICK e \in 1 .. envoyer :
        /\ Avancer(e, envoi.pannes)
        /\ pris' = pris \o [k \in 1 .. e |-> envoi.c + k]
  BY DEF Envoyer
<1>2. envoi.resteAEnvoyer \in Nat /\ Paquet \in Nat \ {0}
  BY ChaussetteAssumption DEF IInv, Formes
<1>3. envoyer \in Nat /\ envoyer <= envoi.resteAEnvoyer
  <2> DEFINE S == {envoi.resteAEnvoyer, Paquet}
  <2>1. \E x \in S : \A y \in S : x <= y
    BY <1>2
  <2>2. Min(S) \in S /\ \A y \in S : Min(S) <= y
    BY <2>1 DEF Min
  <2>3. QED
    BY <1>2, <2>2 DEF envoyer
<1>4. e \in Int /\ 1 <= e /\ e <= envoi.resteAEnvoyer
  BY <1>2, <1>3
<1>5. Formes' /\ ArretALaFin'
  BY <1>1, <1>4, UnTour DEF IInv, Formes
<1>6. Partage'
  <2> SUFFICES ASSUME envoi'.pannes = 0 PROVE Partage'
    BY DEF Partage
  <2>1. /\ envoi'.longueur = envoi.longueur
        /\ envoi'.resteAEnvoyer = (envoi.resteAEnvoyer - e) % Modulo
        /\ envoi'.c = envoi.c + e
        /\ envoi.pannes = 0
    BY <1>1 DEF Avancer, ResteApres, CurseurApres, IInv, Formes
  <2>2. /\ envoi.resteAEnvoyer - e \in Int
        /\ 0 <= envoi.resteAEnvoyer - e /\ envoi.resteAEnvoyer - e < Modulo
    BY <1>4, Largeur DEF IInv, Formes
  <2>3. envoi'.resteAEnvoyer = envoi.resteAEnvoyer - e
    BY <2>1, <2>2, Largeur, SansDebordement
  <2>4. envoi'.c + envoi'.resteAEnvoyer = envoi'.longueur
    BY <1>4, <2>1, <2>3 DEF IInv, Partage, Formes
  <2>5. /\ pris \in Seq(Int) /\ Len(pris) = envoi.c /\ envoi.c \in Nat
        /\ \A k \in 1 .. Len(pris) : pris[k] = k
    BY <2>1 DEF IInv, Partage
  <2> DEFINE suite == [k \in 1 .. e |-> envoi.c + k]
  <2>6. suite \in Seq(Int) /\ Len(suite) = e /\ \A k \in 1 .. e : suite[k] = envoi.c + k
    BY <1>4, <2>5
  <2> HIDE DEF suite
  <2>7. /\ pris' \in Seq(Int) /\ Len(pris') = envoi.c + e
        /\ \A k \in 1 .. Len(pris) + Len(suite) :
             pris'[k] = IF k <= Len(pris) THEN pris[k] ELSE suite[k - Len(pris)]
    <3>1. pris' = pris \o suite
      BY <1>1 DEF suite
    <3>2. /\ pris \o suite \in Seq(Int)
          /\ Len(pris \o suite) = Len(pris) + Len(suite)
          /\ \A k \in 1 .. Len(pris) + Len(suite) :
               (pris \o suite)[k] = IF k <= Len(pris) THEN pris[k] ELSE suite[k - Len(pris)]
      BY <2>5, <2>6, ConcatProperties, Zenon
    <3>3. QED
      BY <2>5, <2>6, <3>1, <3>2, Zenon
  <2>8. \A k \in 1 .. Len(pris') : pris'[k] = k
    <3> SUFFICES ASSUME NEW k \in 1 .. envoi.c + e PROVE pris'[k] = k
      BY <2>7
    <3>1. pris'[k] = IF k <= envoi.c THEN pris[k] ELSE suite[k - envoi.c]
      BY <2>5, <2>6, <2>7
    <3>2. CASE k <= envoi.c
      BY <1>4, <2>5, <3>1, <3>2
    <3>3. CASE k > envoi.c
      <4>1. k - envoi.c \in 1 .. e /\ ~(k <= envoi.c)
        BY <1>4, <2>5, <3>3
      <4>2. pris'[k] = envoi.c + (k - envoi.c)
        BY <2>6, <3>1, <4>1
      <4>3. QED
        BY <2>5, <4>2
    <3>4. QED
      BY <1>4, <2>5, <3>2, <3>3
  <2>9. QED
    BY <2>1, <2>4, <2>7, <2>8 DEF Partage
<1>7. QED
  BY <1>5, <1>6 DEF IInv

\* send fails: the cursor goes back and the rest grows, modulo the width.
LEMMA PasEnvoiEchoue ==
  ASSUME IInv, NEW t, EnvoiEchoue(t)
  PROVE  IInv'
<1>1. Avancer(-1, envoi.pannes + 1) /\ envoi.pannes + 1 \in Nat
  BY DEF EnvoiEchoue, IInv, Formes
<1>2. Formes' /\ ArretALaFin'
  BY <1>1, UnTour
<1>3. envoi'.pannes # 0
  BY <1>1 DEF Avancer, IInv, Formes
<1>4. QED
  BY <1>2, <1>3 DEF IInv, Partage

\* The inductive invariant: forms, the sum of cursor and rest, what the socket took.
THEOREM Invariant == Spec => []IInv
<1>1. Init => IInv
  <2> SUFFICES ASSUME Init PROVE IInv
    OBVIOUS
  <2>1. /\ envoi = [longueur |-> 0, resteAEnvoyer |-> 0, c |-> 0, pannes |-> 0]
        /\ pris = <<>>
    BY DEF Init, Texte
  <2>2. Formes
    BY <2>1, Largeur DEF Formes
  <2>3. 0 % Modulo = 0
    BY Largeur, SansDebordement
  <2>4. ArretALaFin
    BY <2>1, <2>3 DEF ArretALaFin
  <2>5. pris \in Seq(Int) /\ Len(pris) = 0 /\ DOMAIN pris = {}
    BY <2>1
  <2>6. QED
    BY <2>1, <2>2, <2>4, <2>5 DEF IInv, Partage
<1>2. IInv /\ [Next]_vars => IInv'
  <2> SUFFICES ASSUME IInv, [Next]_vars PROVE IInv'
    OBVIOUS
  <2>1. CASE UNCHANGED sortie
    BY <2>1 DEF sortie, IInv, Formes, ArretALaFin, Partage
  <2>2. ASSUME NEW t, AppelerRemplir(t)
        PROVE  IInv'
    <3>1. PICK n \in Longueurs : envoi' = Texte(n) /\ pris' = <<>>
      BY <2>2 DEF AppelerRemplir
    <3>2. n \in 0 .. Modulo - 1
      BY ChaussetteAssumption
    <3>3. QED
      BY <3>1, <3>2, Commence
  <2>3. ASSUME NEW t,
               \/ AppelerLireLigne(t) \/ Chercher(t) \/ LireFermee(t) \/ Preparer(t)
               \/ Recevoir(t) \/ RecevoirEchoue(t) \/ CopierLigne(t) \/ RetirerLigne(t)
        PROVE  UNCHANGED sortie
    BY <2>3
    DEF AppelerLireLigne, Chercher, LireFermee, Preparer, Recevoir, RecevoirEchoue, CopierLigne,
        RetirerLigne, Lancer, liaison
  <2>4. ASSUME NEW t,
               \/ AppelerVider(t) \/ ViderTampon(t) \/ ViderSocket(t) \/ RendreSocket(t)
               \/ ViderEchoue(t) \/ ViderAilleurs(t) \/ Fermer(t) \/ Tricoter(t) \/ FinRemplir(t)
        PROVE  UNCHANGED sortie
    BY <2>4
    DEF AppelerVider, ViderTampon, ViderSocket, RendreSocket, ViderEchoue, ViderAilleurs, Fermer,
        Tricoter, FinRemplir, Lancer, liaison
  <2>5. QED
    BY <2>1, <2>2, <2>3, <2>4, PasEnvoyer, PasEnvoiEchoue DEF Next, vars, sortie
<1>3. QED
  BY <1>1, <1>2, PTL DEF Spec

\* The loop of Remplir ends at the end of the string and nowhere else, for any
\* width of size_t and any sequence of answers of send.
THEOREM FinDuCadeau == Spec => []ArretALaFin
<1>1. IInv => ArretALaFin
  BY DEF IInv
<1>2. QED
  BY <1>1, Invariant, PTL

\* While send does not fail the socket takes the string, each byte once and in
\* order.
THEOREM CadeauRecu == Spec => []CadeauEntier
<1>1. IInv => CadeauEntier
  BY DEF IInv, Formes, Partage, CadeauEntier
<1>2. QED
  BY <1>1, Invariant, PTL

-----------------------------------------------------------------------------
(* The types of the reception, whatever the use. *)

\* Where a task can be.
Places == {"libre", "cherche", "lit", "recoit", "prend", "retire", "attend", "rend", "vide",
           "ailleurs", "remplit"}

\* The constants.
LEMMA Constantes ==
  /\ Octets \in Nat /\ Paquet \in Nat /\ Paquet > 0 /\ Memoire \in Nat /\ Pannes \in Nat
  /\ Modulo \in Nat /\ Modulo > 0 /\ Longueurs \subseteq 0 .. Modulo - 1
  BY ChaussetteAssumption

\* The fields of a use.
LEMMA Usage ==
  ASSUME NEW s \in Scripts
  PROVE  /\ s.taches \in SUBSET Taches /\ s.octets \in 0 .. Octets
         /\ s.lignes \in Nat /\ s.connexions \in Nat /\ s.connexions >= 1
         /\ s.octets \in Nat /\ s.octets <= Octets
<1>1. s \in [taches : SUBSET Taches, octets : 0 .. Octets,
        appels : SUBSET {"Vider", "LireLigne", "Tricoter", "Fermer", "Remplir"},
        lignes : Nat, connexions : Nat \ {0}]
  BY ChaussetteAssumption
<1>. QED
  BY <1>1, Constantes

\* The search stops in the buffer or just after it, at the first '\n' if there is one.
LEMMA Recherche ==
  ASSUME lTampon \in Nat
  PROVE  /\ Position \in 0 .. lTampon
         /\ \A i \in 0 .. lTampon - 1 : FinDeLigne(i) => Position <= i
         /\ Position < lTampon => FinDeLigne(Position)
<1>. DEFINE S == {lTampon} \cup {i \in 0 .. lTampon - 1 : FinDeLigne(i)}
<1>1. S \in SUBSET Nat /\ S # {}
  OBVIOUS
<1>2. \E x \in S : \A y \in S : x <= y
  <2>. HIDE DEF S
  <2>. QED BY <1>1, PlusPetit
<1>3. Position \in S /\ \A y \in S : Position <= y
  <2>1. Position = CHOOSE x \in S : \A y \in S : x <= y
    BY DEF Position, Min
  <2>. HIDE DEF S
  <2>. QED BY <1>2, <2>1
<1>. QED BY <1>3

\* The connection.
TypesConnexion ==
  /\ script \in Scripts /\ Fins \subseteq 1 .. Octets
  /\ envoyes \in 0 .. Octets /\ recus \in 0 .. envoyes
  /\ connexions \in 1 .. script.connexions /\ lignes \in 0 .. script.lignes
  /\ ouverte \in BOOLEAN

\* The buffer.
TypesTampon ==
  /\ alloue \in BOOLEAN /\ Tampon \in [Cellules -> 0 .. Octets]
  /\ aTampon \in 0 .. Memoire /\ lTampon \in 0 .. aTampon

\* The tasks.
TypesTaches ==
  /\ pc \in [Taches -> Places] /\ Fin \in [Taches -> -1 .. Memoire]
  /\ p \in [Taches -> 0 .. Memoire] /\ ici \in [Taches -> 0 .. Memoire]
  /\ ret \in [Taches -> Seq(0 .. Octets)]

\* What the script got.
TypesHistoire == livres \in Seq(0 .. Octets) /\ melange \in BOOLEAN /\ plante \in BOOLEAN

\* Remplir.
TypesEnvoi ==
  /\ envoi \in [longueur : Longueurs \cup {0}, resteAEnvoyer : 0 .. Modulo - 1, c : Int,
               pannes : 0 .. Pannes]
  /\ pris \in Seq(Int)

\* The types of the variables that move together.
LEMMA Parties ==
  TypeOK <=> TypesConnexion /\ TypesTampon /\ TypesTaches /\ TypesHistoire /\ TypesEnvoi
  BY DEF TypeOK, TypesConnexion, TypesTampon, TypesTaches, TypesHistoire, TypesEnvoi, Places

\* The numbers the steps calculate with.
LEMMA Nombres ==
  ASSUME TypeOK
  PROVE  /\ Len(livres) \in Nat /\ lTampon \in Nat /\ aTampon \in Nat /\ recus \in Nat
         /\ lTampon <= aTampon /\ aTampon <= Memoire /\ recus <= envoyes /\ envoyes \in Nat
         /\ lignes \in Nat /\ envoyes <= Octets /\ Octets \in Nat /\ Memoire \in Nat
         /\ livres \in Seq(0 .. Octets)
  BY Parties, Constantes, LenProperties
  DEF TypesConnexion, TypesTampon, TypesHistoire

\* Moves of one task.
LEMMA Pas ==
  ASSUME TypeOK, NEW t \in Taches, NEW de, NEW vers \in Places, Aller(t, de, vers)
  PROVE  /\ pc' \in [Taches -> Places] /\ pc[t] = de /\ pc'[t] = vers
         /\ \A u \in Taches \ {t} : pc'[u] = pc[u]
  BY DEF TypeOK, Aller, Places

\* The bytes that arrive are bytes the peer sent.
LEMMA Arrivent ==
  ASSUME TypeOK, NEW n \in Arrivees
  PROVE  /\ n \in 1 .. Paquet /\ n \in Nat /\ n > 0 /\ recus \in Nat /\ envoyes \in Nat
         /\ recus + n <= envoyes /\ envoyes <= Octets /\ recus + n \in 0 .. envoyes
  BY Constantes DEF TypeOK, Arrivees

\* A string of bytes copied from the buffer.
LEMMA Copie ==
  ASSUME TypeOK, NEW n \in 0 .. Memoire
  PROVE  /\ Contenu(n) \in Seq(0 .. Octets) /\ Len(Contenu(n)) = n
         /\ \A k \in 1 .. n : Contenu(n)[k] = Tampon[k - 1]
<1>1. n \in Nat /\ \A k \in 1 .. n : k - 1 \in Cellules /\ Tampon[k - 1] \in 0 .. Octets
  <2>1. Tampon \in [Cellules -> 0 .. Octets] /\ n \in Nat /\ n <= Memoire /\ Memoire \in Nat
    BY Constantes DEF TypeOK
  <2>2. \A k \in 1 .. n : k - 1 \in Cellules
    BY <2>1 DEF Cellules
  <2>. QED BY <2>1, <2>2
<1>2. Contenu(n) \in [1 .. n -> 0 .. Octets]
  BY <1>1 DEF Contenu
<1>. QED BY <1>1, <1>2 DEF Contenu

\* A run of bytes.
LEMMA Suivants ==
  ASSUME NEW i \in Nat, NEW n \in Nat, i + n <= Octets
  PROVE  /\ Suite(i + 1, i + n) \in Seq(0 .. Octets) /\ Len(Suite(i + 1, i + n)) = n
         /\ \A k \in 1 .. n : Suite(i + 1, i + n)[k] = i + k
<1>1. (i + n) - (i + 1) + 1 = n /\ Octets \in Nat
  BY Constantes
<1>2. Suite(i + 1, i + n) = [k \in 1 .. n |-> i + 1 + k - 1]
  BY <1>1 DEF Suite
<1>3. \A k \in 1 .. n : i + 1 + k - 1 = i + k /\ i + k \in 0 .. Octets
  BY <1>1
<1>4. [k \in 1 .. n |-> i + 1 + k - 1] \in [1 .. n -> 0 .. Octets]
  BY <1>3
<1>5. Suite(i + 1, i + n) \in [1 .. n -> 0 .. Octets]
  BY <1>2, <1>4
<1>6. \A k \in 1 .. n : Suite(i + 1, i + n)[k] = i + k
  BY <1>2, <1>3
<1>. HIDE DEF Suite
<1>7. Suite(i + 1, i + n) \in Seq(0 .. Octets)
  BY <1>5, SeqDef
<1>8. Len(Suite(i + 1, i + n)) = n
  BY <1>5, <1>7, LenProperties
<1>. QED BY <1>6, <1>7, <1>8

\* Remplir keeps their types, whatever send answers; the other calls leave them alone.
LEMMA TypesDEnvoi ==
  ASSUME TypeOK, [Next]_vars
  PROVE  TypesEnvoi'
<1>1. TypesEnvoi
  BY Parties
<1>2. CASE UNCHANGED sortie
  BY <1>1, <1>2 DEF sortie, TypesEnvoi
<1>3. ASSUME NEW t, AppelerRemplir(t) PROVE TypesEnvoi'
  <2>1. PICK n \in Longueurs : envoi' = Texte(n) /\ pris' = <<>>
    BY <1>3 DEF AppelerRemplir
  <2>2. n \in 0 .. Modulo - 1 /\ 0 \in 0 .. Pannes
    BY Constantes
  <2>. QED BY <2>1, <2>2 DEF Texte, TypesEnvoi
<1>4. ASSUME NEW e \in Int, NEW pannes \in 0 .. Pannes, Avancer(e, pannes)
      PROVE  envoi' \in [longueur : Longueurs \cup {0}, resteAEnvoyer : 0 .. Modulo - 1, c : Int,
                        pannes : 0 .. Pannes]
  <2>1. PICK r \in 0 .. Modulo - 1, c \in Int : r = ResteApres(e) /\ c = CurseurApres(e)
    <3>1. envoi.resteAEnvoyer \in Int /\ envoi.c \in Int /\ Modulo \in Nat /\ Modulo > 0
      BY <1>1, Constantes DEF TypesEnvoi
    <3>. QED BY <3>1 DEF ResteApres, CurseurApres
  <2>2. envoi' = [envoi EXCEPT !.resteAEnvoyer = r, !.c = c, !.pannes = pannes]
    BY <1>4, <2>1 DEF Avancer
  <2>. QED BY <1>1, <2>2 DEF TypesEnvoi
<1>5. ASSUME NEW t, Envoyer(t) PROVE TypesEnvoi'
  <2>1. PICK e \in 1 .. envoyer :
          /\ Avancer(e, envoi.pannes)
          /\ pris' = pris \o [k \in 1 .. e |-> envoi.c + k]
    BY <1>5 DEF Envoyer
  <2>2. e \in Nat
    <3>1. envoyer \in Nat
      <4> DEFINE S == {envoi.resteAEnvoyer, Paquet}
      <4>1. S \in SUBSET Nat /\ S # {}
        BY <1>1, Constantes DEF TypesEnvoi
      <4>2. \E x \in S : \A y \in S : x <= y
        <5>. HIDE DEF S
        <5>. QED BY <4>1, PlusPetit
      <4>3. envoyer = CHOOSE x \in S : \A y \in S : x <= y
        BY DEF envoyer, Min
      <4>. HIDE DEF S
      <4>. QED BY <4>1, <4>2, <4>3
    <3>. QED BY <3>1
  <2>3. envoi'  \in [longueur : Longueurs \cup {0}, resteAEnvoyer : 0 .. Modulo - 1, c : Int,
                    pannes : 0 .. Pannes]
    BY <1>1, <1>4, <2>1, <2>2 DEF TypesEnvoi
  <2>4. [k \in 1 .. e |-> envoi.c + k] \in Seq(Int)
    BY <1>1, <2>2 DEF TypesEnvoi
  <2>5. pris' \in Seq(Int)
    BY <1>1, <2>1, <2>4, ConcatProperties DEF TypesEnvoi
  <2>. QED BY <2>3, <2>5 DEF TypesEnvoi
<1>6. ASSUME NEW t, EnvoiEchoue(t) PROVE TypesEnvoi'
  <2>1. Avancer(-1, envoi.pannes + 1) /\ pris' = pris /\ envoi.pannes + 1 \in 0 .. Pannes
    BY <1>1, <1>6, Constantes DEF EnvoiEchoue, TypesEnvoi
  <2>. QED BY <1>1, <1>4, <2>1 DEF TypesEnvoi
<1>7. ASSUME NEW t,
             \/ AppelerLireLigne(t) \/ Chercher(t) \/ LireFermee(t) \/ Preparer(t)
             \/ Recevoir(t) \/ RecevoirEchoue(t) \/ CopierLigne(t) \/ RetirerLigne(t)
      PROVE  UNCHANGED sortie
  BY <1>7
  DEF AppelerLireLigne, Chercher, LireFermee, Preparer, Recevoir, RecevoirEchoue, CopierLigne,
      RetirerLigne, Lancer, liaison
<1>8. ASSUME NEW t,
             \/ AppelerVider(t) \/ ViderTampon(t) \/ ViderSocket(t) \/ RendreSocket(t)
             \/ ViderEchoue(t) \/ ViderAilleurs(t) \/ Fermer(t) \/ Tricoter(t) \/ FinRemplir(t)
      PROVE  UNCHANGED sortie
  BY <1>8
  DEF AppelerVider, ViderTampon, ViderSocket, RendreSocket, ViderEchoue, ViderAilleurs, Fermer,
      Tricoter, FinRemplir, Lancer, liaison
<1>. QED
  BY <1>2, <1>3, <1>5, <1>6, <1>7, <1>8 DEF Next, vars, sortie

\* What does not move keeps its type.
LEMMA Inertie ==
  ASSUME TypeOK
  PROVE  /\ UNCHANGED <<script, Fins, envoyes, recus, connexions, lignes, ouverte>>
               => TypesConnexion'
         /\ UNCHANGED tampon => TypesTampon'
         /\ UNCHANGED <<pc, Fin, p, ici, ret>> => TypesTaches'
         /\ UNCHANGED <<livres, melange, plante>> => TypesHistoire'
<1>1. TypesConnexion /\ TypesTampon /\ TypesTaches /\ TypesHistoire
  BY Parties
<1>2. UNCHANGED <<script, Fins, envoyes, recus, connexions, lignes, ouverte>> => TypesConnexion'
  BY <1>1 DEF TypesConnexion
<1>3. UNCHANGED tampon => TypesTampon'
  BY <1>1 DEF TypesTampon, tampon, Cellules
<1>4. UNCHANGED <<pc, Fin, p, ici, ret>> => TypesTaches'
  BY <1>1 DEF TypesTaches
<1>5. UNCHANGED <<livres, melange, plante>> => TypesHistoire'
  BY <1>1 DEF TypesHistoire
<1>. QED BY <1>2, <1>3, <1>4, <1>5

\* What the script got keeps its type: strings are added to it.
LEMMA TypesHist ==
  ASSUME TypeOK, NEW s \in Seq(0 .. Octets), livres' \in {livres, <<>>, livres \o s},
         melange' \in BOOLEAN, plante' \in BOOLEAN
  PROVE  TypesHistoire'
<1>1. livres \in Seq(0 .. Octets) /\ livres \o s \in Seq(0 .. Octets) /\ <<>> \in Seq(0 .. Octets)
  BY Nombres, ConcatProperties, EmptySeq
<1>. QED BY <1>1 DEF TypesHistoire

\* All but Remplir.
TypesReception == TypesConnexion /\ TypesTampon /\ TypesTaches /\ TypesHistoire

\* A task moves; its own variables change, or are reset.
LEMMA Avance ==
  ASSUME TypeOK, NEW t \in Taches, NEW de \in Places, NEW vers \in Places, Aller(t, de, vers),
         UNCHANGED Fin \/ \E f \in -1 .. Memoire : Fin' = [Fin EXCEPT ![t] = f],
         UNCHANGED p \/ \E n \in 0 .. Memoire : p' = [p EXCEPT ![t] = n],
         UNCHANGED ici \/ \E n \in 0 .. Memoire : ici' = [ici EXCEPT ![t] = n],
         UNCHANGED ret \/ \E s \in Seq(0 .. Octets) : ret' = [ret EXCEPT ![t] = s]
  PROVE  TypesTaches'
<1>1. TypesTaches
  BY Parties
<1>2. pc' \in [Taches -> Places]
  BY Pas
<1>. QED BY <1>1, <1>2 DEF TypesTaches

\* The end of a call.
LEMMA TypesOublier ==
  ASSUME TypeOK, NEW t \in Taches, NEW de \in Places, Aller(t, de, "libre"), Oublier(t)
  PROVE  TypesTaches'
<1>1. -1 \in -1 .. Memoire /\ 0 \in 0 .. Memoire /\ <<>> \in Seq(0 .. Octets)
  BY Constantes, EmptySeq
<1>. QED BY <1>1, Avance DEF Oublier, Places

\* A call that throws.
LEMMA TypesLancer ==
  ASSUME TypeOK, NEW t \in Taches, NEW de \in Places, Lancer(t, de)
  PROVE  TypesReception'
<1>1. TypesConnexion' /\ TypesTampon' /\ TypesHistoire'
  BY Inertie DEF Lancer, liaison
<1>2. TypesTaches'
  BY TypesOublier DEF Lancer
<1>. QED BY <1>1, <1>2 DEF TypesReception

\* LireLigne begins.
LEMMA TypesAppelerLireLigne ==
  ASSUME TypeOK, NEW t \in Taches, AppelerLireLigne(t) PROVE TypesReception'
<1>1. TypesConnexion'
  BY Parties, Usage DEF AppelerLireLigne, liaison, TypesConnexion
<1>2. TypesTampon'
  BY Inertie DEF AppelerLireLigne
<1>3. TypesTaches'
  BY Avance DEF AppelerLireLigne, Places, ligne
<1>4. TypesHistoire'
  BY Parties DEF AppelerLireLigne, Entrer, TypesHistoire
<1>. QED BY <1>1, <1>2, <1>3, <1>4 DEF TypesReception

\* The position found is in the buffer or just after it, and a line is only found
\* at a cell.
LEMMA TypesChercher ==
  ASSUME TypeOK, NEW t \in Taches, Chercher(t) PROVE TypesReception'
<1>1. TypesConnexion' /\ TypesTampon'
  BY Inertie DEF Chercher, liaison
<1>2. TypesHistoire'
  BY Parties DEF Chercher, TypesHistoire
<1>. DEFINE plein == alloue /\ lTampon # 0
<1>. DEFINE f == IF plein THEN Position ELSE Fin[t]
<1>. DEFINE n == IF plein THEN f + (IF FinDeLigne(f) THEN 1 ELSE 0) ELSE p[t]
<1>3. f \in -1 .. Memoire /\ (plein => f \in 0 .. Memoire)
  BY Parties, Nombres, Recherche DEF TypesTaches
<1>4. n \in 0 .. Memoire
  <2>1. FinDeLigne(f) => f < Memoire
    BY Nombres DEF FinDeLigne, Cellules
  <2>2. plein => n \in 0 .. Memoire
    <3>. HIDE DEF f
    <3>. QED BY <1>3, <2>1, Nombres
  <2>. QED BY <2>2, Parties DEF TypesTaches
<1>5. /\ Fin' = [Fin EXCEPT ![t] = f] /\ p' = [p EXCEPT ![t] = n]
      /\ UNCHANGED <<ici, ret>>
      /\ Aller(t, "cherche", IF FinDeLigne(f) THEN "prend" ELSE "lit")
  <2>1. p' = [p EXCEPT ![t] = IF plein THEN f + (IF FinDeLigne(f) THEN 1 ELSE 0) ELSE @]
    BY DEF Chercher
  <2>2. p' = [p EXCEPT ![t] = n]
    BY <2>1
  <2>. QED BY <2>2 DEF Chercher
<1>6. TypesTaches'
  <2>. HIDE DEF f, n
  <2>. QED BY <1>3, <1>4, <1>5, Avance DEF Places
<1>. QED BY <1>1, <1>2, <1>6 DEF TypesReception

\* The buffer grows within the memory.
LEMMA TypesPreparer ==
  ASSUME TypeOK, NEW t \in Taches, Preparer(t) PROVE TypesReception'
<1>1. TypesConnexion'
  BY Inertie DEF Preparer, liaison
<1>2. TypesHistoire'
  BY Parties DEF Preparer, TypesHistoire
<1>3. TypesTaches'
  <2>1. lTampon \in 0 .. Memoire
    BY Nombres
  <2>. QED BY <2>1, Avance DEF Preparer, Places
<1>4. TypesTampon'
  <2>1. Tampon' = Tampon /\ lTampon' = lTampon
    BY DEF Preparer
  <2>2. CASE Agrandir
    <3>1. alloue' = TRUE /\ aTampon' = aTampon + Paquet /\ aTampon + Paquet <= Memoire
      BY <2>2 DEF Preparer
    <3>2. aTampon' \in 0 .. Memoire /\ lTampon' \in 0 .. aTampon'
      BY <2>1, <3>1, Nombres, Constantes
    <3>. QED BY <2>1, <3>1, <3>2, Parties DEF TypesTampon
  <2>3. CASE ~Agrandir
    BY <2>1, <2>3, Parties DEF Preparer, TypesTampon
  <2>. QED BY <2>2, <2>3
<1>. QED BY <1>1, <1>2, <1>3, <1>4 DEF TypesReception

\* What recv appends fits, or the process has written past its buffer.
LEMMA TypesRecevoir ==
  ASSUME TypeOK, NEW t \in Taches, Recevoir(t) PROVE TypesReception'
<1>1. TypesTaches'
  BY Avance DEF Recevoir, ligne, Places
<1>2. PICK n \in Arrivees :
       /\ Tampon' = [i \in Cellules |-> IF i \in ici[t] .. ici[t] + n - 1
                                       THEN recus + 1 + i - ici[t] ELSE Tampon[i]]
       /\ IF LongueurApres(n) <= aTampon
          THEN lTampon' = LongueurApres(n) /\ UNCHANGED plante
          ELSE plante' = TRUE /\ UNCHANGED lTampon
       /\ recus' = recus + n
  BY DEF Recevoir
<1>3. TypesConnexion'
  BY <1>2, Arrivent, Parties DEF TypesConnexion, Recevoir, liaison
<1>4. TypesHistoire'
  BY <1>2, Parties DEF Recevoir, TypesHistoire
<1>5. TypesTampon'
  <2>1. lTampon' \in 0 .. aTampon
    BY <1>2, Nombres, Arrivent DEF LongueurApres
  <2>2. Tampon' \in [Cellules -> 0 .. Octets]
    <3>1. ici[t] \in Nat
      BY Parties, Constantes DEF TypesTaches
    <3>2. \A i \in Cellules :
            (IF i \in ici[t] .. ici[t] + n - 1 THEN recus + 1 + i - ici[t] ELSE Tampon[i])
              \in 0 .. Octets
      <4>1. /\ \A i \in Cellules : Tampon[i] \in 0 .. Octets /\ i \in Int
            /\ n \in Nat /\ recus \in Nat /\ recus + n <= Octets /\ Octets \in Nat
        <5>1. \A i \in Cellules : i \in Int
          BY DEF Cellules
        <5>2. \A i \in Cellules : Tampon[i] \in 0 .. Octets
          BY Parties DEF TypesTampon
        <5>3. n \in Nat /\ recus \in Nat /\ recus + n <= Octets /\ Octets \in Nat
          BY Arrivent, Nombres
        <5>. QED BY <5>1, <5>2, <5>3
      <4>2. ASSUME NEW i \in Cellules, i \in ici[t] .. ici[t] + n - 1
            PROVE  recus + 1 + i - ici[t] \in 0 .. Octets
        BY <3>1, <4>1, <4>2
      <4>. QED BY <4>1, <4>2, Zenon
    <3>. QED BY <1>2, <3>2
  <2>. QED BY <2>1, <2>2, Parties DEF Recevoir, TypesTampon
<1>. QED BY <1>1, <1>3, <1>4, <1>5 DEF TypesReception

\* The line is copied from cells of the buffer.
LEMMA TypesCopierLigne ==
  ASSUME TypeOK, NEW t \in Taches, CopierLigne(t) PROVE TypesReception'
<1>1. TypesConnexion' /\ TypesTampon' /\ TypesHistoire'
  BY Inertie DEF CopierLigne, liaison
<1>2. Contenu(p[t]) \in Seq(0 .. Octets)
  BY Parties, Copie DEF TypesTaches
<1>3. TypesTaches'
  BY <1>2, Avance DEF CopierLigne, ligne, Places
<1>. QED BY <1>1, <1>3 DEF TypesReception

\* The memmove reads cells of the buffer.
LEMMA TypesRetirerLigne ==
  ASSUME TypeOK, NEW t \in Taches, RetirerLigne(t) PROVE TypesReception'
<1>1. TypesConnexion'
  BY Inertie DEF RetirerLigne, liaison
<1>2. TypesHistoire'
  <2>1. ret[t] \in Seq(0 .. Octets)
    BY Parties DEF TypesTaches
  <2>2. livres' \in {livres, livres \o ret[t]} /\ melange' \in BOOLEAN /\ plante' \in BOOLEAN
    BY Parties DEF RetirerLigne, TypesHistoire
  <2>. QED BY <2>1, <2>2, TypesHist
<1>3. TypesTaches'
  BY TypesOublier DEF RetirerLigne, Places
<1>4. p[t] \in Nat
  BY Parties, Constantes DEF TypesTaches
<1>5. lTampon' \in 0 .. aTampon
  BY <1>4, Nombres DEF RetirerLigne
<1>6. Tampon' \in [Cellules -> 0 .. Octets]
  <2>1. CASE p[t] <= lTampon
    <3>1. \A i \in Cellules :
            (IF i < lTampon - p[t] THEN Tampon[i + p[t]] ELSE Tampon[i]) \in 0 .. Octets
      <4>1. Tampon \in [Cellules -> 0 .. Octets]
        BY Parties DEF TypesTampon
      <4>2. \A i \in Cellules : i < lTampon - p[t] => i + p[t] \in Cellules
        BY <1>4, <2>1, Nombres DEF Cellules
      <4>. QED BY <4>1, <4>2
    <3>. QED BY <2>1, <3>1 DEF RetirerLigne
  <2>. QED BY <2>1, Parties DEF RetirerLigne, TypesTampon
<1>7. TypesTampon'
  BY <1>5, <1>6, Parties DEF RetirerLigne, TypesTampon
<1>. QED BY <1>1, <1>2, <1>3, <1>7 DEF TypesReception

\* Vider copies no more than the buffer holds.
LEMMA TypesAppelerVider ==
  ASSUME TypeOK, NEW t \in Taches, AppelerVider(t) PROVE TypesReception'
<1>1. TypesConnexion' /\ TypesTampon'
  BY Inertie DEF AppelerVider, liaison
<1>2. TypesHistoire'
  BY Parties DEF AppelerVider, Entrer, TypesHistoire
<1>3. Contenu(lTampon) \in Seq(0 .. Octets)
  BY Nombres, Copie
<1>4. TypesTaches'
  BY <1>3, Avance DEF AppelerVider, ligne, Places
<1>. QED BY <1>1, <1>2, <1>4 DEF TypesReception

\* Vider gives back what it took, from the buffer or from the socket.
LEMMA TypesRendre ==
  ASSUME TypeOK, NEW t \in Taches, ViderTampon(t) \/ RendreSocket(t) PROVE TypesReception'
<1>1. TypesConnexion'
  BY Inertie DEF ViderTampon, RendreSocket, liaison
<1>2. TypesHistoire'
  <2>1. ret[t] \in Seq(0 .. Octets)
    BY Parties DEF TypesTaches
  <2>2. livres' = livres \o ret[t] /\ melange' \in BOOLEAN /\ plante' \in BOOLEAN
    BY Parties DEF ViderTampon, RendreSocket, TypesHistoire
  <2>. QED BY <2>1, <2>2, TypesHist
<1>3. TypesTaches'
  BY TypesOublier DEF ViderTampon, RendreSocket, Places
<1>4. TypesTampon'
  <2>1. CASE ViderTampon(t)
    BY <2>1, Parties, Nombres DEF ViderTampon, ApresVider, TypesTampon
  <2>2. CASE RendreSocket(t)
    BY <2>2, Inertie DEF RendreSocket
  <2>. QED BY <2>1, <2>2
<1>. QED BY <1>1, <1>2, <1>3, <1>4 DEF TypesReception

\* Vider reads a packet of its own.
LEMMA TypesViderSocket ==
  ASSUME TypeOK, NEW t \in Taches, ViderSocket(t) PROVE TypesReception'
<1>1. TypesTampon' /\ TypesHistoire'
  BY Inertie DEF ViderSocket
<1>2. PICK n \in Arrivees :
        recus' = recus + n /\ ret' = [ret EXCEPT ![t] = Suite(recus + 1, recus + n)]
  BY DEF ViderSocket
<1>3. TypesConnexion'
  BY <1>2, Arrivent, Parties DEF TypesConnexion, ViderSocket, liaison
<1>4. Suite(recus + 1, recus + n) \in Seq(0 .. Octets)
  <2>1. recus \in Nat /\ n \in Nat /\ recus + n <= Octets
    BY Arrivent, Constantes
  <2>. QED BY <2>1, Suivants
<1>5. TypesTaches'
  BY <1>2, <1>4, Avance DEF ViderSocket, ligne, Places
<1>. QED BY <1>1, <1>3, <1>5 DEF TypesReception

\* Closing moves nothing.
LEMMA TypesFermer ==
  ASSUME TypeOK, NEW t \in Taches, Fermer(t) PROVE TypesReception'
<1>1. TypesTampon' /\ TypesTaches' /\ TypesHistoire'
  BY Inertie DEF Fermer, ligne
<1>2. TypesConnexion'
  BY Parties DEF TypesConnexion, Fermer, liaison
<1>. QED BY <1>1, <1>2 DEF TypesReception

\* A new connection starts from a buffer without memory.
LEMMA TypesTricoter ==
  ASSUME TypeOK, NEW t \in Taches, Tricoter(t) PROVE TypesReception'
<1>1. TypesTaches'
  BY Parties DEF Tricoter, ligne, TypesTaches, Places
<1>2. TypesHistoire'
  <2>1. livres' = <<>> /\ melange' \in BOOLEAN /\ plante' \in BOOLEAN
    BY Parties DEF Tricoter, Entrer, TypesHistoire, TypesTampon
  <2>. QED BY <2>1, TypesHist, EmptySeq
<1>3. TypesTampon'
  <2>1. Tampon' \in [Cellules -> 0 .. Octets]
    BY Constantes DEF Tricoter
  <2>2. lTampon' \in 0 .. aTampon' /\ aTampon' \in 0 .. Memoire
    BY Nombres DEF Tricoter
  <2>. QED BY <2>1, <2>2 DEF Tricoter, TypesTampon
<1>4. TypesConnexion'
  <2>1. envoyes' \in 0 .. Octets /\ Fins' \subseteq 1 .. Octets
    BY Parties, Usage, Constantes DEF TypesConnexion, Tricoter
  <2>2. connexions' \in 1 .. script.connexions /\ lignes' \in 0 .. script.lignes
    BY Parties, Usage DEF TypesConnexion, Tricoter
  <2>. QED BY <2>1, <2>2, Parties, Constantes DEF TypesConnexion, Tricoter
<1>. QED BY <1>1, <1>2, <1>3, <1>4 DEF TypesReception

\* Remplir leaves the reception alone.
LEMMA TypesRemplir ==
  ASSUME TypeOK, NEW t \in Taches,
         AppelerRemplir(t) \/ Envoyer(t) \/ EnvoiEchoue(t) \/ FinRemplir(t)
  PROVE  TypesReception'
<1>1. UNCHANGED reception
  BY DEF AppelerRemplir, Envoyer, EnvoiEchoue, FinRemplir
<1>2. TypesConnexion' /\ TypesTampon' /\ TypesHistoire'
  BY <1>1, Inertie DEF reception
<1>3. CASE UNCHANGED pc
  BY <1>1, <1>2, <1>3, Inertie DEF reception, ligne, TypesReception
<1>4. CASE Aller(t, "libre", "remplit") \/ Aller(t, "remplit", "libre")
  BY <1>1, <1>2, <1>4, Avance DEF reception, ligne, TypesReception, Places
<1>. QED BY <1>3, <1>4 DEF AppelerRemplir, Envoyer, EnvoiEchoue, FinRemplir

\* TypeOK is inductive.
LEMMA TypesGardes == TypeOK /\ [Next]_vars => TypeOK'
<1>. SUFFICES ASSUME TypeOK, [Next]_vars PROVE TypesReception'
  BY TypesDEnvoi
  DEF TypeOK, TypesReception, TypesConnexion, TypesTampon, TypesTaches, TypesHistoire,
      TypesEnvoi, Places
<1>1. CASE UNCHANGED vars
  BY <1>1, Inertie DEF vars, TypesReception, tampon
<1>2. ASSUME NEW t \in script.taches,
       \/ AppelerLireLigne(t) \/ Chercher(t) \/ LireFermee(t) \/ Preparer(t)
       \/ Recevoir(t) \/ RecevoirEchoue(t) \/ CopierLigne(t) \/ RetirerLigne(t)
       \/ AppelerVider(t) \/ ViderTampon(t)
       \/ ViderSocket(t) \/ RendreSocket(t) \/ ViderEchoue(t) \/ ViderAilleurs(t)
       \/ Fermer(t) \/ Tricoter(t)
       \/ AppelerRemplir(t) \/ Envoyer(t) \/ EnvoiEchoue(t) \/ FinRemplir(t)
      PROVE TypesReception'
  <2>1. t \in Taches
    BY Usage, Parties DEF TypesConnexion
  <2>2. CASE LireFermee(t) \/ RecevoirEchoue(t) \/ ViderEchoue(t) \/ ViderAilleurs(t)
    <3>1. PICK de \in Places : Lancer(t, de)
      BY <2>2 DEF LireFermee, RecevoirEchoue, ViderEchoue, ViderAilleurs, Places
    <3>. QED BY <2>1, <3>1, TypesLancer
  <2>. QED BY <1>2, <2>1, <2>2, TypesAppelerLireLigne, TypesChercher, TypesPreparer,
        TypesRecevoir, TypesCopierLigne, TypesRetirerLigne, TypesAppelerVider, TypesRendre,
        TypesViderSocket, TypesFermer, TypesTricoter, TypesRemplir
<1>. QED BY <1>1, <1>2 DEF Next

\* It holds of a new Chaussette.
LEMMA TypesAuDepart == Init => TypeOK
<1>. SUFFICES ASSUME Init PROVE TypeOK
  OBVIOUS
<1>1. TypesConnexion
  BY Usage, Constantes DEF Init, TypesConnexion
<1>2. TypesTampon
  <2>1. Tampon \in [Cellules -> 0 .. Octets]
    BY Constantes DEF Init
  <2>2. lTampon \in 0 .. aTampon /\ aTampon \in 0 .. Memoire
    BY Constantes DEF Init
  <2>. QED BY <2>1, <2>2 DEF Init, TypesTampon
<1>3. TypesTaches
  <2>1. -1 \in -1 .. Memoire /\ 0 \in 0 .. Memoire /\ <<>> \in Seq(0 .. Octets)
    BY Constantes, EmptySeq
  <2>. QED BY <2>1 DEF Init, TypesTaches, Places
<1>4. TypesHistoire
  BY EmptySeq DEF Init, TypesHistoire
<1>5. TypesEnvoi
  BY Constantes, EmptySeq DEF Init, TypesEnvoi, Texte
<1>. QED BY <1>1, <1>2, <1>3, <1>4, <1>5, Parties

\* TypeOK, for every use.
THEOREM BienType == Spec => []TypeOK
  BY TypesAuDepart, TypesGardes, PTL DEF Spec

-----------------------------------------------------------------------------
(* Who uses the buffer. *)

\* Where only LireLigne brings a task.
ParLigne == {"cherche", "lit", "recoit", "prend", "retire"}

\* A buffer without memory holds nothing; who moves; Fin is NULL out of LireLigne.
Ordre ==
  /\ ~alloue => lTampon = 0
  /\ \A t \in Taches \ script.taches : pc[t] = "libre"
  /\ \A t \in Taches : pc[t] \notin ParLigne => Fin[t] = -1

\* At most one task uses the buffer, as long as they have not met there.
Exclusif ==
  ~melange => \A t, u \in Taches : t # u => ~(pc[t] \in SurTampon /\ pc[u] \in SurTampon)

\* The actions of a task but Tricoter.
Ordinaire(t) ==
  \/ AppelerLireLigne(t) \/ Chercher(t) \/ LireFermee(t) \/ Preparer(t)
  \/ Recevoir(t) \/ RecevoirEchoue(t) \/ CopierLigne(t) \/ RetirerLigne(t)
  \/ AppelerVider(t) \/ ViderTampon(t)
  \/ ViderSocket(t) \/ RendreSocket(t) \/ ViderEchoue(t) \/ ViderAilleurs(t)
  \/ Fermer(t)
  \/ AppelerRemplir(t) \/ Envoyer(t) \/ EnvoiEchoue(t) \/ FinRemplir(t)

\* What a step of task t leaves alone: the locals of the others, and the buffer
\* when t is not in it; how t comes to it.
PasDe(t) ==
  /\ \A u \in Taches \ {t} :
       pc'[u] = pc[u] /\ Fin'[u] = Fin[u] /\ p'[u] = p[u] /\ ici'[u] = ici[u] /\ ret'[u] = ret[u]
  /\ script' = script /\ Fins' = Fins
  /\ ~melange' => ~melange
  /\ pc'[t] \in SurTampon /\ ~melange' => pc[t] \in SurTampon \/ Autres(t) = {}
  /\ pc[t] \notin SurTampon => UNCHANGED tampon

\* The locals of a call that ends are those of t.
LEMMA Oubli ==
  ASSUME TypeOK, NEW t \in Taches, Oublier(t)
  PROVE  /\ \A u \in Taches \ {t} :
              Fin'[u] = Fin[u] /\ p'[u] = p[u] /\ ici'[u] = ici[u] /\ ret'[u] = ret[u]
         /\ Fin'[t] = -1
  BY Parties DEF Oublier, TypesTaches

\* A step of LireLigne.
LEMMA PasDeLire ==
  ASSUME TypeOK, NEW t \in Taches,
         \/ AppelerLireLigne(t) \/ Chercher(t) \/ LireFermee(t) \/ Preparer(t)
         \/ Recevoir(t) \/ RecevoirEchoue(t) \/ CopierLigne(t) \/ RetirerLigne(t)
  PROVE  PasDe(t)
<1>1. CASE AppelerLireLigne(t)
  BY <1>1, Pas DEF AppelerLireLigne, Entrer, PasDe, liaison, ligne, Places
<1>2. CASE Chercher(t)
  <2>1. pc[t] = "cherche" /\ \A u \in Taches \ {t} : pc'[u] = pc[u]
    BY <1>2, Parties DEF Chercher, Aller, TypesTaches
  <2>2. \A u \in Taches \ {t} : Fin'[u] = Fin[u] /\ p'[u] = p[u]
    BY <1>2, Parties DEF Chercher, TypesTaches
  <2>. QED BY <1>2, <2>1, <2>2 DEF Chercher, PasDe, liaison, SurTampon
<1>3. CASE LireFermee(t) \/ RecevoirEchoue(t)
  <2>1. PICK de \in {"lit", "recoit"} : Lancer(t, de)
    BY <1>3 DEF LireFermee, RecevoirEchoue
  <2>. QED BY <2>1, Pas, Oubli DEF Lancer, PasDe, liaison, Places, SurTampon
<1>4. CASE Preparer(t)
  <2>1. \A u \in Taches \ {t} : ici'[u] = ici[u]
    BY <1>4, Parties DEF Preparer, TypesTaches
  <2>. QED BY <1>4, <2>1, Pas DEF Preparer, PasDe, liaison, Places, SurTampon
<1>5. CASE Recevoir(t)
  BY <1>5, Pas DEF Recevoir, PasDe, liaison, ligne, Places, SurTampon
<1>6. CASE CopierLigne(t)
  <2>1. \A u \in Taches \ {t} : ret'[u] = ret[u]
    BY <1>6, Parties DEF CopierLigne, TypesTaches
  <2>. QED BY <1>6, <2>1, Pas DEF CopierLigne, PasDe, liaison, ligne, Places, SurTampon
<1>7. CASE RetirerLigne(t)
  BY <1>7, Pas, Oubli DEF RetirerLigne, PasDe, liaison, Places, SurTampon
<1>. QED BY <1>1, <1>2, <1>3, <1>4, <1>5, <1>6, <1>7

\* A step of the other calls.
LEMMA PasDesAutres ==
  ASSUME TypeOK, NEW t \in Taches,
         \/ AppelerVider(t) \/ ViderTampon(t)
         \/ ViderSocket(t) \/ RendreSocket(t) \/ ViderEchoue(t) \/ ViderAilleurs(t)
         \/ Fermer(t)
         \/ AppelerRemplir(t) \/ Envoyer(t) \/ EnvoiEchoue(t) \/ FinRemplir(t)
  PROVE  PasDe(t)
<1>1. CASE AppelerVider(t)
  <2>1. \A u \in Taches \ {t} : ret'[u] = ret[u]
    BY <1>1, Parties DEF AppelerVider, TypesTaches
  <2>2. PICK vers \in {"vide", "attend"} :
          Aller(t, "libre", vers) /\ (vers = "attend" \/ Entrer(t))
    BY <1>1 DEF AppelerVider
  <2>3. pc'[t] = vers /\ pc[t] = "libre" /\ \A u \in Taches \ {t} : pc'[u] = pc[u]
    BY <2>2, Pas DEF Places
  <2>4. vers = "attend" \/ melange' = (melange \/ Autres(t) # {})
    BY <2>2 DEF Entrer
  <2>5. ~melange' => ~melange
    BY <1>1 DEF AppelerVider, Entrer
  <2>6. pc'[t] \in SurTampon /\ ~melange' => Autres(t) = {}
    BY <2>3, <2>4 DEF SurTampon
  <2>. QED BY <1>1, <2>1, <2>3, <2>5, <2>6 DEF AppelerVider, PasDe, liaison, ligne
<1>2. CASE ViderTampon(t) \/ RendreSocket(t)
  BY <1>2, Pas, Oubli DEF ViderTampon, RendreSocket, PasDe, liaison, Places, SurTampon
<1>3. CASE ViderSocket(t)
  <2>1. \A u \in Taches \ {t} : ret'[u] = ret[u]
    BY <1>3, Parties DEF ViderSocket, TypesTaches
  <2>. QED BY <1>3, <2>1, Pas DEF ViderSocket, PasDe, liaison, ligne, Places, SurTampon
<1>4. CASE ViderEchoue(t) \/ ViderAilleurs(t)
  <2>1. PICK de \in {"attend", "ailleurs"} : Lancer(t, de)
    BY <1>4 DEF ViderEchoue, ViderAilleurs
  <2>. QED BY <2>1, Pas, Oubli DEF Lancer, PasDe, liaison, Places, SurTampon
<1>5. CASE Fermer(t)
  BY <1>5 DEF Fermer, PasDe, liaison, ligne
<1>6. CASE Envoyer(t) \/ EnvoiEchoue(t)
  BY <1>6 DEF Envoyer, EnvoiEchoue, PasDe, reception, ligne
<1>7. CASE AppelerRemplir(t) \/ FinRemplir(t)
  <2>1. PICK de \in Places, vers \in {"libre", "remplit"} : Aller(t, de, vers)
    BY <1>7 DEF AppelerRemplir, FinRemplir, Places
  <2>2. pc'[t] = vers /\ \A u \in Taches \ {t} : pc'[u] = pc[u]
    BY <2>1, Pas DEF Places
  <2>. QED BY <1>7, <2>2 DEF AppelerRemplir, FinRemplir, PasDe, reception, ligne, SurTampon
<1>. QED BY <1>1, <1>2, <1>3, <1>4, <1>5, <1>6, <1>7

\* A step of one task, Tricoter apart.
LEMMA PasOrdinaire ==
  ASSUME TypeOK, NEW t \in Taches, Ordinaire(t)
  PROVE  PasDe(t)
  BY PasDeLire, PasDesAutres DEF Ordinaire

\* The tasks of a use are tasks; a step is one of theirs, before any crash.
LEMMA UnPas ==
  ASSUME TypeOK, Next
  PROVE  ~plante /\ \E t \in script.taches : t \in Taches /\ (Ordinaire(t) \/ Tricoter(t))
<1>1. \A t \in script.taches : t \in Taches
  BY Usage, Parties DEF TypesConnexion
<1>. QED BY <1>1 DEF Next, Ordinaire

\* Fin goes back to NULL at the end of LireLigne, and an empty buffer stays one.
LEMMA OrdreDuPas ==
  ASSUME TypeOK, Ordre, NEW t \in Taches, Ordinaire(t)
  PROVE  (~alloue' => lTampon' = 0) /\ (pc'[t] \notin ParLigne => Fin'[t] = -1)
<1>1. CASE AppelerLireLigne(t)
  BY <1>1, Pas DEF AppelerLireLigne, tampon, ligne, Places, Ordre, ParLigne
<1>2. CASE Chercher(t)
  <2>1. PICK vers \in {"prend", "lit"} : Aller(t, "cherche", vers)
    BY <1>2 DEF Chercher
  <2>. QED BY <1>2, <2>1, Pas DEF Chercher, tampon, Places, Ordre, ParLigne
<1>3. CASE LireFermee(t) \/ RecevoirEchoue(t) \/ ViderEchoue(t) \/ ViderAilleurs(t)
  <2>1. PICK de : Lancer(t, de)
    BY <1>3 DEF LireFermee, RecevoirEchoue, ViderEchoue, ViderAilleurs
  <2>. QED BY <2>1, Oubli DEF Lancer, tampon, Ordre
<1>4. CASE Preparer(t)
  BY <1>4, Pas DEF Preparer, Places, Ordre, ParLigne
<1>5. CASE Recevoir(t)
  BY <1>5, Pas DEF Recevoir, Places, Ordre, ParLigne
<1>6. CASE CopierLigne(t)
  BY <1>6, Pas DEF CopierLigne, tampon, Places, Ordre, ParLigne
<1>7. CASE RetirerLigne(t)
  <2>1. ~alloue => lTampon = 0 /\ lTampon' \in {0, lTampon}
    BY <1>7, Parties, Constantes DEF Ordre, RetirerLigne, TypesTaches
  <2>. QED BY <1>7, <2>1, Oubli DEF RetirerLigne
<1>8. CASE AppelerVider(t)
  <2>1. pc[t] = "libre"
    BY <1>8 DEF AppelerVider, Aller
  <2>. QED BY <1>8, <2>1 DEF AppelerVider, tampon, ligne, Ordre, ParLigne
<1>9. CASE ViderTampon(t) \/ RendreSocket(t)
  BY <1>9, Oubli DEF ViderTampon, ApresVider, RendreSocket, tampon, Ordre
<1>10. CASE ViderSocket(t)
  BY <1>10 DEF ViderSocket, Aller, tampon, ligne, Ordre, ParLigne
<1>11. CASE Fermer(t)
  BY <1>11 DEF Fermer, tampon, ligne, Ordre
<1>12. CASE AppelerRemplir(t) \/ Envoyer(t) \/ EnvoiEchoue(t) \/ FinRemplir(t)
  BY <1>12 DEF AppelerRemplir, Envoyer, EnvoiEchoue, FinRemplir, reception, tampon, ligne,
               Aller, Ordre, ParLigne
<1>. QED BY <1>1, <1>2, <1>3, <1>4, <1>5, <1>6, <1>7, <1>8, <1>9, <1>10, <1>11, <1>12
     DEF Ordinaire

\* Ordre and Exclusif are inductive.
LEMMA OrdreGarde ==
  ASSUME TypeOK, Ordre, Exclusif, [Next]_vars
  PROVE  Ordre' /\ Exclusif'
<1>1. CASE UNCHANGED vars
  BY <1>1 DEF vars, Ordre, Exclusif
<1>2. ASSUME NEW t \in script.taches, t \in Taches, Ordinaire(t) PROVE Ordre' /\ Exclusif'
  <2>1. PasDe(t)
    BY <1>2, PasOrdinaire
  <2>2. Ordre'
    BY <1>2, <2>1, OrdreDuPas DEF PasDe, Ordre
  <2>3. Exclusif'
    <3>1. SUFFICES ASSUME ~melange', NEW u \in Taches, NEW v \in Taches, u # v,
                          pc'[u] \in SurTampon, pc'[v] \in SurTampon
                   PROVE  FALSE
      BY DEF Exclusif
    <3>2. ~(pc[u] \in SurTampon /\ pc[v] \in SurTampon)
      BY <2>1, <3>1 DEF PasDe, Exclusif
    <3>3. CASE u = t
      BY <2>1, <3>1, <3>2, <3>3 DEF PasDe, Autres
    <3>4. CASE v = t
      BY <2>1, <3>1, <3>2, <3>4 DEF PasDe, Autres
    <3>5. CASE u # t /\ v # t
      BY <2>1, <3>1, <3>2, <3>5 DEF PasDe
    <3>. QED BY <3>3, <3>4, <3>5
  <2>. QED BY <2>2, <2>3
<1>3. ASSUME NEW t \in script.taches, t \in Taches, Tricoter(t) PROVE Ordre' /\ Exclusif'
  <2>1. /\ script' = script /\ Fin' = Fin /\ lTampon' = 0
        /\ pc' = [w \in Taches |-> IF pc[w] \in {"attend", "rend"} THEN "ailleurs" ELSE pc[w]]
        /\ ~melange' => ~melange
    BY <1>3 DEF Tricoter, ligne, Entrer
  <2>2. \A w \in Taches : pc'[w] \in SurTampon => pc[w] \in SurTampon
    BY <2>1 DEF SurTampon
  <2>3. Exclusif'
    BY <2>1, <2>2 DEF Exclusif
  <2>4. Ordre'
    BY <2>1 DEF Ordre, ParLigne
  <2>. QED BY <2>3, <2>4
<1>. QED BY <1>1, <1>2, <1>3, UnPas

-----------------------------------------------------------------------------
(* What a task has seen of the buffer. *)

Vu(t) ==
  /\ pc[t] = "cherche" /\ lTampon = 0 /\ ~plante => Fin[t] = -1
  /\ pc[t] = "recoit" => ici[t] = lTampon
  /\ pc[t] \in {"prend", "retire"} =>
       /\ Fin[t] \in 0 .. lTampon /\ p[t] = Fin[t] + 1 /\ FinDeLigne(Fin[t])
       /\ \A i \in 0 .. Fin[t] - 1 : ~FinDeLigne(i)
  /\ pc[t] = "retire" => ret[t] = Contenu(p[t])
  /\ pc[t] = "vide" => ret[t] = Contenu(lTampon)

\* As long as two tasks have not used the buffer at the same time.
ToutVu == ~melange => \A t \in Taches : Vu(t)

\* A step of another task does not disturb it.
LEMMA VuDeLoin ==
  ASSUME TypeOK, Exclusif, NEW t \in Taches, NEW u \in Taches, u # t, PasDe(u),
         ~melange', ~plante, Vu(t)
  PROVE  Vu(t)'
<1>1. /\ pc'[t] = pc[t] /\ Fin'[t] = Fin[t] /\ p'[t] = p[t] /\ ici'[t] = ici[t]
      /\ ret'[t] = ret[t] /\ Fins' = Fins
  BY DEF PasDe
<1>2. CASE pc[t] \notin SurTampon
  BY <1>1, <1>2 DEF Vu, SurTampon
<1>3. CASE pc[t] \in SurTampon
  <2>1. UNCHANGED tampon
    BY <1>3 DEF PasDe, Exclusif
  <2>. QED BY <1>1, <2>1 DEF Vu, tampon, FinDeLigne, Cellules, Contenu
<1>. QED BY <1>2, <1>3

\* The search finds the first '\n', in the buffer or in the cell after it.
LEMMA VuChercher ==
  ASSUME TypeOK, Ordre, NEW t \in Taches, Chercher(t), ~plante, Vu(t)
  PROVE  Vu(t)'
<1>. DEFINE plein == alloue /\ lTampon # 0
<1>. DEFINE f == IF plein THEN Position ELSE Fin[t]
<1>1. /\ UNCHANGED <<Fins, lTampon, Tampon>>
      /\ pc[t] = "cherche" /\ pc'[t] = IF FinDeLigne(f) THEN "prend" ELSE "lit"
      /\ Fin'[t] = f
      /\ p'[t] = IF plein THEN f + (IF FinDeLigne(f) THEN 1 ELSE 0) ELSE p[t]
  BY Parties DEF Chercher, Aller, tampon, liaison, TypesTaches
<1>2. ASSUME FinDeLigne(f)
      PROVE  f \in 0 .. lTampon /\ p'[t] = f + 1 /\ \A i \in 0 .. f - 1 : ~FinDeLigne(i)
  <2>1. plein
    <3>1. SUFFICES ASSUME ~plein PROVE FALSE
      OBVIOUS
    <3>2. f = -1
      BY <1>1, <3>1 DEF Vu, Ordre
    <3>. QED BY <1>2, <3>2, Constantes DEF FinDeLigne, Cellules
  <2>2. f = Position /\ p'[t] = f + 1
    BY <1>1, <1>2, <2>1
  <2>3. f \in 0 .. lTampon /\ \A i \in 0 .. lTampon - 1 : FinDeLigne(i) => f <= i
    BY <2>2, Nombres, Recherche
  <2>4. ASSUME NEW i \in 0 .. f - 1, FinDeLigne(i) PROVE FALSE
    <3>1. i \in 0 .. lTampon - 1 /\ i < f /\ i \in Int /\ f \in Int
      BY <2>3, Nombres
    <3>2. f <= i
      BY <2>3, <2>4, <3>1
    <3>. QED BY <3>1, <3>2
  <2>. QED BY <2>2, <2>3, <2>4
<1>. HIDE DEF f
<1>3. CASE FinDeLigne(f)
  BY <1>1, <1>2, <1>3 DEF Vu, FinDeLigne, Cellules
<1>4. CASE ~FinDeLigne(f)
  BY <1>1, <1>4 DEF Vu
<1>. QED BY <1>3, <1>4

\* A step of the task itself.
LEMMA VuDePres ==
  ASSUME TypeOK, Ordre, NEW t \in Taches, Ordinaire(t), ~plante, Vu(t)
  PROVE  Vu(t)'
<1>1. CASE AppelerLireLigne(t)
  <2>1. pc[t] = "libre" /\ pc'[t] = "cherche" /\ Fin' = Fin
    BY <1>1, Pas DEF AppelerLireLigne, ligne, Places
  <2>. QED BY <2>1 DEF Vu, Ordre, ParLigne
<1>2. CASE Chercher(t)
  BY <1>2, VuChercher
<1>3. CASE LireFermee(t) \/ RecevoirEchoue(t) \/ ViderEchoue(t) \/ ViderAilleurs(t)
  <2>1. pc'[t] = "libre"
    BY <1>3, Parties
    DEF LireFermee, RecevoirEchoue, ViderEchoue, ViderAilleurs, Lancer, Aller, TypesTaches
  <2>. QED BY <2>1 DEF Vu
<1>4. CASE Preparer(t)
  <2>1. pc'[t] = "recoit" /\ ici'[t] = lTampon /\ lTampon' = lTampon
    BY <1>4, Parties DEF Preparer, Aller, TypesTaches
  <2>. QED BY <2>1 DEF Vu
<1>5. CASE Recevoir(t)
  <2>1. pc'[t] = "cherche"
    BY <1>5, Pas DEF Recevoir, Places
  <2>2. plante' \/ lTampon' # 0
    <3>1. PICK n \in Arrivees : plante' = TRUE \/ lTampon' = LongueurApres(n)
      BY <1>5 DEF Recevoir
    <3>. QED BY <3>1, Arrivent, Nombres DEF LongueurApres
  <2>. QED BY <2>1, <2>2 DEF Vu
<1>6. CASE CopierLigne(t)
  <2>1. /\ pc[t] = "prend" /\ pc'[t] = "retire" /\ ret'[t] = Contenu(p[t])
        /\ UNCHANGED <<Fin, p, Fins, lTampon, Tampon>>
    BY <1>6, Parties DEF CopierLigne, Aller, ligne, tampon, liaison, TypesTaches
  <2>. QED BY <2>1 DEF Vu, FinDeLigne, Cellules, Contenu
<1>7. CASE RetirerLigne(t) \/ ViderTampon(t) \/ RendreSocket(t)
  <2>1. pc'[t] = "libre"
    BY <1>7, Parties DEF RetirerLigne, ViderTampon, RendreSocket, Aller, TypesTaches
  <2>. QED BY <2>1 DEF Vu
<1>8. CASE AppelerVider(t)
  <2>1. CASE lTampon # 0
    <3>1. pc'[t] = "vide" /\ ret'[t] = Contenu(lTampon) /\ lTampon' = lTampon /\ Tampon' = Tampon
      BY <1>8, <2>1, Parties DEF AppelerVider, Aller, tampon, TypesTaches
    <3>. QED BY <3>1 DEF Vu, Contenu
  <2>2. CASE lTampon = 0
    <3>1. pc'[t] = "attend"
      BY <1>8, <2>2, Parties DEF AppelerVider, Aller, TypesTaches
    <3>. QED BY <3>1 DEF Vu
  <2>. QED BY <2>1, <2>2
<1>9. CASE ViderSocket(t)
  <2>1. pc'[t] = "rend"
    BY <1>9, Parties DEF ViderSocket, Aller, TypesTaches
  <2>. QED BY <2>1 DEF Vu
<1>10. CASE Fermer(t)
  BY <1>10 DEF Fermer, Vu, tampon, ligne, liaison, FinDeLigne, Cellules, Contenu
<1>11. CASE AppelerRemplir(t) \/ Envoyer(t) \/ EnvoiEchoue(t) \/ FinRemplir(t)
  <2>1. pc'[t] \in {"libre", "remplit"}
    BY <1>11, Parties
    DEF AppelerRemplir, Envoyer, EnvoiEchoue, FinRemplir, Aller, TypesTaches
  <2>. QED BY <2>1 DEF Vu
<1>. QED BY <1>1, <1>2, <1>3, <1>4, <1>5, <1>6, <1>7, <1>8, <1>9, <1>10, <1>11
     DEF Ordinaire

\* Tricoter under a task that uses the buffer mixes them; the others have nothing to see.
LEMMA VuTricoter ==
  ASSUME TypeOK, NEW t \in Taches, Tricoter(t), ~melange', NEW u \in Taches
  PROVE  Vu(u)'
<1>1. pc[u] \notin SurTampon
  BY DEF Tricoter, Entrer, Autres, SurTampon
<1>2. pc'[u] \in {"ailleurs", pc[u]}
  BY DEF Tricoter
<1>. QED BY <1>1, <1>2 DEF Vu, SurTampon

\* ToutVu is inductive.
LEMMA ToutVuGarde ==
  ASSUME TypeOK, Ordre, Exclusif, ToutVu, [Next]_vars
  PROVE  ToutVu'
<1>. SUFFICES ASSUME ~melange', NEW u \in Taches PROVE Vu(u)'
  BY DEF ToutVu
<1>1. CASE UNCHANGED vars
  BY <1>1 DEF vars, ToutVu, Vu, FinDeLigne, Cellules, Contenu
<1>2. ASSUME NEW t \in Taches, Ordinaire(t), ~plante PROVE Vu(u)'
  <2>1. PasDe(t)
    BY <1>2, PasOrdinaire
  <2>2. Vu(u)
    BY <2>1 DEF PasDe, ToutVu
  <2>. QED BY <1>2, <2>1, <2>2, VuDePres, VuDeLoin
<1>. QED BY <1>1, <1>2, UnPas, VuTricoter

-----------------------------------------------------------------------------
(* Where the bytes are. *)

\* Returned to the script or in the buffer.
Connus == livres \o Contenu(lTampon)

\* The strings of the steps.
LEMMA Chaines ==
  ASSUME TypeOK
  PROVE  /\ livres \in Seq(0 .. Octets)
         /\ Contenu(lTampon) \in Seq(0 .. Octets) /\ Len(Contenu(lTampon)) = lTampon
         /\ Connus \in Seq(0 .. Octets) /\ Len(Connus) = Len(livres) + lTampon
         /\ \A t \in Taches : ret[t] \in Seq(0 .. Octets)
<1>1. Contenu(lTampon) \in Seq(0 .. Octets) /\ Len(Contenu(lTampon)) = lTampon
  BY Nombres, Copie
<1>2. Connus \in Seq(0 .. Octets) /\ Len(Connus) = Len(livres) + lTampon
  BY <1>1, Nombres, ConcatProperties DEF Connus
<1>. QED BY <1>1, <1>2, Nombres, Parties DEF TypesTaches

\* Two strings put one after the other.
LEMMA Concat ==
  ASSUME NEW s \in Seq(0 .. Octets), NEW u \in Seq(0 .. Octets)
  PROVE  /\ s \o u \in Seq(0 .. Octets) /\ Len(s \o u) = Len(s) + Len(u)
         /\ \A k \in 1 .. Len(s) + Len(u) :
              (s \o u)[k] = IF k <= Len(s) THEN s[k] ELSE u[k - Len(s)]
  BY ConcatProperties

\* Three strings.
LEMMA Concat3 ==
  ASSUME NEW s \in Seq(0 .. Octets), NEW u \in Seq(0 .. Octets), NEW v \in Seq(0 .. Octets)
  PROVE  s \o (u \o v) = (s \o u) \o v
<1>1. (s \o u) \o v = s \o (u \o v)
  BY ConcatAssociative, SMTT(20)
<1>. QED BY <1>1

\* recv writes after the bytes of the buffer.
LEMMA ConnusRecevoir ==
  ASSUME TypeOK, TypeOK', NEW t \in Taches, Recevoir(t), ici[t] = lTampon, ~plante'
  PROVE  \E n \in Arrivees :
           recus' = recus + n /\ Connus' = Connus \o Suite(recus + 1, recus + n)
<1>1. PICK n \in Arrivees :
       /\ Tampon' = [i \in Cellules |-> IF i \in lTampon .. lTampon + n - 1
                                       THEN recus + 1 + i - lTampon ELSE Tampon[i]]
       /\ lTampon' = lTampon + n /\ recus' = recus + n
  BY DEF Recevoir, LongueurApres
<1>2. n \in Nat /\ recus \in Nat /\ recus + n <= Octets /\ lTampon \in Nat
  BY Arrivent, Nombres
<1>. DEFINE C == Contenu(lTampon)
<1>. DEFINE D == Contenu(lTampon)'
<1>. DEFINE S == Suite(recus + 1, recus + n)
<1>3. /\ S \in Seq(0 .. Octets) /\ Len(S) = n /\ \A k \in 1 .. n : S[k] = recus + k
  BY <1>2, Suivants
<1>4. /\ C \in Seq(0 .. Octets) /\ Len(C) = lTampon /\ \A k \in 1 .. lTampon : C[k] = Tampon[k - 1]
  <2>1. lTampon \in 0 .. Memoire
    BY Nombres
  <2>. QED BY <2>1, Copie
<1>5. lTampon' \in 0 .. Memoire /\ lTampon + n <= Memoire /\ Memoire \in Nat
  <2>1. lTampon' \in 0 .. aTampon' /\ aTampon' \in 0 .. Memoire
    BY DEF TypeOK
  <2>. QED BY <1>1, <1>2, <2>1, Constantes
<1>6. /\ D \in Seq(0 .. Octets) /\ Len(D) = lTampon + n
      /\ \A k \in 1 .. lTampon + n : D[k] = Tampon'[k - 1]
  <2>1. D = [k \in 1 .. lTampon + n |-> Tampon'[k - 1]]
    BY <1>1 DEF Contenu
  <2>2. \A k \in 1 .. lTampon + n : Tampon'[k - 1] \in 0 .. Octets
    <3>1. \A k \in 1 .. lTampon + n : k - 1 \in Cellules
      BY <1>2, <1>5 DEF Cellules
    <3>2. Tampon' \in [Cellules -> 0 .. Octets]
      BY DEF TypeOK, Cellules
    <3>. QED BY <3>1, <3>2
  <2>3. D \in [1 .. lTampon + n -> 0 .. Octets]
    BY <2>1, <2>2
  <2>4. lTampon + n \in Nat
    BY <1>2
  <2>5. \A k \in 1 .. lTampon + n : D[k] = Tampon'[k - 1]
    BY <2>1
  <2>. HIDE DEF D
  <2>6. D \in Seq(0 .. Octets)
    BY <2>3, <2>4, SeqDef
  <2>7. Len(D) = lTampon + n
    BY <2>3, <2>4, <2>6, LenProperties
  <2>. QED BY <2>5, <2>6, <2>7
<1>7. D = C \o S
  <2>. HIDE DEF C, D, S
  <2>1. /\ C \o S \in Seq(0 .. Octets) /\ Len(C \o S) = lTampon + n
        /\ \A k \in 1 .. lTampon + n : (C \o S)[k] = IF k <= lTampon THEN C[k] ELSE S[k - lTampon]
    <3>1. /\ C \o S \in Seq(0 .. Octets) /\ Len(C \o S) = Len(C) + Len(S)
          /\ \A k \in 1 .. Len(C) + Len(S) :
               (C \o S)[k] = IF k <= Len(C) THEN C[k] ELSE S[k - Len(C)]
      BY <1>3, <1>4, Concat
    <3>. QED BY <1>3, <1>4, <3>1, Zenon
  <2>2. ASSUME NEW k \in 1 .. lTampon + n PROVE D[k] = (C \o S)[k]
    <3>1. k - 1 \in Cellules /\ k \in Nat /\ k >= 1
      BY <1>2, <1>5 DEF Cellules
    <3>2. CASE k <= lTampon
      <4>1. k - 1 \notin lTampon .. lTampon + n - 1 /\ k \in 1 .. lTampon
        BY <1>2, <3>1, <3>2
      <4>. QED BY <1>1, <1>4, <1>6, <2>1, <3>1, <3>2, <4>1
    <3>3. CASE k > lTampon
      <4>1. k - 1 \in lTampon .. lTampon + n - 1 /\ k - lTampon \in 1 .. n /\ ~(k <= lTampon)
        BY <1>2, <3>1, <3>3
      <4>2. Tampon'[k - 1] = recus + 1 + (k - 1) - lTampon
        BY <1>1, <3>1, <4>1
      <4>3. (C \o S)[k] = recus + (k - lTampon)
        BY <1>3, <2>1, <4>1
      <4>4. recus + 1 + (k - 1) - lTampon = recus + (k - lTampon)
        BY <1>2, <3>1
      <4>. QED BY <1>6, <4>2, <4>3, <4>4
    <3>4. k <= lTampon \/ k > lTampon
      BY <1>2, <3>1
    <3>. QED BY <3>2, <3>3, <3>4
  <2>. QED BY <1>6, <2>1, <2>2, SeqEqual
<1>8. Connus' = livres \o D
  BY DEF Connus, Recevoir
<1>9. Connus' = Connus \o S
  <2>. HIDE DEF C, D, S
  <2>1. Connus = livres \o C
    BY DEF Connus, C
  <2>2. livres \o (C \o S) = (livres \o C) \o S
    BY <1>3, <1>4, Nombres, Concat3
  <2>. QED BY <1>7, <1>8, <2>1, <2>2
<1>. QED BY <1>1, <1>9

\* The line taken out is what was before the rest.
LEMMA ConnusRetirer ==
  ASSUME TypeOK, TypeOK', NEW t \in Taches, RetirerLigne(t), ret[t] = Contenu(p[t]), ~plante'
  PROVE  Connus' = Connus /\ recus' = recus
<1>1. /\ p[t] <= lTampon /\ lTampon' = lTampon - p[t] /\ recus' = recus
      /\ Tampon' = [i \in Cellules |-> IF i < lTampon - p[t] THEN Tampon[i + p[t]] ELSE Tampon[i]]
      /\ livres' = livres \o ret[t]
  BY DEF RetirerLigne
<1>. DEFINE C == Contenu(lTampon)
<1>. DEFINE D == Contenu(lTampon)'
<1>2. PICK n \in 0 .. Memoire : n = p[t]
  BY Parties DEF TypesTaches
<1>3. PICK r \in Seq(0 .. Octets) :
        r = ret[t] /\ Len(r) = n /\ \A k \in 1 .. n : r[k] = Tampon[k - 1]
  BY <1>2, Copie
<1>4. /\ C \in Seq(0 .. Octets) /\ Len(C) = lTampon /\ \A k \in 1 .. lTampon : C[k] = Tampon[k - 1]
  BY Nombres, Copie
<1>5. /\ lTampon \in Nat /\ n \in Nat /\ n <= lTampon /\ lTampon - n \in Nat
      /\ lTampon <= Memoire /\ Memoire \in Nat
  BY <1>1, <1>2, Nombres
<1>6. /\ D \in Seq(0 .. Octets) /\ Len(D) = lTampon - n
      /\ \A k \in 1 .. lTampon - n : D[k] = Tampon[k - 1 + n]
  <2>1. D = [k \in 1 .. lTampon - n |-> Tampon'[k - 1]]
    BY <1>1, <1>2 DEF Contenu
  <2>2. ASSUME NEW k \in 1 .. lTampon - n
        PROVE  Tampon'[k - 1] = Tampon[k - 1 + n] /\ Tampon[k - 1 + n] \in 0 .. Octets
    <3>1. k - 1 \in Cellules /\ k - 1 + n \in Cellules /\ k - 1 < lTampon - n
      BY <1>5 DEF Cellules
    <3>. QED BY <1>1, <1>2, <3>1, Parties DEF TypesTampon
  <2>3. D \in [1 .. lTampon - n -> 0 .. Octets]
    BY <2>1, <2>2
  <2>4. \A k \in 1 .. lTampon - n : D[k] = Tampon[k - 1 + n]
    BY <2>1, <2>2
  <2>. HIDE DEF D
  <2>5. D \in Seq(0 .. Octets)
    BY <1>5, <2>3, SeqDef
  <2>6. Len(D) = lTampon - n
    BY <1>5, <2>3, <2>5, LenProperties
  <2>. QED BY <2>4, <2>5, <2>6
<1>. HIDE DEF C, D
<1>7. C = r \o D
  <2>1. /\ r \o D \in Seq(0 .. Octets) /\ Len(r \o D) = n + (lTampon - n)
        /\ \A k \in 1 .. n + (lTampon - n) : (r \o D)[k] = IF k <= n THEN r[k] ELSE D[k - n]
    <3>1. /\ r \o D \in Seq(0 .. Octets) /\ Len(r \o D) = Len(r) + Len(D)
          /\ \A k \in 1 .. Len(r) + Len(D) :
               (r \o D)[k] = IF k <= Len(r) THEN r[k] ELSE D[k - Len(r)]
      BY <1>3, <1>6, Concat
    <3>. QED BY <1>3, <1>6, <3>1, Zenon
  <2>2. n + (lTampon - n) = lTampon
    BY <1>5
  <2>3. ASSUME NEW k \in 1 .. lTampon PROVE C[k] = (r \o D)[k]
    <3>1. CASE k <= n
      <4>1. k \in 1 .. n /\ k \in 1 .. n + (lTampon - n)
        BY <1>5, <2>2, <3>1
      <4>2. (r \o D)[k] = r[k]
        BY <2>1, <3>1, <4>1
      <4>. QED BY <1>3, <1>4, <4>1, <4>2
    <3>2. CASE k > n
      <4>1. k - n \in 1 .. lTampon - n /\ k - n - 1 + n = k - 1 /\ ~(k <= n)
        BY <1>5, <3>2
      <4>. QED BY <1>4, <1>6, <2>1, <2>2, <4>1
    <3>3. k <= n \/ k > n
      BY <1>5
    <3>. QED BY <3>1, <3>2, <3>3
  <2>. QED BY <1>4, <2>1, <2>2, <2>3, SeqEqual
<1>8. Connus' = (livres \o r) \o D /\ Connus = livres \o C
  BY <1>1, <1>3 DEF Connus, C, D
<1>9. livres \o (r \o D) = (livres \o r) \o D
  BY <1>3, <1>6, Nombres, Concat3
<1>. QED BY <1>1, <1>7, <1>8, <1>9

\* Vider returns the whole buffer.
LEMMA ConnusVider ==
  ASSUME TypeOK, NEW t \in Taches, ViderTampon(t), ret[t] = Contenu(lTampon)
  PROVE  Connus' = Connus /\ recus' = recus
<1>1. lTampon' = 0 /\ livres' = livres \o Contenu(lTampon) /\ recus' = recus
  BY DEF ViderTampon, ApresVider
<1>2. Contenu(lTampon)' = <<>>
  BY <1>1 DEF Contenu
<1>3. livres' \in Seq(0 .. Octets)
  BY <1>1, Chaines DEF Connus
<1>. QED BY <1>1, <1>2, <1>3, ConcatEmptySeq DEF Connus

\* The other steps leave the bytes where they are.
LEMMA ConnusImmobile ==
  ASSUME NEW t,
         \/ AppelerLireLigne(t) \/ Chercher(t) \/ LireFermee(t) \/ Preparer(t)
         \/ RecevoirEchoue(t) \/ CopierLigne(t) \/ AppelerVider(t)
         \/ ViderEchoue(t) \/ ViderAilleurs(t) \/ Fermer(t)
         \/ AppelerRemplir(t) \/ Envoyer(t) \/ EnvoiEchoue(t) \/ FinRemplir(t)
  PROVE  UNCHANGED <<livres, lTampon, Tampon, recus>> /\ Connus' = Connus
<1>1. UNCHANGED <<livres, lTampon, Tampon, recus>>
  BY DEF AppelerLireLigne, Chercher, LireFermee, Preparer, RecevoirEchoue, CopierLigne,
         AppelerVider, ViderEchoue, ViderAilleurs, Fermer, Lancer, AppelerRemplir, Envoyer,
         EnvoiEchoue, FinRemplir, reception, tampon, liaison
<1>. QED BY <1>1 DEF Connus, Contenu

\* A new connection starts without bytes.
LEMMA ConnusTricoter ==
  ASSUME NEW t, Tricoter(t)
  PROVE  Connus' = <<>> /\ recus' = 0
<1>1. livres' = <<>> /\ lTampon' = 0 /\ recus' = 0
  BY DEF Tricoter
<1>2. Contenu(lTampon)' = <<>>
  BY <1>1 DEF Contenu
<1>3. <<>> \o <<>> = <<>>
  BY EmptySeq, ConcatEmptySeq
<1>. QED BY <1>1, <1>2, <1>3 DEF Connus

-----------------------------------------------------------------------------
(* One task. *)

\* What was returned, what the call holds and what is in the buffer are the bytes
\* that arrived, in order.
Suivi(t) ==
  ~plante =>
    /\ pc[t] \in {"attend", "rend"} => lTampon = 0
    /\ pc[t] = "rend" => livres \o ret[t] = Suite(1, recus)
    /\ pc[t] # "rend" => Connus = Suite(1, recus)

\* One task meets nobody and loses nothing.
Seul == \A t \in Taches : script.taches = {t} => ~melange /\ Suivi(t)

\* A run of bytes after another.
LEMMA SuiteRallongee ==
  ASSUME NEW i \in Nat, NEW n \in Nat, i + n <= Octets
  PROVE  Suite(1, i) \o Suite(i + 1, i + n) = Suite(1, i + n)
<1>. DEFINE A == Suite(1, i)
<1>. DEFINE B == Suite(i + 1, i + n)
<1>. DEFINE C == Suite(1, i + n)
<1>1. i <= Octets /\ 0 \in Nat /\ i + n \in Nat /\ 0 + i = i /\ 0 + (i + n) = i + n /\ 0 + 1 = 1
  BY Constantes
<1>2. A \in Seq(0 .. Octets) /\ Len(A) = i /\ \A k \in 1 .. i : A[k] = k
  <2>1. /\ Suite(0 + 1, 0 + i) \in Seq(0 .. Octets) /\ Len(Suite(0 + 1, 0 + i)) = i
        /\ \A k \in 1 .. i : Suite(0 + 1, 0 + i)[k] = 0 + k
    BY <1>1, Suivants
  <2>. QED BY <1>1, <2>1
<1>3. B \in Seq(0 .. Octets) /\ Len(B) = n /\ \A k \in 1 .. n : B[k] = i + k
  BY Suivants
<1>4. C \in Seq(0 .. Octets) /\ Len(C) = i + n /\ \A k \in 1 .. i + n : C[k] = k
  <2>1. /\ Suite(0 + 1, 0 + (i + n)) \in Seq(0 .. Octets) /\ Len(Suite(0 + 1, 0 + (i + n))) = i + n
        /\ \A k \in 1 .. i + n : Suite(0 + 1, 0 + (i + n))[k] = 0 + k
    BY <1>1, Suivants
  <2>. QED BY <1>1, <2>1
<1>. HIDE DEF A, B, C
<1>5. /\ A \o B \in Seq(0 .. Octets) /\ Len(A \o B) = i + n
      /\ \A k \in 1 .. i + n : (A \o B)[k] = IF k <= i THEN A[k] ELSE B[k - i]
  <2>1. /\ A \o B \in Seq(0 .. Octets) /\ Len(A \o B) = Len(A) + Len(B)
        /\ \A k \in 1 .. Len(A) + Len(B) :
             (A \o B)[k] = IF k <= Len(A) THEN A[k] ELSE B[k - Len(A)]
    BY <1>2, <1>3, Concat
  <2>. QED BY <1>2, <1>3, <2>1
<1>6. ASSUME NEW k \in 1 .. i + n PROVE (A \o B)[k] = C[k]
  <2>1. CASE k <= i
    <3>1. k \in 1 .. i
      BY <2>1
    <3>. QED BY <1>2, <1>4, <1>5, <2>1, <3>1
  <2>2. CASE ~(k <= i)
    <3>1. k - i \in 1 .. n /\ i + (k - i) = k
      BY <2>2
    <3>2. (A \o B)[k] = B[k - i]
      BY <1>5, <2>2
    <3>. QED BY <1>3, <1>4, <3>1, <3>2
  <2>. QED BY <2>1, <2>2
<1>7. A \o B = C
  BY <1>4, <1>5, <1>6, SeqEqual
<1>. QED BY <1>7 DEF A, B, C

\* What a step does to melange.
LEMMA Rencontre ==
  ASSUME NEW t, Ordinaire(t) \/ Tricoter(t)
  PROVE  melange' => melange \/ Autres(t) # {}
<1>1. CASE AppelerLireLigne(t) \/ AppelerVider(t) \/ Tricoter(t)
  BY <1>1 DEF AppelerLireLigne, AppelerVider, Tricoter, Entrer
<1>2. CASE \/ Chercher(t) \/ LireFermee(t) \/ Preparer(t) \/ Recevoir(t) \/ RecevoirEchoue(t)
           \/ CopierLigne(t) \/ RetirerLigne(t)
  BY <1>2 DEF Chercher, LireFermee, Preparer, Recevoir, RecevoirEchoue, CopierLigne,
              RetirerLigne, Lancer
<1>3. CASE \/ ViderTampon(t) \/ ViderSocket(t) \/ RendreSocket(t) \/ ViderEchoue(t)
           \/ ViderAilleurs(t) \/ Fermer(t)
  BY <1>3 DEF ViderTampon, ViderSocket, RendreSocket, ViderEchoue, ViderAilleurs, Fermer, Lancer
<1>4. CASE AppelerRemplir(t) \/ Envoyer(t) \/ EnvoiEchoue(t) \/ FinRemplir(t)
  BY <1>4 DEF AppelerRemplir, Envoyer, EnvoiEchoue, FinRemplir, reception
<1>. QED BY <1>1, <1>2, <1>3, <1>4 DEF Ordinaire

\* An empty buffer.
LEMMA ConnusVide ==
  ASSUME TypeOK, lTampon = 0
  PROVE  Connus = livres
<1>1. Contenu(lTampon) = <<>>
  BY DEF Contenu
<1>. QED BY <1>1, Nombres, ConcatEmptySeq DEF Connus

\* The task's step keeps the bytes in order.
LEMMA SuiviDuPas ==
  ASSUME TypeOK, TypeOK', ~plante, NEW t \in Taches, Vu(t), Ordinaire(t), Suivi(t)
  PROVE  Suivi(t)'
<1>. SUFFICES ASSUME ~plante' PROVE Suivi(t)'
  BY DEF Suivi
<1>1. CASE \/ AppelerLireLigne(t) \/ Chercher(t) \/ LireFermee(t) \/ Preparer(t)
           \/ RecevoirEchoue(t) \/ CopierLigne(t) \/ AppelerVider(t)
           \/ ViderEchoue(t) \/ ViderAilleurs(t) \/ Fermer(t)
           \/ AppelerRemplir(t) \/ Envoyer(t) \/ EnvoiEchoue(t) \/ FinRemplir(t)
  <2>1. Connus' = Connus /\ recus' = recus /\ lTampon' = lTampon
    BY <1>1, ConnusImmobile
  <2>2. pc[t] # "rend" /\ pc'[t] # "rend" /\ (pc'[t] = "attend" => lTampon = 0)
    <3>1. CASE AppelerVider(t)
      BY <3>1, Parties DEF AppelerVider, Aller, TypesTaches
    <3>2. CASE Chercher(t)
      BY <3>2, Parties DEF Chercher, Aller, TypesTaches
    <3>3. CASE \/ AppelerLireLigne(t) \/ LireFermee(t) \/ Preparer(t)
               \/ RecevoirEchoue(t) \/ CopierLigne(t)
               \/ ViderEchoue(t) \/ ViderAilleurs(t) \/ Fermer(t)
               \/ AppelerRemplir(t) \/ Envoyer(t) \/ EnvoiEchoue(t) \/ FinRemplir(t)
      BY <3>3, Parties
      DEF AppelerLireLigne, LireFermee, Preparer, RecevoirEchoue, CopierLigne, ViderEchoue,
          ViderAilleurs, Fermer, AppelerRemplir, Envoyer, EnvoiEchoue, FinRemplir, Lancer,
          Aller, TypesTaches
    <3>. QED BY <1>1, <3>1, <3>2, <3>3
  <2>3. Suite(1, recus)' = Suite(1, recus)
    BY <2>1 DEF Suite
  <2>. QED BY <2>1, <2>2, <2>3 DEF Suivi
<1>2. CASE Recevoir(t)
  <2>1. pc[t] = "recoit" /\ pc'[t] = "cherche"
    BY <1>2, Pas DEF Recevoir, Places
  <2>2. PICK n \in Arrivees :
          recus' = recus + n /\ Connus' = Connus \o Suite(recus + 1, recus + n)
    BY <1>2, <2>1, ConnusRecevoir DEF Vu
  <2>3. Suite(1, recus) \o Suite(recus + 1, recus + n) = Suite(1, recus + n)
    <3>1. recus \in Nat /\ n \in Nat /\ recus + n <= Octets
      BY Arrivent, Nombres
    <3>. QED BY <3>1, SuiteRallongee
  <2>4. Connus' = Suite(1, recus')
    BY <2>1, <2>2, <2>3 DEF Suivi
  <2>. QED BY <2>1, <2>4 DEF Suivi, Suite
<1>3. CASE RetirerLigne(t)
  <2>1. pc[t] = "retire" /\ pc'[t] = "libre"
    BY <1>3, Pas DEF RetirerLigne, Places
  <2>2. Connus' = Connus /\ recus' = recus
    BY <1>3, <2>1, ConnusRetirer DEF Vu
  <2>. QED BY <2>1, <2>2 DEF Suivi, Suite
<1>4. CASE ViderTampon(t)
  <2>1. pc[t] = "vide" /\ pc'[t] = "libre"
    BY <1>4, Pas DEF ViderTampon, Places
  <2>2. Connus' = Connus /\ recus' = recus
    BY <1>4, <2>1, ConnusVider DEF Vu
  <2>. QED BY <2>1, <2>2 DEF Suivi, Suite
<1>5. CASE ViderSocket(t)
  <2>1. pc[t] = "attend" /\ pc'[t] = "rend" /\ livres' = livres /\ lTampon' = lTampon
    BY <1>5, Pas DEF ViderSocket, tampon, Places
  <2>2. lTampon = 0 /\ livres = Suite(1, recus)
    BY <2>1, ConnusVide DEF Suivi
  <2>3. PICK n \in Arrivees : recus' = recus + n /\ ret'[t] = Suite(recus + 1, recus + n)
    BY <1>5, Parties DEF ViderSocket, TypesTaches
  <2>4. Suite(1, recus) \o Suite(recus + 1, recus + n) = Suite(1, recus + n)
    <3>1. recus \in Nat /\ n \in Nat /\ recus + n <= Octets
      BY Arrivent, Nombres
    <3>. QED BY <3>1, SuiteRallongee
  <2>5. livres' \o ret'[t] = Suite(1, recus')
    BY <2>1, <2>2, <2>3, <2>4
  <2>. QED BY <2>1, <2>2, <2>5 DEF Suivi, Suite
<1>6. CASE RendreSocket(t)
  <2>1. /\ pc[t] = "rend" /\ pc'[t] = "libre" /\ livres' = livres \o ret[t]
        /\ lTampon' = lTampon /\ recus' = recus
    BY <1>6, Pas DEF RendreSocket, tampon, Places
  <2>2. lTampon' = 0 /\ livres' = Suite(1, recus)
    BY <2>1 DEF Suivi
  <2>3. Connus' = livres'
    <3>1. Contenu(lTampon)' = <<>>
      BY <2>2 DEF Contenu
    <3>2. livres' \in Seq(0 .. Octets)
      BY DEF TypeOK
    <3>. QED BY <3>1, <3>2, ConcatEmptySeq DEF Connus
  <2>. QED BY <2>1, <2>2, <2>3 DEF Suivi, Suite
<1>. QED BY <1>1, <1>2, <1>3, <1>4, <1>5, <1>6 DEF Ordinaire

\* Seul is inductive.
LEMMA SeulGarde ==
  ASSUME TypeOK, TypeOK', Ordre, ToutVu, Seul, [Next]_vars
  PROVE  Seul'
<1>1. CASE UNCHANGED vars
  <2>1. UNCHANGED <<script, melange, plante, pc, lTampon, livres, ret, recus, Tampon>>
    BY <1>1 DEF vars
  <2>. QED BY <2>1 DEF Seul, Suivi, Connus, Contenu, Suite
<1>2. ASSUME NEW u \in script.taches, u \in Taches, ~plante, Ordinaire(u) \/ Tricoter(u)
      PROVE  Seul'
  <2>1. script' = script
    <3>1. Ordinaire(u) => script' = script
      BY <1>2, PasOrdinaire DEF PasDe
    <3>2. Tricoter(u) => script' = script
      BY DEF Tricoter
    <3>. QED BY <1>2, <3>1, <3>2
  <2>2. SUFFICES ASSUME NEW t \in Taches, script.taches = {t} PROVE ~melange' /\ Suivi(t)'
    BY <2>1 DEF Seul
  <2>3. u = t /\ ~melange /\ Suivi(t) /\ Vu(t)
    BY <1>2, <2>2 DEF Seul, ToutVu
  <2>4. ~melange'
    <3>1. Autres(t) = {}
      BY <2>2 DEF Ordre, Autres, SurTampon
    <3>. QED BY <1>2, <2>3, <3>1, Rencontre
  <2>5. CASE Ordinaire(u)
    BY <1>2, <2>3, <2>4, <2>5, SuiviDuPas
  <2>6. CASE Tricoter(u)
    <3>1. pc[t] = "libre" /\ pc'[t] = "libre"
      BY <2>3, <2>6 DEF Tricoter
    <3>2. Connus' = <<>> /\ recus' = 0
      BY <2>6, ConnusTricoter
    <3>3. Suite(1, recus)' = <<>>
      BY <3>2 DEF Suite
    <3>. QED BY <2>4, <3>1, <3>2, <3>3 DEF Suivi
  <2>. QED BY <1>2, <2>5, <2>6
<1>. QED BY <1>1, <1>2, UnPas

-----------------------------------------------------------------------------
(* Several tasks. *)

\* The string a Vider has read from the socket and not returned.
Tenu(t) == IF pc[t] = "rend" THEN ret[t] ELSE <<>>

\* No byte twice.
UneFois(s) == \A i, j \in 1 .. Len(s) : s[i] = s[j] => i = j

\* The bytes that arrived are known or held by one task.
Reparties ==
  /\ UneFois(Connus) /\ \A t \in Taches : UneFois(Tenu(t))
  /\ \A t \in Taches : ToSet(Tenu(t)) \cap ToSet(Connus) = {}
  /\ \A t, u \in Taches : t # u => ToSet(Tenu(t)) \cap ToSet(Tenu(u)) = {}
  /\ ToSet(Connus) \subseteq 1 .. recus /\ \A t \in Taches : ToSet(Tenu(t)) \subseteq 1 .. recus
  /\ \A x \in 1 .. recus : x \in ToSet(Connus) \/ \E t \in Taches : x \in ToSet(Tenu(t))

\* As long as two tasks have not used the buffer at the same time.
Partages == ~melange /\ ~plante => Reparties

\* The bytes of a string are those at its places.
LEMMA Membres ==
  ASSUME NEW s \in Seq(0 .. Octets)
  PROVE  \A x : x \in ToSet(s) <=> \E k \in 1 .. Len(s) : s[k] = x
  BY LenProperties DEF ToSet

\* The bytes of two strings put one after the other.
LEMMA Reunion ==
  ASSUME NEW s \in Seq(0 .. Octets), NEW u \in Seq(0 .. Octets)
  PROVE  /\ ToSet(s \o u) = ToSet(s) \cup ToSet(u)
         /\ UneFois(s \o u) <=> UneFois(s) /\ UneFois(u) /\ ToSet(s) \cap ToSet(u) = {}
<1>1. PICK v \in Seq(0 .. Octets) : v = s \o u
  BY Concat
<1>2. /\ Len(v) = Len(s) + Len(u)
      /\ \A k \in 1 .. Len(s) + Len(u) : v[k] = IF k <= Len(s) THEN s[k] ELSE u[k - Len(s)]
  BY <1>1, Concat
<1>3. Len(s) \in Nat /\ Len(u) \in Nat
  BY LenProperties
<1>4. \A k \in 1 .. Len(s) : k \in 1 .. Len(v) /\ v[k] = s[k]
  BY <1>2, <1>3
<1>5. ASSUME NEW k \in 1 .. Len(u) PROVE Len(s) + k \in 1 .. Len(v) /\ v[Len(s) + k] = u[k]
  <2>1. Len(s) + k \in 1 .. Len(s) + Len(u) /\ ~(Len(s) + k <= Len(s)) /\ Len(s) + k - Len(s) = k
    BY <1>3
  <2>. QED BY <1>2, <2>1
<1>6. ASSUME NEW k \in 1 .. Len(v)
      PROVE  k \in 1 .. Len(s) \/ \E j \in 1 .. Len(u) : k = Len(s) + j
  <2>1. CASE k > Len(s)
    <3>1. k - Len(s) \in 1 .. Len(u) /\ k = Len(s) + (k - Len(s))
      BY <1>2, <1>3, <2>1
    <3>. QED BY <3>1
  <2>. QED BY <1>2, <1>3, <2>1
<1>7. /\ \A x : x \in ToSet(v) <=> \E k \in 1 .. Len(v) : v[k] = x
      /\ \A x : x \in ToSet(s) <=> \E k \in 1 .. Len(s) : s[k] = x
      /\ \A x : x \in ToSet(u) <=> \E k \in 1 .. Len(u) : u[k] = x
  BY Membres
<1>8. ToSet(v) = ToSet(s) \cup ToSet(u)
  <2>1. ASSUME NEW x \in ToSet(v) PROVE x \in ToSet(s) \cup ToSet(u)
    <3>1. PICK k \in 1 .. Len(v) : v[k] = x
      BY <1>7
    <3>2. CASE k \in 1 .. Len(s)
      BY <1>4, <1>7, <3>1, <3>2
    <3>3. CASE \E j \in 1 .. Len(u) : k = Len(s) + j
      <4>1. PICK j \in 1 .. Len(u) : k = Len(s) + j
        BY <3>3
      <4>2. u[j] = x
        BY <1>5, <3>1, <4>1
      <4>. QED BY <1>7, <4>2
    <3>. QED BY <1>6, <3>2, <3>3
  <2>2. ToSet(s) \subseteq ToSet(v)
    BY <1>4, <1>7
  <2>3. ToSet(u) \subseteq ToSet(v)
    BY <1>5, <1>7
  <2>. QED BY <2>1, <2>2, <2>3
<1>9. ASSUME UneFois(v) PROVE UneFois(s) /\ UneFois(u) /\ ToSet(s) \cap ToSet(u) = {}
  <2>1. UneFois(s)
    BY <1>4, <1>9 DEF UneFois
  <2>2. UneFois(u)
    <3>1. SUFFICES ASSUME NEW i \in 1 .. Len(u), NEW j \in 1 .. Len(u), u[i] = u[j] PROVE i = j
      BY DEF UneFois
    <3>2. Len(s) + i = Len(s) + j
      BY <1>5, <1>9, <3>1 DEF UneFois
    <3>. QED BY <1>3, <3>2
  <2>3. ASSUME NEW x, x \in ToSet(s), x \in ToSet(u) PROVE FALSE
    <3>1. PICK i \in 1 .. Len(s) : s[i] = x
      BY <1>7, <2>3
    <3>2. PICK j \in 1 .. Len(u) : u[j] = x
      BY <1>7, <2>3
    <3>3. i = Len(s) + j
      BY <1>4, <1>5, <1>9, <3>1, <3>2 DEF UneFois
    <3>. QED BY <1>3, <3>3
  <2>. QED BY <2>1, <2>2, <2>3
<1>10. ASSUME UneFois(s), UneFois(u), ToSet(s) \cap ToSet(u) = {} PROVE UneFois(v)
  <2>1. \A i \in 1 .. Len(s), j \in 1 .. Len(u) : s[i] # u[j]
    BY <1>7, <1>10
  <2>2. SUFFICES ASSUME NEW i \in 1 .. Len(v), NEW j \in 1 .. Len(v), v[i] = v[j] PROVE i = j
    BY DEF UneFois
  <2>3. CASE i \in 1 .. Len(s) /\ j \in 1 .. Len(s)
    BY <1>4, <1>10, <2>2, <2>3 DEF UneFois
  <2>4. CASE i \in 1 .. Len(s) /\ \E b \in 1 .. Len(u) : j = Len(s) + b
    BY <1>4, <1>5, <2>1, <2>2, <2>4
  <2>5. CASE j \in 1 .. Len(s) /\ \E a \in 1 .. Len(u) : i = Len(s) + a
    BY <1>4, <1>5, <2>1, <2>2, <2>5
  <2>6. CASE /\ \E a \in 1 .. Len(u) : i = Len(s) + a
             /\ \E b \in 1 .. Len(u) : j = Len(s) + b
    BY <1>5, <1>10, <2>2, <2>6 DEF UneFois
  <2>. QED BY <1>6, <2>3, <2>4, <2>5, <2>6
<1>. QED BY <1>1, <1>8, <1>9, <1>10

\* The bytes a recv brings: each one once, and none that had arrived.
LEMMA Nouveaux ==
  ASSUME TypeOK, NEW n \in Arrivees
  PROVE  /\ Suite(recus + 1, recus + n) \in Seq(0 .. Octets)
         /\ UneFois(Suite(recus + 1, recus + n))
         /\ ToSet(Suite(recus + 1, recus + n)) = recus + 1 .. recus + n
         /\ (recus + 1 .. recus + n) \cap (1 .. recus) = {}
         /\ (1 .. recus) \cup (recus + 1 .. recus + n) = 1 .. recus + n
<1>. DEFINE S == Suite(recus + 1, recus + n)
<1>1. recus \in Nat /\ n \in Nat /\ recus + n <= Octets
  BY Nombres, Arrivent
<1>2. S \in Seq(0 .. Octets) /\ Len(S) = n /\ \A k \in 1 .. n : S[k] = recus + k
  BY <1>1, Suivants
<1>. HIDE DEF S
<1>3. UneFois(S)
  BY <1>1, <1>2 DEF UneFois
<1>4. ToSet(S) = recus + 1 .. recus + n
  <2>1. ASSUME NEW x \in recus + 1 .. recus + n PROVE \E k \in 1 .. n : recus + k = x
    <3>1. x - recus \in 1 .. n /\ recus + (x - recus) = x
      BY <1>1
    <3>. QED BY <3>1
  <2>2. \A k \in 1 .. n : recus + k \in recus + 1 .. recus + n
    BY <1>1
  <2>3. \A x : x \in ToSet(S) <=> \E k \in 1 .. n : S[k] = x
    BY <1>2, Membres
  <2>4. \A k \in 1 .. n : S[k] = recus + k
    BY <1>2
  <2>5. ASSUME NEW x PROVE x \in ToSet(S) <=> x \in recus + 1 .. recus + n
    <3>1. CASE x \in ToSet(S)
      <4>1. PICK k \in 1 .. n : S[k] = x
        BY <2>3, <3>1
      <4>. QED BY <2>2, <2>4, <3>1, <4>1
    <3>2. CASE x \in recus + 1 .. recus + n
      <4>1. PICK k \in 1 .. n : recus + k = x
        BY <2>1, <3>2
      <4>. QED BY <2>3, <2>4, <3>2, <4>1
    <3>. QED BY <3>1, <3>2
  <2>. QED BY <2>5, Zenon
<1>5. (recus + 1 .. recus + n) \cap (1 .. recus) = {}
  BY <1>1
<1>6. (1 .. recus) \cup (recus + 1 .. recus + n) = 1 .. recus + n
  BY <1>1
<1>. QED BY <1>2, <1>3, <1>4, <1>5, <1>6 DEF S

\* No bytes.
LEMMA Rien == ToSet(<<>>) = {} /\ UneFois(<<>>) /\ <<>> \in Seq(0 .. Octets)
<1>1. <<>> \in Seq(0 .. Octets) /\ Len(<<>>) = 0
  BY EmptySeq
<1>2. UneFois(<<>>)
  BY <1>1 DEF UneFois
<1>3. PICK s \in Seq(0 .. Octets) : s = <<>>
  BY <1>1
<1>4. \A x : x \in ToSet(s) <=> \E k \in 1 .. Len(s) : s[k] = x
  BY Membres
<1>5. ToSet(s) = {}
  BY <1>1, <1>3, <1>4
<1>. QED BY <1>1, <1>2, <1>3, <1>5

\* Steps that move no byte.
LEMMA PartageImmobile ==
  ASSUME Reparties, Connus' = Connus, recus' = recus, \A u \in Taches : Tenu(u)' = Tenu(u)
  PROVE  Reparties'
  BY DEF Reparties, UneFois

\* recv gives LireLigne bytes nobody had.
LEMMA PartageRecevoir ==
  ASSUME TypeOK, Reparties, NEW n \in Arrivees, recus' = recus + n,
         Connus' = Connus \o Suite(recus + 1, recus + n), \A u \in Taches : Tenu(u)' = Tenu(u)
  PROVE  Reparties'
<1>. DEFINE S == Suite(recus + 1, recus + n)
<1>1. /\ S \in Seq(0 .. Octets) /\ UneFois(S) /\ ToSet(S) = recus + 1 .. recus + n
      /\ (recus + 1 .. recus + n) \cap (1 .. recus) = {}
      /\ (1 .. recus) \cup (recus + 1 .. recus + n) = 1 .. recus'
  BY Nouveaux
<1>. HIDE DEF S
<1>2. Connus \in Seq(0 .. Octets) /\ Connus' = Connus \o S
  BY Chaines DEF S
<1>3. /\ ToSet(Connus)' = ToSet(Connus) \cup ToSet(S)
      /\ UneFois(Connus)' <=> UneFois(Connus) /\ UneFois(S) /\ ToSet(Connus) \cap ToSet(S) = {}
  <2>1. /\ ToSet(Connus \o S) = ToSet(Connus) \cup ToSet(S)
        /\ UneFois(Connus \o S)
             <=> UneFois(Connus) /\ UneFois(S) /\ ToSet(Connus) \cap ToSet(S) = {}
    BY <1>1, <1>2, Reunion
  <2>2. ToSet(Connus)' = ToSet(Connus \o S) /\ (UneFois(Connus)' <=> UneFois(Connus \o S))
    BY <1>2 DEF ToSet, UneFois
  <2>. QED BY <2>1, <2>2
<1>4. /\ ToSet(Connus) \subseteq 1 .. recus /\ UneFois(Connus)
      /\ \A u \in Taches : ToSet(Tenu(u)) \subseteq 1 .. recus
  BY DEF Reparties
<1>5. UneFois(Connus)'
  BY <1>1, <1>3, <1>4
<1>6. \A u \in Taches : ToSet(Tenu(u))' = ToSet(Tenu(u)) /\ (UneFois(Tenu(u))' <=> UneFois(Tenu(u)))
  BY DEF ToSet, UneFois
<1>7. \A u \in Taches : ToSet(Tenu(u))' \cap ToSet(Connus)' = {}
  BY <1>1, <1>3, <1>4, <1>6 DEF Reparties
<1>8. ToSet(Connus)' \subseteq 1 .. recus' /\ \A u \in Taches : ToSet(Tenu(u))' \subseteq 1 .. recus'
  <2>1. 1 .. recus \subseteq 1 .. recus' /\ ToSet(S) \subseteq 1 .. recus'
    BY <1>1, Zenon
  <2>. QED BY <1>3, <1>4, <1>6, <2>1
<1>9. ASSUME NEW x \in 1 .. recus'
      PROVE  x \in ToSet(Connus)' \/ \E u \in Taches : x \in ToSet(Tenu(u))'
  <2>1. CASE x \in 1 .. recus
    BY <1>3, <1>6, <2>1 DEF Reparties
  <2>2. CASE x \in ToSet(S)
    BY <1>3, <2>2
  <2>. QED BY <1>1, <2>1, <2>2
<1>. QED BY <1>5, <1>6, <1>7, <1>8, <1>9 DEF Reparties

\* recv gives Vider bytes nobody had.
LEMMA PartageViderSocket ==
  ASSUME TypeOK, Reparties, NEW t \in Taches, ViderSocket(t)
  PROVE  Reparties'
<1>1. PICK n \in Arrivees :
        recus' = recus + n /\ ret' = [ret EXCEPT ![t] = Suite(recus + 1, recus + n)]
  BY DEF ViderSocket
<1>. DEFINE S == Suite(recus + 1, recus + n)
<1>2. /\ S \in Seq(0 .. Octets) /\ UneFois(S) /\ ToSet(S) = recus + 1 .. recus + n
      /\ (recus + 1 .. recus + n) \cap (1 .. recus) = {}
      /\ (1 .. recus) \cup (recus + 1 .. recus + n) = 1 .. recus'
  BY <1>1, Nouveaux
<1>3. Tenu(t) = <<>> /\ Tenu(t)' = S /\ \A u \in Taches \ {t} : Tenu(u)' = Tenu(u)
  BY <1>1, Pas, Parties DEF ViderSocket, Places, Tenu, TypesTaches
<1>. HIDE DEF S
<1>4. Connus' = Connus
  BY DEF ViderSocket, tampon, Connus, Contenu
<1>5. /\ ToSet(Connus)' = ToSet(Connus) /\ (UneFois(Connus)' <=> UneFois(Connus))
      /\ ToSet(Tenu(t))' = ToSet(S) /\ (UneFois(Tenu(t))' <=> UneFois(S))
      /\ \A u \in Taches \ {t} :
           ToSet(Tenu(u))' = ToSet(Tenu(u)) /\ (UneFois(Tenu(u))' <=> UneFois(Tenu(u)))
  BY <1>3, <1>4 DEF ToSet, UneFois
<1>6. ToSet(Connus) \subseteq 1 .. recus /\ \A u \in Taches : ToSet(Tenu(u)) \subseteq 1 .. recus
  BY DEF Reparties
<1>7. UneFois(Connus)' /\ \A u \in Taches : UneFois(Tenu(u))'
  BY <1>2, <1>5 DEF Reparties
<1>8. \A u \in Taches : ToSet(Tenu(u))' \cap ToSet(Connus)' = {}
  BY <1>2, <1>5, <1>6 DEF Reparties
<1>9. \A u, v \in Taches : u # v => ToSet(Tenu(u))' \cap ToSet(Tenu(v))' = {}
  <2>1. ASSUME NEW u \in Taches, u # t PROVE ToSet(Tenu(u))' \cap ToSet(Tenu(t))' = {}
    BY <1>2, <1>5, <1>6, <2>1
  <2>2. ASSUME NEW u \in Taches, NEW v \in Taches, u # v, u # t, v # t
        PROVE  ToSet(Tenu(u))' \cap ToSet(Tenu(v))' = {}
    BY <1>5, <2>2 DEF Reparties
  <2>. QED BY <2>1, <2>2
<1>10. ToSet(Connus)' \subseteq 1 .. recus' /\ \A u \in Taches : ToSet(Tenu(u))' \subseteq 1 .. recus'
  <2>1. 1 .. recus \subseteq 1 .. recus' /\ ToSet(S) \subseteq 1 .. recus'
    BY <1>2, Zenon
  <2>. QED BY <1>5, <1>6, <2>1
<1>11. ASSUME NEW x \in 1 .. recus'
       PROVE  x \in ToSet(Connus)' \/ \E u \in Taches : x \in ToSet(Tenu(u))'
  <2>1. CASE x \in 1 .. recus
    <3>1. x \in ToSet(Connus) \/ \E u \in Taches : x \in ToSet(Tenu(u))
      BY <2>1 DEF Reparties
    <3>2. x \notin ToSet(Tenu(t))
      BY <1>3, Rien
    <3>. QED BY <1>5, <3>1, <3>2
  <2>2. CASE x \in ToSet(S)
    BY <1>5, <2>2
  <2>. QED BY <1>2, <2>1, <2>2
<1>. QED BY <1>7, <1>8, <1>9, <1>10, <1>11 DEF Reparties

\* The bytes a task held are returned, and held no more.
LEMMA PartageRendreSocket ==
  ASSUME TypeOK, Reparties, NEW t \in Taches, RendreSocket(t)
  PROVE  Reparties'
<1>1. /\ recus' = recus /\ lTampon' = lTampon /\ Tampon' = Tampon /\ livres' = livres \o ret[t]
      /\ pc[t] = "rend" /\ pc'[t] = "libre"
      /\ \A u \in Taches \ {t} : pc'[u] = pc[u] /\ ret'[u] = ret[u]
  BY Pas, Oubli DEF RendreSocket, tampon, Places
<1>2. Tenu(t) = ret[t] /\ Tenu(t)' = <<>> /\ \A u \in Taches \ {t} : Tenu(u)' = Tenu(u)
  BY <1>1 DEF Tenu
<1>3. PICK r \in Seq(0 .. Octets), c \in Seq(0 .. Octets) : r = ret[t] /\ c = Contenu(lTampon)
  BY Chaines
<1>4. Connus = livres \o c /\ Connus' = (livres \o r) \o c
  BY <1>1, <1>3 DEF Connus, Contenu
<1>5. livres \in Seq(0 .. Octets) /\ livres \o r \in Seq(0 .. Octets)
  BY Nombres, Concat
<1>6. /\ ToSet(livres \o c) = ToSet(livres) \cup ToSet(c)
      /\ UneFois(livres \o c) <=> UneFois(livres) /\ UneFois(c) /\ ToSet(livres) \cap ToSet(c) = {}
      /\ ToSet(livres \o r) = ToSet(livres) \cup ToSet(r)
      /\ UneFois(livres \o r) <=> UneFois(livres) /\ UneFois(r) /\ ToSet(livres) \cap ToSet(r) = {}
      /\ ToSet((livres \o r) \o c) = ToSet(livres \o r) \cup ToSet(c)
      /\ UneFois((livres \o r) \o c)
           <=> UneFois(livres \o r) /\ UneFois(c) /\ ToSet(livres \o r) \cap ToSet(c) = {}
  BY <1>5, Reunion
<1>7. UneFois(Connus) /\ UneFois(r) /\ ToSet(r) \cap ToSet(Connus) = {}
  BY <1>2, <1>3 DEF Reparties
<1>8. UneFois(Connus)' /\ ToSet(Connus)' = ToSet(Connus) \cup ToSet(r)
  <2>1. UneFois((livres \o r) \o c) /\ ToSet((livres \o r) \o c) = ToSet(Connus) \cup ToSet(r)
    BY <1>4, <1>6, <1>7
  <2>. QED BY <1>4, <2>1 DEF ToSet, UneFois
<1>9. /\ ToSet(Tenu(t))' = {} /\ UneFois(Tenu(t))'
      /\ \A u \in Taches \ {t} :
           ToSet(Tenu(u))' = ToSet(Tenu(u)) /\ (UneFois(Tenu(u))' <=> UneFois(Tenu(u)))
  BY <1>2, Rien DEF ToSet, UneFois
<1>10. \A u \in Taches : ToSet(Tenu(u))' \subseteq ToSet(Tenu(u))
  BY <1>9
<1>11. \A u \in Taches : UneFois(Tenu(u))' /\ ToSet(Tenu(u))' \cap ToSet(Connus)' = {}
  <2>1. ASSUME NEW u \in Taches \ {t} PROVE ToSet(Tenu(u)) \cap ToSet(r) = {}
    BY <1>2, <1>3 DEF Reparties
  <2>. QED BY <1>8, <1>9, <2>1 DEF Reparties
<1>12. \A u, v \in Taches : u # v => ToSet(Tenu(u))' \cap ToSet(Tenu(v))' = {}
  BY <1>10 DEF Reparties
<1>13. ToSet(Connus)' \subseteq 1 .. recus' /\ \A u \in Taches : ToSet(Tenu(u))' \subseteq 1 .. recus'
  BY <1>1, <1>2, <1>3, <1>8, <1>10 DEF Reparties
<1>14. ASSUME NEW x \in 1 .. recus'
       PROVE  x \in ToSet(Connus)' \/ \E u \in Taches : x \in ToSet(Tenu(u))'
  BY <1>1, <1>2, <1>3, <1>8, <1>9 DEF Reparties
<1>. QED BY <1>8, <1>11, <1>12, <1>13, <1>14 DEF Reparties

\* Partages is inductive.
LEMMA PartagesGardes ==
  ASSUME TypeOK, TypeOK', ToutVu, Partages, [Next]_vars
  PROVE  Partages'
<1>. SUFFICES ASSUME ~melange', ~plante' PROVE Reparties'
  BY DEF Partages
<1>1. CASE UNCHANGED vars
  <2>1. UNCHANGED <<melange, plante, pc, lTampon, livres, ret, recus, Tampon>>
    BY <1>1 DEF vars
  <2>. QED BY <2>1, PartageImmobile DEF Partages, Connus, Contenu, Tenu
<1>2. ASSUME NEW t \in Taches, ~plante, Ordinaire(t) PROVE Reparties'
  <2>1. PasDe(t)
    BY <1>2, PasOrdinaire
  <2>2. Reparties /\ Vu(t)
    BY <1>2, <2>1 DEF PasDe, Partages, ToutVu
  <2>3. \A u \in Taches \ {t} : Tenu(u)' = Tenu(u)
    BY <2>1 DEF PasDe, Tenu
  <2>4. CASE ViderSocket(t) \/ RendreSocket(t)
    BY <2>2, <2>4, PartageViderSocket, PartageRendreSocket
  <2>5. CASE Recevoir(t) \/ RetirerLigne(t) \/ ViderTampon(t)
    <3>1. pc[t] # "rend" /\ pc'[t] # "rend"
      BY <2>5, Parties DEF Recevoir, RetirerLigne, ViderTampon, Aller, TypesTaches
    <3>2. \A u \in Taches : Tenu(u)' = Tenu(u)
      BY <2>3, <3>1 DEF Tenu
    <3>3. CASE Recevoir(t)
      <4>1. ici[t] = lTampon
        BY <2>2, <3>3 DEF Vu, Recevoir, Aller
      <4>2. PICK n \in Arrivees :
              recus' = recus + n /\ Connus' = Connus \o Suite(recus + 1, recus + n)
        BY <3>3, <4>1, ConnusRecevoir
      <4>. QED BY <2>2, <3>2, <4>2, PartageRecevoir
    <3>4. CASE RetirerLigne(t)
      <4>1. ret[t] = Contenu(p[t])
        BY <2>2, <3>4 DEF Vu, RetirerLigne, Aller
      <4>. QED BY <2>2, <3>2, <3>4, <4>1, ConnusRetirer, PartageImmobile
    <3>5. CASE ViderTampon(t)
      <4>1. ret[t] = Contenu(lTampon)
        BY <2>2, <3>5 DEF Vu, ViderTampon, Aller
      <4>. QED BY <2>2, <3>2, <3>5, <4>1, ConnusVider, PartageImmobile
    <3>. QED BY <2>5, <3>3, <3>4, <3>5
  <2>6. CASE \/ AppelerLireLigne(t) \/ Chercher(t) \/ LireFermee(t) \/ Preparer(t)
             \/ RecevoirEchoue(t) \/ CopierLigne(t) \/ AppelerVider(t)
             \/ ViderEchoue(t) \/ ViderAilleurs(t) \/ Fermer(t)
             \/ AppelerRemplir(t) \/ Envoyer(t) \/ EnvoiEchoue(t) \/ FinRemplir(t)
    <3>1. pc[t] # "rend" /\ pc'[t] # "rend"
      <4>1. CASE AppelerVider(t) \/ Chercher(t)
        BY <4>1, Parties DEF AppelerVider, Chercher, Aller, TypesTaches
      <4>2. CASE \/ AppelerLireLigne(t) \/ LireFermee(t) \/ Preparer(t)
                 \/ RecevoirEchoue(t) \/ CopierLigne(t)
                 \/ ViderEchoue(t) \/ ViderAilleurs(t) \/ Fermer(t)
                 \/ AppelerRemplir(t) \/ Envoyer(t) \/ EnvoiEchoue(t) \/ FinRemplir(t)
        BY <4>2, Parties
        DEF AppelerLireLigne, LireFermee, Preparer, RecevoirEchoue, CopierLigne, ViderEchoue,
            ViderAilleurs, Fermer, AppelerRemplir, Envoyer, EnvoiEchoue, FinRemplir, Lancer,
            Aller, TypesTaches
      <4>. QED BY <2>6, <4>1, <4>2
    <3>2. \A u \in Taches : Tenu(u)' = Tenu(u)
      BY <2>3, <3>1 DEF Tenu
    <3>. QED BY <2>2, <2>6, <3>2, ConnusImmobile, PartageImmobile
  <2>. QED BY <1>2, <2>4, <2>5, <2>6 DEF Ordinaire
<1>3. ASSUME NEW t \in Taches, Tricoter(t) PROVE Reparties'
  <2>1. Connus' = <<>> /\ recus' = 0
    BY <1>3, ConnusTricoter
  <2>2. \A u \in Taches : pc'[u] # "rend"
    BY <1>3 DEF Tricoter
  <2>3. \A u \in Taches : Tenu(u)' = <<>>
    BY <2>2 DEF Tenu
  <2>4. /\ ToSet(Connus)' = {} /\ UneFois(Connus)'
        /\ \A u \in Taches : ToSet(Tenu(u))' = {} /\ UneFois(Tenu(u))'
    BY <2>1, <2>3, Rien DEF ToSet, UneFois
  <2>. QED BY <2>1, <2>4 DEF Reparties
<1>. QED BY <1>1, <1>2, <1>3, UnPas

-----------------------------------------------------------------------------
(* Every use. *)

\* The invariant of the reception.
Lectures == TypeOK /\ Ordre /\ Exclusif /\ ToutVu /\ Seul /\ Partages

\* It holds of a new Chaussette.
LEMMA LecturesAuDepart == Init => Lectures
<1>. SUFFICES ASSUME Init PROVE Lectures
  OBVIOUS
<1>1. /\ \A t \in Taches : pc[t] = "libre" /\ Fin[t] = -1
      /\ lTampon = 0 /\ recus = 0 /\ livres = <<>> /\ ~melange /\ ~plante
  BY DEF Init
<1>2. TypeOK
  BY TypesAuDepart
<1>3. Ordre /\ Exclusif
  <2>1. script.taches \subseteq Taches
    BY <1>2, Usage, Parties DEF TypesConnexion
  <2>. QED BY <1>1, <2>1 DEF Ordre, Exclusif, SurTampon
<1>4. ToutVu
  BY <1>1 DEF ToutVu, Vu
<1>5. Connus = <<>>
  BY <1>1, <1>2, ConnusVide
<1>6. Seul
  <2>1. Suite(1, recus) = <<>>
    BY <1>1 DEF Suite
  <2>. QED BY <1>1, <1>5, <2>1 DEF Seul, Suivi
<1>7. Partages
  <2>1. \A t \in Taches : Tenu(t) = <<>>
    BY <1>1 DEF Tenu
  <2>. QED BY <1>1, <1>5, <2>1, Rien DEF Partages, Reparties
<1>. QED BY <1>2, <1>3, <1>4, <1>6, <1>7 DEF Lectures

\* It is inductive.
LEMMA LecturesGardees == Lectures /\ [Next]_vars => Lectures'
<1>. SUFFICES ASSUME Lectures, [Next]_vars PROVE Lectures'
  OBVIOUS
<1>1. TypeOK'
  BY TypesGardes DEF Lectures
<1>. QED BY <1>1, OrdreGarde, ToutVuGarde, SeulGarde, PartagesGardes DEF Lectures

\* It always holds.
LEMMA ToujoursLectures == Spec => []Lectures
  BY LecturesAuDepart, LecturesGardees, PTL DEF Spec

\* As many bytes as there are numbers, when each is there once.
LEMMA Compte ==
  ASSUME NEW s \in Seq(0 .. Octets), NEW n \in Nat, UneFois(s), ToSet(s) = 1 .. n
  PROVE  Len(s) = n
<1>1. Len(s) \in Nat /\ s \in [1 .. Len(s) -> 0 .. Octets]
  BY LenProperties
<1>2. \A x : x \in 1 .. n <=> \E k \in 1 .. Len(s) : s[k] = x
  BY Membres
<1>3. s \in Bijection(1 .. Len(s), 1 .. n)
  BY <1>1, <1>2 DEF UneFois, Bijection, Injection, Surjection, IsInjective
<1>4. Cardinality(1 .. n) = Len(s)
  BY <1>1, <1>3, FS_CountingElements DEF ExistsBijection
<1>5. Cardinality(1 .. n) = IF 1 > n THEN 0 ELSE n - 1 + 1
  BY FS_Interval
<1>. QED BY <1>4, <1>5

\* Whatever mixture of Vider, LireLigne and Tricoter a script with one task uses, it
\* gets the bytes that arrived, in order: those returned and those of the buffer are
\* the stream.
THEOREM FluxGarde == Spec => []Flux
<1>1. Lectures => Flux
  <2>1. SUFFICES ASSUME Lectures, Cardinality(script.taches) = 1, AuRepos
                 PROVE  livres \o Contenu(lTampon) = Suite(1, recus)
    BY DEF Flux
  <2>2. script.taches \in SUBSET Taches /\ IsFiniteSet(script.taches)
    BY <2>1, Usage, Parties, ChaussetteAssumption, FS_Subset DEF Lectures, TypesConnexion
  <2>3. PICK t : script.taches = {t}
    BY <2>1, <2>2, FS_Singleton
  <2>4. t \in Taches /\ pc[t] # "rend" /\ ~plante
    BY <2>1, <2>2, <2>3 DEF AuRepos
  <2>. QED BY <2>1, <2>3, <2>4 DEF Lectures, Seul, Suivi, Connus
<1>. QED BY <1>1, ToujoursLectures, PTL

\* However many tasks empty a Chaussette and read its lines, each byte goes to one
\* of them, once, as long as two tasks do not use Tampon at the same time.
THEOREM OctetsUneFois == Spec => []ChacunUneFois
<1>1. Lectures => ChacunUneFois
  <2>1. SUFFICES ASSUME Lectures, ~melange, AuRepos
                 PROVE  ToSet(Connus) = 1 .. recus /\ Len(livres) + lTampon = recus
    BY DEF ChacunUneFois, Connus
  <2>2. Reparties /\ \A t \in Taches : Tenu(t) = <<>>
    BY <2>1 DEF Lectures, Partages, AuRepos, Tenu
  <2>3. ToSet(Connus) = 1 .. recus
    BY <2>2, Rien DEF Reparties
  <2>4. Connus \in Seq(0 .. Octets) /\ Len(Connus) = Len(livres) + lTampon /\ recus \in Nat
    BY <2>1, Chaines, Nombres DEF Lectures
  <2>5. Len(Connus) = recus
    BY <2>2, <2>3, <2>4, Compte DEF Reparties
  <2>. QED BY <2>3, <2>4, <2>5
<1>. QED BY <1>1, ToujoursLectures, PTL

\* LireLigne returns one line, whatever the lengths of the lines and of the packets,
\* as long as two tasks do not use Tampon at the same time.
THEOREM UneLigneRendue == Spec => []UneLigne
<1>1. Lectures => UneLigne
  <2>1. SUFFICES ASSUME Lectures, ~melange, NEW t \in Taches, pc[t] = "retire"
                 PROVE  {i \in DOMAIN ret[t] : ret[t][i] \in Fins} = {Len(ret[t])}
    BY DEF UneLigne
  <2>2. /\ Fin[t] \in 0 .. lTampon /\ FinDeLigne(Fin[t])
        /\ \A i \in 0 .. Fin[t] - 1 : ~FinDeLigne(i)
        /\ p[t] = Fin[t] + 1 /\ ret[t] = Contenu(p[t]) /\ p[t] \in 0 .. Memoire
    BY <2>1, Parties DEF Lectures, ToutVu, Vu, TypesTaches
  <2>3. PICK n \in Nat : n = p[t] /\ n > 0 /\ n <= Memoire /\ n - 1 = Fin[t] /\ n \in 0 .. Memoire
    <3>1. Fin[t] \in Nat
      BY <2>1, <2>2, Nombres DEF Lectures
    <3>. QED BY <2>2, <3>1, Constantes
  <2>4. /\ ret[t] \in Seq(0 .. Octets) /\ Len(ret[t]) = n
        /\ \A k \in 1 .. n : ret[t][k] = Tampon[k - 1]
    BY <2>1, <2>2, <2>3, Copie DEF Lectures
  <2>5. DOMAIN ret[t] = 1 .. n
    BY <2>4, LenProperties
  <2>6. ret[t][n] \in Fins
    <3>1. n \in 1 .. n
      BY <2>3
    <3>. QED BY <2>2, <2>3, <2>4, <3>1 DEF FinDeLigne
  <2>7. ASSUME NEW k \in 1 .. n, k # n PROVE ret[t][k] \notin Fins
    <3>1. k - 1 \in 0 .. Fin[t] - 1
      BY <2>3, <2>7
    <3>2. k - 1 \in Cellules
      BY <2>3, <2>7, Constantes DEF Cellules
    <3>. QED BY <2>2, <2>4, <3>1, <3>2 DEF FinDeLigne
  <2>. QED BY <2>3, <2>4, <2>5, <2>6, <2>7
<1>. QED BY <1>1, ToujoursLectures, PTL

=============================================================================
