------------------------------ MODULE Appels_proof ------------------------------
(***************************************************************************)
(* The safety invariants of Appels, for every value of its constants.      *)
(*                                                                         *)
(* Bon says what keeps the offsets right: the frames follow one another in *)
(* PileF, the current one is where DebutParam and DebutVarLoc say, there   *)
(* is nothing above PileF.l, variables hold no reference, and those of an  *)
(* expression, saved or not, designate a variable of its frame.  It is     *)
(* stated of a record s, as Etat, because Exception goes through states of *)
(* its own: one for each call it leaves.  The provers cannot do induction  *)
(* on the number of calls left; the greatest number for which the loop     *)
(* would go wrong does (PlusGrand).                                        *)
(***************************************************************************)
EXTENDS Appels, SequenceTheorems, FiniteSetTheorems, WellFoundedInduction, TLAPS

-----------------------------------------------------------------------------
(* The proofs use the least number of a set, or the greatest, in the place   *)
(* of induction: of those for which a statement would fail.                  *)

\* A set of natural numbers has a least element: the initial segments are
\* well-ordered by inclusion.
LEMMA PlusPetit ==
  ASSUME NEW S \in SUBSET Nat, S # {}
  PROVE  \E x \in S : \A y \in S : x <= y
<1>. DEFINE T == {0 .. x : x \in S}
<1>1. T \subseteq FiniteSubsetsOf(Nat) /\ T # {}
  <2>1. \A x \in S : IsFiniteSet(0 .. x) /\ 0 .. x \in SUBSET Nat
    BY FS_Interval
  <2>. QED BY <2>1 DEF FiniteSubsetsOf
<1>2. PICK t \in T : \A u \in T : ~ (<<u, t>> \in StrictSubsetOrdering(Nat))
  <2>. HIDE DEF T
  <2>. QED BY <1>1, FS_StrictSubsetOrderingWellFounded, WFMin
<1>3. PICK x \in S : t = 0 .. x
  OBVIOUS
<1>4. ASSUME NEW y \in S, y < x PROVE FALSE
  <2>1. 0 .. y \in T /\ 0 .. y \in SUBSET Nat /\ t \in SUBSET Nat
    BY <1>3
  <2>2. 0 .. y \subseteq t /\ x \in t /\ x \notin 0 .. y
    BY <1>3, <1>4
  <2>. QED BY <1>2, <2>1, <2>2 DEF StrictSubsetOrdering
<1>. QED BY <1>4
\* A bounded one has a greatest.
LEMMA PlusGrand ==
  ASSUME NEW n \in Nat, NEW S \in SUBSET (0 .. n), S # {}
  PROVE  \E x \in S : \A y \in S : x >= y
<1>. DEFINE T == {y \in Nat : \E x \in S : y = n - x}
<1>1. T \in SUBSET Nat /\ T # {}
  <2>1. PICK x \in S : TRUE
    OBVIOUS
  <2>2. n - x \in Nat
    OBVIOUS
  <2>. QED BY <2>2
<1>2. PICK t \in T : \A y \in T : t <= y
  <2>. HIDE DEF T
  <2>. QED BY <1>1, PlusPetit
<1>3. PICK x \in S : t = n - x
  OBVIOUS
<1>4. ASSUME NEW y \in S PROVE x >= y
  <2>1. n - y \in T
    OBVIOUS
  <2>2. n - x <= n - y
    BY <1>2, <1>3, <2>1
  <2>. QED BY <2>2
<1>. QED BY <1>4

\* The last DEBUTPARAM of an expression is an element of it.
LEMMA Marquage ==
  ASSUME NEW p, NEW W, p \in Seq(W)
  PROVE  /\ DerniereMarque(p) \in 0 .. Len(p)
         /\ DerniereMarque(p) > 0 => p[DerniereMarque(p)] = Marque
<1>. DEFINE I == {i \in 1 .. Len(p) : p[i] = Marque}
<1>1. DerniereMarque(p) = IF I # {} THEN CHOOSE x \in I : \A y \in I : x >= y ELSE 0
  BY DEF DerniereMarque, SelectLastInSubSeq, Max
<1>2. CASE I # {}
  <2>1. \E x \in I : \A y \in I : x >= y
    <3>1. Len(p) \in Nat /\ I \in SUBSET (0 .. Len(p))
      OBVIOUS
    <3>. HIDE DEF I
    <3>. QED BY <1>2, <3>1, PlusGrand
  <2>2. DerniereMarque(p) \in I
    BY <1>1, <1>2, <2>1
  <2>. QED BY <2>2
<1>3. CASE I = {}
  BY <1>1, <1>3
<1>. QED BY <1>2, <1>3
-----------------------------------------------------------------------------
(* A state s, as Etat, and b for BasenParams. *)

Vals == Simples \cup Refs

Elements == [Instruction : Lieux \cup {Nul}, lPile : Nat, PosPileF : Nat,
             nParams : Nat, This : Objets \cup {Nul}, EnErreur : Lieux \cup {Nul}]

Etats == [Pile : Seq(Vals), PileF : [Cellules -> Vals], l : 0 .. Memoire,
          Appel : [0 .. NMAXAPPELS -> Elements], n : 0 .. NMAXAPPELS,
          DebutParam : Nat, DebutVarLoc : Nat, Ins : Lieux \cup {Nul},
          This : Objets \cup {Nul}]

D(s, k) == IF k = 0 THEN 0 ELSE s.Appel[k - 1].PosPileF + s.Appel[k - 1].lPile
V(s, k, b) == IF k = 0 THEN b ELSE D(s, k) + s.Appel[k - 1].nParams
F(s, k) == IF k = s.n THEN s.l ELSE s.Appel[k].PosPileF

\* The current frame is where DebutParam and DebutVarLoc say.
Situe(s, b) == s.DebutParam = D(s, s.n) /\ s.DebutVarLoc = V(s, s.n, b)

\* Frames follow one another.
Ordonne(s, b) ==
  /\ \A k \in 0 .. s.n : D(s, k) <= V(s, k, b) /\ V(s, k, b) <= F(s, k)
  /\ \A j, k \in 0 .. s.n : j < k => F(s, j) < D(s, k)

\* Nothing survives above l.
Propre(s) == \A i \in Cellules : i >= s.l => s.PileF[i] = Inconnu

\* Variables have no reference, nor what will be a result.
Variables(s) ==
  /\ \A k \in 0 .. s.n : \A i \in D(s, k) .. F(s, k) - 1 : s.PileF[i] \in Simples
  /\ \A k \in 1 .. s.n : s.PileF[D(s, k) - 1] \in Simples

\* References designate a variable of their frame.
Vivantes(s) ==
  /\ \A i \in DOMAIN s.Pile : s.Pile[i] \in Refs => s.Pile[i].adr \in D(s, s.n) .. s.l - 1
  /\ \A k \in 0 .. s.n - 1 : \A i \in F(s, k) .. D(s, k + 1) - 1 :
       s.PileF[i] \in Refs => s.PileF[i].adr \in D(s, k) .. F(s, k) - 1

Bon(s, b) ==
  /\ s \in Etats /\ b \in Nat
  /\ Situe(s, b) /\ Ordonne(s, b) /\ Propre(s) /\ Variables(s) /\ Vivantes(s)

\* The bounds the definitions have in common.
LEMMA Bornes ==
  ASSUME NEW b, NEW s, Bon(s, b)
  PROVE  /\ s.n \in Nat /\ s.l \in Nat /\ s.l <= Memoire /\ Memoire \in Nat /\ NMAXAPPELS \in Nat
         /\ \A k \in 0 .. s.n : /\ D(s, k) \in Nat /\ V(s, k, b) \in Nat /\ F(s, k) \in Nat
                                /\ F(s, k) <= s.l
                                /\ D(s, k) <= s.l
<1>1. s.n \in 0 .. NMAXAPPELS /\ s.l \in 0 .. Memoire /\ Memoire \in Nat /\ NMAXAPPELS \in Nat
  BY AppelsAssumption DEF Bon, Etats
<1>2. \A k \in 0 .. NMAXAPPELS : /\ s.Appel[k].PosPileF \in Nat /\ s.Appel[k].lPile \in Nat
                                 /\ s.Appel[k].nParams \in Nat
  BY DEF Bon, Etats, Elements
<1>3. \A k \in 0 .. s.n : D(s, k) \in Nat /\ V(s, k, b) \in Nat /\ F(s, k) \in Nat
  BY <1>1, <1>2 DEF D, V, F, Bon
<1>4. D(s, s.n) <= V(s, s.n, b) /\ V(s, s.n, b) <= F(s, s.n) /\ F(s, s.n) = s.l
  BY <1>1 DEF Bon, Ordonne, F
<1>5. \A k \in 0 .. s.n : F(s, k) <= s.l /\ D(s, k) <= s.l
  <2>. TAKE k \in 0 .. s.n
  <2>1. D(s, k) <= F(s, k)
    BY <1>3 DEF Bon, Ordonne
  <2>2. CASE k = s.n
    BY <1>3, <1>4, <2>2
  <2>3. CASE k # s.n
    <3>1. F(s, k) < D(s, s.n)
      BY <1>1, <2>3 DEF Bon, Ordonne
    <3>. QED BY <1>1, <1>3, <1>4, <2>1, <3>1
  <2>. QED BY <2>2, <2>3
<1>. QED BY <1>1, <1>3, <1>5

-----------------------------------------------------------------------------
(* The instructions that stay in the current function. *)

\* Another expression, and another place in the code.
Suite(s, p, c) ==
  [Pile |-> p, PileF |-> s.PileF, l |-> s.l, Appel |-> s.Appel, n |-> s.n, DebutParam |-> s.DebutParam,
   DebutVarLoc |-> s.DebutVarLoc, Ins |-> c, This |-> s.This]

\* It is good when its references are those of the frame.
LEMMA Calcul ==
  ASSUME NEW b, NEW s, Bon(s, b), NEW p \in Seq(Vals), NEW c \in Lieux \cup {Nul},
         \A i \in DOMAIN p : p[i] \in Refs => p[i].adr \in D(s, s.n) .. s.l - 1
  PROVE  Bon(Suite(s, p, c), b)
<1>. DEFINE t == Suite(s, p, c)
<1>1. /\ t \in Etats /\ t.Pile = p /\ t.PileF = s.PileF /\ t.l = s.l /\ t.n = s.n
      /\ t.Appel = s.Appel /\ t.DebutParam = s.DebutParam /\ t.DebutVarLoc = s.DebutVarLoc
  BY DEF Bon, Etats, Suite
<1>. HIDE DEF t
<1>2. \A k : D(t, k) = D(s, k) /\ V(t, k, b) = V(s, k, b) /\ F(t, k) = F(s, k)
  BY <1>1 DEF D, V, F
<1>. QED BY <1>1, <1>2 DEF Bon, Situe, Ordonne, Propre, Variables, Vivantes, t

\* RedimMin.
LEMMA Agrandi ==
  ASSUME NEW b, NEW s, Bon(s, b), NEW m \in s.l .. Memoire
  PROVE  Bon([s EXCEPT !.l = m], b)
<1>. DEFINE t == [s EXCEPT !.l = m]
<1>0. m \in Nat /\ m \in 0 .. Memoire /\ s.l <= m
  BY Bornes
<1>1. /\ t \in Etats /\ t.Pile = s.Pile /\ t.PileF = s.PileF /\ t.l = m /\ t.n = s.n
      /\ t.Appel = s.Appel /\ t.DebutParam = s.DebutParam /\ t.DebutVarLoc = s.DebutVarLoc
  BY <1>0 DEF Bon, Etats
<1>. HIDE DEF t
<1>2. \A k : D(t, k) = D(s, k) /\ V(t, k, b) = V(s, k, b) /\ F(t, k) = IF k = s.n THEN m ELSE F(s, k)
  BY <1>1 DEF D, V, F
<1>3. Situe(t, b)
  BY <1>1, <1>2 DEF Bon, Situe
<1>4. Ordonne(t, b)
  BY <1>0, <1>1, <1>2, Bornes DEF Bon, Ordonne, F
<1>5. Propre(t)
  BY <1>0, <1>1, Bornes DEF Bon, Propre, Cellules
<1>6. Variables(t)
  <2>1. ASSUME NEW k \in 0 .. t.n, NEW i \in D(t, k) .. F(t, k) - 1 PROVE t.PileF[i] \in Simples
    <3>1. CASE i < F(s, k)
      BY <1>1, <1>2, <2>1, <3>1, Bornes DEF Bon, Variables
    <3>2. CASE ~ (i < F(s, k))
      <4>1. k = s.n /\ i \in Cellules /\ i >= s.l
        BY <1>0, <1>1, <1>2, <2>1, <3>2, Bornes DEF F, Cellules
      <4>. QED BY <1>1, <4>1 DEF Bon, Propre, Simples
    <3>. QED BY <3>1, <3>2
  <2>2. \A k \in 1 .. t.n : t.PileF[D(t, k) - 1] \in Simples
    BY <1>1, <1>2 DEF Bon, Variables
  <2>. QED BY <2>1, <2>2 DEF Variables
<1>7. Vivantes(t)
  <2>1. \A i \in DOMAIN t.Pile : t.Pile[i] \in Refs => t.Pile[i].adr \in D(t, t.n) .. t.l - 1
    BY <1>0, <1>1, <1>2, Bornes DEF Bon, Vivantes
  <2>2. \A k \in 0 .. t.n - 1 : F(t, k) = F(s, k) /\ k # s.n
    BY <1>1, <1>2, Bornes
  <2>. QED BY <1>1, <1>2, <2>1, <2>2 DEF Bon, Vivantes
<1>8. Bon(t, b)
  BY <1>1, <1>3, <1>4, <1>5, <1>6, <1>7 DEF Bon
<1>. QED BY <1>8 DEF t

\* A value in a variable of the current function.
LEMMA Affectation ==
  ASSUME NEW b, NEW s, Bon(s, b), NEW a \in D(s, s.n) .. s.l - 1, NEW v \in Simples
  PROVE  Bon([s EXCEPT !.PileF = [s.PileF EXCEPT ![a] = v]], b)
<1>. DEFINE t == [s EXCEPT !.PileF = [s.PileF EXCEPT ![a] = v]]
<1>1. /\ t \in Etats /\ t.Pile = s.Pile /\ t.PileF = [s.PileF EXCEPT ![a] = v] /\ t.l = s.l /\ t.n = s.n
      /\ t.Appel = s.Appel /\ t.DebutParam = s.DebutParam /\ t.DebutVarLoc = s.DebutVarLoc
  BY DEF Bon, Etats, Vals
<1>0. a \in Nat /\ a < s.l /\ a \in Cellules
  BY Bornes DEF Cellules
<1>. HIDE DEF t
<1>2. \A k : D(t, k) = D(s, k) /\ V(t, k, b) = V(s, k, b) /\ F(t, k) = F(s, k)
  BY <1>1 DEF D, V, F
<1>3. \A i \in Cellules : t.PileF[i] = IF i = a THEN v ELSE s.PileF[i]
  BY <1>1 DEF Bon, Etats
<1>4. Propre(t)
  BY <1>0, <1>1, <1>3, Bornes DEF Bon, Propre, Cellules
<1>5. \A k \in 0 .. s.n : F(s, k) <= Memoire /\ D(s, k) <= Memoire /\ F(s, k) \in Nat /\ D(s, k) \in Nat
  BY Bornes
<1>6. Variables(t)
  <2>1. ASSUME NEW k \in 0 .. t.n, NEW i \in D(t, k) .. F(t, k) - 1 PROVE t.PileF[i] \in Simples
    <3>1. i \in Cellules /\ s.PileF[i] \in Simples
      BY <1>1, <1>2, <1>5, <2>1, Bornes DEF Cellules, Bon, Variables
    <3>. QED BY <1>3, <3>1
  <2>2. ASSUME NEW k \in 1 .. t.n PROVE t.PileF[D(t, k) - 1] \in Simples
    <3>1. D(s, k) - 1 \in Cellules /\ s.PileF[D(s, k) - 1] \in Simples
      <4>1. k \in 0 .. s.n /\ 0 \in 0 .. s.n /\ 0 < k
        BY <1>1, Bornes
      <4>2. F(s, 0) < D(s, k)
        BY <4>1 DEF Bon, Ordonne
      <4>. QED BY <1>1, <1>2, <1>5, <4>1, <4>2, Bornes DEF Cellules, Bon, Variables
    <3>. QED BY <1>2, <1>3, <3>1
  <2>. QED BY <2>1, <2>2 DEF Variables
<1>7. Vivantes(t)
  <2>1. ASSUME NEW k \in 0 .. t.n - 1, NEW i \in F(t, k) .. D(t, k + 1) - 1
        PROVE  t.PileF[i] = s.PileF[i]
    <3>1. k \in 0 .. s.n /\ k + 1 \in 0 .. s.n /\ (k + 1 = s.n \/ k + 1 < s.n)
      BY <1>1, Bornes
    <3>2. D(s, k + 1) <= D(s, s.n)
      <4>1. CASE k + 1 = s.n
        BY <1>5, <3>1, <4>1
      <4>2. CASE k + 1 < s.n
        <5>1. F(s, k + 1) < D(s, s.n) /\ D(s, k + 1) <= F(s, k + 1)
          BY <3>1, <4>2, Bornes DEF Bon, Ordonne
        <5>. QED BY <1>5, <3>1, <5>1, Bornes
      <4>. QED BY <3>1, <4>1, <4>2
    <3>3. i \in Cellules /\ i # a
      BY <1>0, <1>2, <1>5, <2>1, <3>1, <3>2, Bornes DEF Cellules
    <3>. QED BY <1>3, <3>3
  <2>. QED BY <1>1, <1>2, <2>1 DEF Bon, Vivantes
<1>8. Bon(t, b)
  BY <1>1, <1>2, <1>4, <1>6, <1>7 DEF Bon, Situe, Ordonne
<1>. QED BY <1>8 DEF t

\* I_ENERREUR.
LEMMA Gestion ==
  ASSUME NEW b, NEW s, Bon(s, b), NEW h \in Lieux
  PROVE  Bon([s EXCEPT !.Appel = [s.Appel EXCEPT ![s.n].EnErreur = h]], b)
<1>. DEFINE e == [s.Appel[s.n] EXCEPT !.EnErreur = h]
            A == [s.Appel EXCEPT ![s.n] = e]
            t == [s EXCEPT !.Appel = A]
<1>0. s \in Etats /\ s.n \in 0 .. NMAXAPPELS /\ s.Appel \in [0 .. NMAXAPPELS -> Elements]
  BY DEF Bon, Etats
<1>1. /\ e \in Elements /\ e.PosPileF = s.Appel[s.n].PosPileF /\ e.lPile = s.Appel[s.n].lPile
      /\ e.nParams = s.Appel[s.n].nParams
  BY <1>0 DEF Elements
<1>. HIDE DEF e
<1>2. A \in [0 .. NMAXAPPELS -> Elements] /\ \A k \in 0 .. NMAXAPPELS :
         A[k].PosPileF = s.Appel[k].PosPileF /\ A[k].lPile = s.Appel[k].lPile /\ A[k].nParams = s.Appel[k].nParams
  BY <1>0, <1>1
<1>. HIDE DEF A
<1>6. /\ t \in Etats /\ t.Pile = s.Pile /\ t.PileF = s.PileF /\ t.l = s.l /\ t.n = s.n
      /\ t.DebutParam = s.DebutParam /\ t.DebutVarLoc = s.DebutVarLoc /\ t.Appel = A
  BY <1>0, <1>2 DEF Etats
<1>. HIDE DEF t
<1>3. \A k \in 0 .. s.n : D(t, k) = D(s, k) /\ V(t, k, b) = V(s, k, b) /\ F(t, k) = F(s, k)
  <2>. TAKE k \in 0 .. s.n
  <2>1. k \in 0 .. NMAXAPPELS /\ (k # 0 => k - 1 \in 0 .. NMAXAPPELS)
    BY AppelsAssumption DEF Bon, Etats
  <2>. QED BY <1>2, <1>6, <2>1 DEF D, V, F
<1>4. s.n \in 0 .. s.n /\ \A k \in 0 .. s.n - 1 : k \in 0 .. s.n /\ k + 1 \in 0 .. s.n
  BY Bornes
<1>5. \A k \in 1 .. s.n : k \in 0 .. s.n
  BY Bornes
<1>7. Bon(t, b)
  BY <1>3, <1>4, <1>5, <1>6 DEF Bon, Situe, Ordonne, Propre, Variables, Vivantes
<1>8. t = [s EXCEPT !.Appel = [s.Appel EXCEPT ![s.n].EnErreur = h]]
  BY DEF t, A, e
<1>. QED BY <1>7, <1>8
-----------------------------------------------------------------------------
(* Calls. *)

\* The stack p is copied to PileF, from the end of s to fin.
Recopie(s, t, p, fin) ==
  /\ \A i \in Cellules : i \notin s.l .. fin - 1 => t.PileF[i] = s.PileF[i]
  /\ \A i \in Cellules : i \in s.l .. fin - 1 => t.PileF[i] = p[i - s.l + 1]

\* t is s after AppelerEtiquette, with the q elements of p on the stack, the
\* param-th of them the last DEBUTPARAM.
Appele(s, t, p, q, param) ==
  /\ t.n = s.n + 1 /\ t.l = s.l + q
  /\ Recopie(s, t, p, s.l + q)
  /\ \A k \in 0 .. s.n - 1 : /\ t.Appel[k].PosPileF = s.Appel[k].PosPileF
                             /\ t.Appel[k].lPile = s.Appel[k].lPile
                             /\ t.Appel[k].nParams = s.Appel[k].nParams
  /\ t.Appel[s.n].PosPileF = s.l /\ t.Appel[s.n].lPile = param /\ t.Appel[s.n].nParams = q - param
  /\ t.DebutParam = s.l + param /\ t.DebutVarLoc = s.l + q
  /\ \A i \in DOMAIN t.Pile : t.Pile[i] \notin Refs

\* What is in p: its references are those of the current function, and its
\* parameters are none.
Passe(s, p, q, param) ==
  /\ \A i \in 1 .. q : p[i] \in Refs => p[i].adr \in D(s, s.n) .. s.l - 1
  /\ \A i \in param .. q : p[i] \in Simples

\* AppelerEtiquette puts one more frame after the others: all stay in order.
LEMMA Appeler ==
  ASSUME NEW b, NEW s, Bon(s, b), NEW p, NEW q \in Nat, NEW param \in 1 .. q, Passe(s, p, q, param),
         s.l + q <= Memoire, NEW t \in Etats, Appele(s, t, p, q, param)
  PROVE  Bon(t, b)
<1>. DEFINE n == s.n + 1
            fin == s.l + q
            z == s.l + param
<1>1. /\ s.n \in Nat /\ s.l \in Nat /\ param \in Nat /\ q \in Nat /\ 1 <= param /\ param <= q
      /\ Memoire \in Nat
      /\ n \in Nat /\ n - 1 = s.n /\ n # 0 /\ s.n < n
      /\ fin \in Nat /\ z \in Nat /\ s.l < z /\ z <= fin /\ z + (q - param) = fin /\ fin <= Memoire
  BY Bornes
<1>0. t.n = n /\ t.l = fin /\ t.DebutParam = z /\ t.DebutVarLoc = fin
  BY DEF Appele
<1>. HIDE DEF n
<1>2. \A k \in 0 .. s.n : D(t, k) = D(s, k) /\ V(t, k, b) = V(s, k, b) /\ F(t, k) = F(s, k)
  <2>. TAKE k \in 0 .. s.n
  <2>1. k # 0 => k - 1 \in 0 .. s.n - 1
    BY <1>1
  <2>2. k # s.n => k \in 0 .. s.n - 1
    BY <1>1
  <2>3. k # n
    BY <1>1
  <2>. QED BY <1>0, <2>1, <2>2, <2>3 DEF D, V, F, Appele
<1>3. D(t, n) = z /\ V(t, n, b) = fin /\ F(t, n) = fin
  BY <1>0, <1>1 DEF D, V, F, Appele
<1>4. \A k \in 0 .. n : k \in 0 .. s.n \/ k = n
  BY <1>1 DEF n
<1>5. \A k \in 0 .. s.n : /\ D(s, k) \in Nat /\ F(s, k) \in Nat /\ V(s, k, b) \in Nat /\ F(s, k) <= s.l
                          /\ D(s, k) <= s.l
  BY Bornes
<1>6. F(s, s.n) = s.l
  BY DEF F
<1>8. /\ \A i \in Cellules : i \notin s.l .. fin - 1 => t.PileF[i] = s.PileF[i]
      /\ \A i \in Cellules : i \in s.l .. fin - 1 => t.PileF[i] = p[i - s.l + 1]
  <2>1. Recopie(s, t, p, fin)
    BY DEF Appele
  <2>. HIDE DEF fin
  <2>. QED BY <2>1 DEF Recopie
<1>. HIDE DEF fin, z
<1>7. Ordonne(t, b)
  <2>1. ASSUME NEW k \in 0 .. n PROVE D(t, k) <= V(t, k, b) /\ V(t, k, b) <= F(t, k)
    <3>1. CASE k \in 0 .. s.n
      BY <1>2, <3>1 DEF Bon, Ordonne
    <3>2. CASE k = n
      BY <1>1, <1>3, <3>2
    <3>. QED BY <1>4, <3>1, <3>2
  <2>2. ASSUME NEW j \in 0 .. n, NEW k \in 0 .. n, j < k PROVE F(t, j) < D(t, k)
    <3>1. j \in 0 .. s.n
      BY <1>1, <1>4, <2>2
    <3>2. CASE k \in 0 .. s.n
      BY <1>2, <2>2, <3>1, <3>2 DEF Bon, Ordonne
    <3>3. CASE k = n
      BY <1>1, <1>2, <1>3, <1>5, <3>1, <3>3
    <3>. QED BY <1>4, <3>2, <3>3
  <2>. QED BY <1>0, <2>1, <2>2 DEF Ordonne
<1>9. Propre(t)
  <2>1. ASSUME NEW i \in Cellules, i >= fin PROVE i \notin s.l .. fin - 1 /\ i >= s.l
    BY <1>1, <2>1 DEF Cellules
  <2>. QED BY <1>0, <1>8, <2>1 DEF Bon, Propre
<1>10. Variables(t)
  <2>1. ASSUME NEW k \in 0 .. n, NEW i \in D(t, k) .. F(t, k) - 1 PROVE t.PileF[i] \in Simples
    <3>1. CASE k \in 0 .. s.n
      <4>1. i \in D(s, k) .. F(s, k) - 1
        BY <1>2, <2>1, <3>1
      <4>2. i \in Cellules /\ i \notin s.l .. fin - 1
        BY <1>1, <1>5, <3>1, <4>1 DEF Cellules
      <4>. QED BY <1>8, <3>1, <4>1, <4>2 DEF Bon, Variables
    <3>2. CASE k = n
      <4>1. i \in z .. fin - 1
        BY <1>3, <2>1, <3>2
      <4>2. i \in Cellules /\ i \in s.l .. fin - 1
        BY <1>1, <4>1 DEF Cellules
      <4>3. i - s.l + 1 \in param .. q
        BY <1>1, <4>1 DEF z, fin
      <4>. QED BY <1>8, <4>2, <4>3 DEF Passe
    <3>. QED BY <1>4, <3>1, <3>2
  <2>2. ASSUME NEW k \in 1 .. n PROVE t.PileF[D(t, k) - 1] \in Simples
    <3>1. CASE k \in 0 .. s.n
      <4>1. k \in 1 .. s.n /\ 0 \in 0 .. s.n /\ 0 < k
        BY <1>1, <2>2, <3>1
      <4>2. F(s, 0) < D(s, k)
        BY <3>1, <4>1 DEF Bon, Ordonne
      <4>3. D(s, k) - 1 \in Cellules /\ D(s, k) - 1 \notin s.l .. fin - 1
        BY <1>1, <1>5, <3>1, <4>1, <4>2 DEF Cellules
      <4>. QED BY <1>2, <1>8, <3>1, <4>1, <4>3 DEF Bon, Variables
    <3>2. CASE k = n
      <4>1. z - 1 \in Cellules /\ z - 1 \in s.l .. fin - 1
        BY <1>1 DEF Cellules
      <4>2. (z - 1) - s.l + 1 = param /\ param \in param .. q
        BY <1>1 DEF z
      <4>3. t.PileF[z - 1] = p[param]
        BY <1>8, <4>1, <4>2
      <4>. QED BY <1>3, <3>2, <4>2, <4>3 DEF Passe
    <3>3. k \in 0 .. n
      BY <1>1
    <3>. QED BY <1>4, <3>1, <3>2, <3>3
  <2>. QED BY <1>0, <2>1, <2>2 DEF Variables
<1>11. Vivantes(t)
  <2>1. ASSUME NEW k \in 0 .. n - 1, NEW i \in F(t, k) .. D(t, k + 1) - 1, t.PileF[i] \in Refs
        PROVE  t.PileF[i].adr \in D(t, k) .. F(t, k) - 1
    <3>1. CASE k \in 0 .. s.n - 1
      <4>1. k \in 0 .. s.n /\ k + 1 \in 0 .. s.n
        BY <1>1, <3>1
      <4>2. i \in F(s, k) .. D(s, k + 1) - 1
        BY <1>2, <2>1, <4>1
      <4>3. i \in Cellules /\ i \notin s.l .. fin - 1
        BY <1>1, <1>5, <4>1, <4>2 DEF Cellules
      <4>. QED BY <1>2, <1>8, <2>1, <3>1, <4>1, <4>2, <4>3 DEF Bon, Vivantes
    <3>2. CASE k = s.n
      <4>1. k \in 0 .. s.n /\ k + 1 = n
        BY <1>1, <3>2 DEF n
      <4>2. i \in s.l .. z - 1
        BY <1>2, <1>3, <1>6, <2>1, <3>2, <4>1
      <4>3. i \in Cellules /\ i \in s.l .. fin - 1
        BY <1>1, <4>2 DEF Cellules
      <4>4. i - s.l + 1 \in 1 .. q
        BY <1>1, <4>2 DEF z
      <4>. QED BY <1>2, <1>6, <1>8, <2>1, <3>2, <4>1, <4>3, <4>4 DEF Passe
    <3>3. k \in 0 .. s.n - 1 \/ k = s.n
      BY <1>1, <2>1 DEF n
    <3>. QED BY <3>1, <3>2, <3>3
  <2>. QED BY <1>0, <2>1 DEF Vivantes, Appele
<1>12. Situe(t, b)
  BY <1>0, <1>3 DEF Situe
<1>. QED BY <1>7, <1>9, <1>10, <1>11, <1>12 DEF Bon

\* Retour: the caller is found as it was left, but for its result.
LEMMA Revenir ==
  ASSUME NEW s, Bon(s, BasenParams), s.n > 0, s.Pile = <<>> \/ Last(s.Pile) \in Simples
  PROVE  /\ Bon(Retour(s), BasenParams)
         /\ Retour(s).n = s.n - 1
         /\ Retour(s).Pile # <<>> /\ Last(Retour(s).Pile) \in Simples
<1>. DEFINE b == BasenParams
            n == s.n - 1
            a == s.Appel[n]
            t == Retour(s)
            pilef == IF s.Pile = <<>> THEN s.PileF
                     ELSE [s.PileF EXCEPT ![CelluleResultat(a)] = Last(s.Pile)]
<1>1. /\ s \in Etats /\ s.n \in Nat /\ s.n \in 0 .. NMAXAPPELS /\ s.l \in Nat /\ s.l <= Memoire /\ Memoire \in Nat
      /\ NMAXAPPELS \in Nat /\ n \in Nat /\ n \in 0 .. s.n /\ n + 1 = s.n /\ n \in 0 .. NMAXAPPELS /\ s.n \in 0 .. s.n
  <2>1. s \in Etats /\ s.n \in 0 .. NMAXAPPELS
    BY DEF Bon, Etats
  <2>2. s.n \in Nat /\ s.l \in Nat /\ s.l <= Memoire /\ Memoire \in Nat /\ NMAXAPPELS \in Nat
    BY Bornes
  <2>. QED BY <2>1, <2>2
<1>2. /\ a \in Elements /\ a.PosPileF = F(s, n) /\ D(s, s.n) = a.PosPileF + a.lPile
      /\ a.PosPileF \in Nat /\ a.lPile \in Nat
  <2>1. a \in Elements
    BY <1>1 DEF Etats
  <2>2. n # s.n /\ s.n # 0
    BY <1>1
  <2>3. a.PosPileF \in Nat /\ a.lPile \in Nat
    BY <2>1 DEF Elements
  <2>. QED BY <2>1, <2>2, <2>3 DEF D, F
<1>0. n < s.n /\ \A k \in 0 .. n : k \in 0 .. s.n /\ (k # 0 => k - 1 \in 0 .. NMAXAPPELS /\ k - 1 # n)
  BY <1>1
<1>. HIDE DEF n
<1>3. a.lPile > 0 /\ a.PosPileF + a.lPile <= s.l
  <2>1. F(s, n) < D(s, s.n) /\ D(s, s.n) <= s.l
    BY <1>0, <1>1, Bornes DEF Bon, Ordonne
  <2>. HIDE DEF a
  <2>. QED BY <1>1, <1>2, <2>1
<1>. HIDE DEF a
<1>4. CelluleResultat(a) \in Cellules /\ CelluleResultat(a) = D(s, s.n) - 1
  BY <1>1, <1>2, <1>3 DEF CelluleResultat, Cellules
<1>5. /\ pilef \in [Cellules -> Vals]
      /\ \A i \in Cellules : i # CelluleResultat(a) => pilef[i] = s.PileF[i]
      /\ pilef[CelluleResultat(a)] \in Simples
  <2>1. s.PileF \in [Cellules -> Vals] /\ s.PileF[CelluleResultat(a)] \in Simples
    BY <1>1, <1>4 DEF Bon, Variables, Etats
  <2>2. Simples \subseteq Vals
    BY DEF Vals
  <2>. QED BY <1>4, <2>1, <2>2
<1>. HIDE DEF pilef
<1>6. /\ t.Pile = [i \in 1 .. a.lPile |-> pilef[a.PosPileF + i - 1]]
      /\ t.PileF = [i \in Cellules |-> IF i \in Effacees(a, s.l) THEN Inconnu ELSE pilef[i]]
      /\ t.l = a.PosPileF /\ t.n = n
      /\ t.Appel = [s.Appel EXCEPT ![n] = [a EXCEPT !.This = Nul]]
      /\ t.DebutParam = DebutAppelant(s.Appel, n)
      /\ t.DebutVarLoc = IF n = 0 THEN BasenParams ELSE DebutAppelant(s.Appel, n) + s.Appel[n - 1].nParams
      /\ t.Ins = a.Instruction
      /\ t.This = IF a.This # Nul THEN a.This ELSE s.This
  BY DEF Retour, LongueurApres, pilef, a, n
<1>. HIDE DEF t
<1>7. /\ t.Appel \in [0 .. NMAXAPPELS -> Elements]
      /\ \A k \in 0 .. NMAXAPPELS : /\ t.Appel[k].PosPileF = s.Appel[k].PosPileF
                                    /\ t.Appel[k].lPile = s.Appel[k].lPile
                                    /\ t.Appel[k].nParams = s.Appel[k].nParams
  <2>. DEFINE e == [a EXCEPT !.This = Nul]
  <2>1. e \in Elements /\ e.PosPileF = a.PosPileF /\ e.lPile = a.lPile /\ e.nParams = a.nParams
    BY <1>2 DEF Elements
  <2>2. t.Appel = [s.Appel EXCEPT ![n] = e] /\ s.Appel \in [0 .. NMAXAPPELS -> Elements] /\ a = s.Appel[n]
    BY <1>1, <1>6 DEF Etats, a
  <2>. HIDE DEF e
  <2>. QED BY <1>1, <2>1, <2>2
<1>8. \A k \in 0 .. n : D(t, k) = D(s, k) /\ V(t, k, b) = V(s, k, b) /\ F(t, k) = F(s, k)
  <2>. TAKE k \in 0 .. n
  <2>1. k \in 0 .. NMAXAPPELS /\ (k # 0 => k - 1 \in 0 .. NMAXAPPELS) /\ k # s.n
    BY <1>0, <1>1
  <2>. QED BY <1>2, <1>6, <1>7, <2>1 DEF D, V, F
<1>9. Situe(t, b)
  <2>1. D(t, n) = D(s, n) /\ V(t, n, b) = V(s, n, b)
    BY <1>1, <1>8
  <2>. QED BY <1>6, <2>1 DEF Situe, D, V, DebutAppelant
<1>10. \A k \in 0 .. n : /\ D(s, k) \in Nat /\ F(s, k) \in Nat /\ V(s, k, b) \in Nat
                         /\ D(s, k) <= V(s, k, b) /\ V(s, k, b) <= F(s, k) /\ F(s, k) <= a.PosPileF
  <2>. TAKE k \in 0 .. n
  <2>1. k \in 0 .. s.n
    BY <1>0
  <2>2. D(s, k) \in Nat /\ F(s, k) \in Nat /\ V(s, k, b) \in Nat /\ D(s, k) <= V(s, k, b) /\ V(s, k, b) <= F(s, k)
    BY <2>1, Bornes DEF Bon, Ordonne
  <2>3. CASE k = n
    BY <1>2, <2>2, <2>3
  <2>4. CASE k # n
    <3>1. k < n /\ n \in 0 .. s.n
      BY <1>1, <2>4
    <3>2. F(s, k) < D(s, n) /\ D(s, n) <= V(s, n, b) /\ V(s, n, b) <= F(s, n)
      BY <2>1, <3>1 DEF Bon, Ordonne
    <3>3. D(s, n) \in Nat /\ V(s, n, b) \in Nat
      BY <3>1, Bornes
    <3>. QED BY <1>2, <2>2, <3>2, <3>3
  <2>. QED BY <2>2, <2>3, <2>4
<1>11. Ordonne(t, b)
  BY <1>0, <1>6, <1>8 DEF Bon, Ordonne
\* Under the saved expression nothing changes; from there on all is erased.
<1>12. /\ \A i \in Cellules : i < a.PosPileF => t.PileF[i] = s.PileF[i]
       /\ \A i \in Cellules : i >= a.PosPileF => t.PileF[i] = Inconnu
  <2>. SUFFICES ASSUME NEW i \in Cellules
                PROVE  /\ i < a.PosPileF => t.PileF[i] = s.PileF[i]
                       /\ i >= a.PosPileF => t.PileF[i] = Inconnu
    OBVIOUS
  <2>1. i \in Nat
    BY <1>1 DEF Cellules
  <2>2. CASE i < a.PosPileF
    <3>1. i \notin Effacees(a, s.l) /\ i # CelluleResultat(a)
      BY <1>1, <1>2, <1>3, <1>4, <2>1, <2>2 DEF Effacees
    <3>. QED BY <1>2, <1>5, <1>6, <2>1, <2>2, <3>1
  <2>3. CASE i >= a.PosPileF /\ i < s.l
    <3>1. i \in Effacees(a, s.l)
      BY <1>1, <1>2, <2>1, <2>3 DEF Effacees
    <3>. QED BY <1>6, <2>1, <2>3, <3>1, <1>2
  <2>4. CASE i >= s.l
    <3>1. i \notin Effacees(a, s.l) /\ i # CelluleResultat(a) /\ ~ (i < a.PosPileF)
      BY <1>1, <1>2, <1>3, <1>4, <2>1, <2>4 DEF Effacees
    <3>. QED BY <1>5, <1>6, <2>4, <3>1 DEF Bon, Propre
  <2>. QED BY <1>1, <1>2, <2>1, <2>2, <2>3, <2>4
<1>20. a.PosPileF \in Nat /\ a.PosPileF <= Memoire /\ Memoire \in Nat
  BY <1>1, <1>2, <1>3
<1>13. Propre(t)
  BY <1>6, <1>12 DEF Propre
<1>14. Variables(t)
  <2>1. ASSUME NEW k \in 0 .. n, NEW i \in D(t, k) .. F(t, k) - 1 PROVE t.PileF[i] \in Simples
    <3>1. i \in D(s, k) .. F(s, k) - 1 /\ k \in 0 .. s.n
      BY <1>0, <1>8, <2>1
    <3>2. D(s, k) \in Nat /\ F(s, k) \in Nat /\ F(s, k) <= a.PosPileF
      BY <1>10
    <3>3. i \in Cellules /\ i < a.PosPileF
      BY <1>20, <3>1, <3>2 DEF Cellules
    <3>. QED BY <1>12, <3>1, <3>3 DEF Bon, Variables
  <2>2. ASSUME NEW k \in 1 .. n PROVE t.PileF[D(t, k) - 1] \in Simples
    <3>1. k \in 0 .. n /\ 0 \in 0 .. s.n /\ 0 < k /\ k \in 0 .. s.n /\ k \in 1 .. s.n /\ 0 \in 0 .. n
      BY <1>1
    <3>2. F(s, 0) < D(s, k)
      BY <3>1 DEF Bon, Ordonne
    <3>4. /\ D(s, k) \in Nat /\ F(s, k) \in Nat /\ F(s, k) <= a.PosPileF /\ D(s, k) <= F(s, k)
          /\ F(s, 0) \in Nat
      BY <1>10, <3>1
    <3>3. D(s, k) - 1 \in Cellules /\ D(s, k) - 1 < a.PosPileF
      BY <1>20, <3>2, <3>4 DEF Cellules
    <3>. QED BY <1>8, <1>12, <3>1, <3>3 DEF Bon, Variables
  <2>. QED BY <1>6, <2>1, <2>2 DEF Variables
<1>15. t.Pile \in Seq(Vals) /\ Len(t.Pile) = a.lPile
       /\ \A i \in 1 .. a.lPile : t.Pile[i] = pilef[a.PosPileF + i - 1] /\ a.PosPileF + i - 1 \in Cellules
  <2>1. \A i \in 1 .. a.lPile : a.PosPileF + i - 1 \in Cellules
    BY <1>1, <1>2, <1>3, SMTT(20) DEF Cellules
  <2>2. \A i \in 1 .. a.lPile : pilef[a.PosPileF + i - 1] \in Vals
    BY <1>5, <2>1
  <2>3. t.Pile \in [1 .. a.lPile -> Vals] /\ a.lPile \in Nat
    BY <1>2, <1>6, <2>2
  <2>4. t.Pile \in Seq(Vals) /\ Len(t.Pile) = a.lPile
    BY <2>3
  <2>5. \A i \in 1 .. a.lPile : t.Pile[i] = pilef[a.PosPileF + i - 1]
    BY <1>6
  <2>. QED BY <2>1, <2>4, <2>5
<1>16. Last(t.Pile) \in Simples /\ t.Pile # <<>>
  <2>1. a.lPile \in 1 .. a.lPile /\ a.PosPileF + a.lPile - 1 = CelluleResultat(a)
    BY <1>2, <1>3 DEF CelluleResultat
  <2>2. t.Pile[a.lPile] \in Simples
    BY <1>5, <1>15, <2>1
  <2>. QED BY <1>3, <1>15, <2>2 DEF Last
<1>17. Vivantes(t)
  <2>1. ASSUME NEW i \in DOMAIN t.Pile, t.Pile[i] \in Refs PROVE t.Pile[i].adr \in D(t, n) .. t.l - 1
    <3>. DEFINE c == a.PosPileF + i - 1
    <3>1. i \in 1 .. a.lPile
      BY <1>15
    <3>2. c \in Cellules /\ t.Pile[i] = pilef[c] /\ c \in F(s, n) .. D(s, s.n) - 1
      BY <1>2, <1>15, <3>1
    <3>. HIDE DEF c
    <3>3. t.Pile[i] = s.PileF[c]
      BY <1>5, <2>1, <3>2, AppelsAssumption
    <3>4. n \in 0 .. s.n - 1 /\ n + 1 = s.n
      BY <1>0, <1>1
    <3>5. s.PileF[c].adr \in D(s, n) .. F(s, n) - 1
      BY <2>1, <3>2, <3>3, <3>4 DEF Bon, Vivantes
    <3>. QED BY <1>1, <1>2, <1>6, <1>8, <3>3, <3>5, SMTT(20)
  <2>2. ASSUME NEW k \in 0 .. n - 1, NEW i \in F(t, k) .. D(t, k + 1) - 1, t.PileF[i] \in Refs
        PROVE  t.PileF[i].adr \in D(t, k) .. F(t, k) - 1
    <3>1. k \in 0 .. n /\ k + 1 \in 0 .. n /\ k \in 0 .. s.n - 1
      BY <1>1
    <3>2. i \in F(s, k) .. D(s, k + 1) - 1
      BY <1>8, <2>2, <3>1
    <3>4. F(s, k) \in Nat /\ D(s, k + 1) \in Nat /\ D(s, k + 1) <= a.PosPileF
      BY <1>2, <1>10, <3>1
    <3>3. i \in Cellules /\ i < a.PosPileF
      BY <1>20, <3>2, <3>4 DEF Cellules
    <3>. QED BY <1>8, <1>12, <2>2, <3>1, <3>2, <3>3 DEF Bon, Vivantes
  <2>. QED BY <1>6, <2>1, <2>2 DEF Vivantes
<1>18. t \in Etats
  <2>1. t.PileF \in [Cellules -> Vals]
    BY <1>5, <1>6 DEF Vals, Simples
  <2>2. a.PosPileF \in 0 .. Memoire
    BY <1>1, <1>2, <1>3
  <2>3. t.DebutParam \in Nat /\ t.DebutVarLoc \in Nat
    <3>2. n \in 0 .. n
      BY <1>1
    <3>1. D(t, n) \in Nat /\ V(t, n, b) \in Nat
      BY <1>8, <1>10, <3>2
    <3>. QED BY <1>6, <1>9, <3>1 DEF Situe
  <2>4. t.Ins \in Lieux \cup {Nul} /\ t.This \in Objets \cup {Nul}
    BY <1>1, <1>2, <1>6 DEF Elements, Etats
  <2>5. t = [Pile |-> t.Pile, PileF |-> t.PileF, l |-> t.l, Appel |-> t.Appel, n |-> t.n,
             DebutParam |-> t.DebutParam, DebutVarLoc |-> t.DebutVarLoc, Ins |-> t.Ins, This |-> t.This]
    BY DEF t, Retour
  <2>. QED BY <1>1, <1>6, <1>7, <1>15, <2>1, <2>2, <2>3, <2>4, <2>5 DEF Etats
<1>19. Bon(t, b)
  BY <1>9, <1>11, <1>13, <1>14, <1>17, <1>18 DEF Bon
<1>. QED BY <1>6, <1>16, <1>19 DEF t, n
-----------------------------------------------------------------------------
(* The loop of Exception. *)

\* d[a] is the state when a calls are left: the loop of Exception from X, with
\* n calls.
Deroule(d, n, X) == d = [a \in 0 .. n |-> IF a = n THEN X ELSE Retour(d[a + 1])]

\* The loop has a result: the greatest number of calls from which it had none
\* would have one more.
LEMMA Boucle ==
  ASSUME NEW n \in Nat, NEW X
  PROVE  \E d : Deroule(d, n, X)
<1>. DEFINE Partiel(g, k) == g = [a \in k .. n |-> IF a = n THEN X ELSE Retour(g[a + 1])]
            T == {k \in 0 .. n : ~ \E g : Partiel(g, k)}
<1>1. SUFFICES ASSUME T # {} PROVE FALSE
  <2>1. 0 \notin T
    BY <1>1
  <2>2. PICK g : Partiel(g, 0)
    BY <2>1
  <2>. QED BY <2>2 DEF Deroule
<1>2. PICK k \in T : \A j \in T : k >= j
  <2>1. T \in SUBSET (0 .. n)
    OBVIOUS
  <2>. HIDE DEF T
  <2>. QED BY <1>1, <2>1, PlusGrand
<1>3. k # n
  <2>1. Partiel([a \in n .. n |-> X], n)
    OBVIOUS
  <2>. QED BY <2>1
<1>4. k + 1 \in 0 .. n /\ k + 1 \notin T
  BY <1>2, <1>3
<1>5. PICK g : Partiel(g, k + 1)
  BY <1>4
<1>. DEFINE h == [a \in k .. n |-> IF a = k THEN Retour(g[k + 1]) ELSE g[a]]
<1>6. Partiel(h, k)
  <2>1. ASSUME NEW a \in k .. n PROVE h[a] = IF a = n THEN X ELSE Retour(h[a + 1])
    <3>1. CASE a = k
      <4>1. k + 1 \in k .. n /\ k + 1 # k /\ k # n
        BY <1>3, <1>4
      <4>. QED BY <3>1, <4>1
    <3>2. CASE a # k
      <4>1. a \in k + 1 .. n /\ (a # n => a + 1 \in k .. n /\ a + 1 # k)
        BY <3>2
      <4>2. g[a] = IF a = n THEN X ELSE Retour(g[a + 1])
        BY <1>5, <4>1
      <4>. QED BY <3>2, <4>1, <4>2
    <3>. QED BY <3>1, <3>2
  <2>. QED BY <2>1
<1>. QED BY <1>6

\* Every state of the loop is a good one, with as many calls as are left.
LEMMA Deroulement ==
  ASSUME NEW s, Bon(s, BasenParams), NEW d, Deroule(d, s.n, [s EXCEPT !.Pile = <<>>])
  PROVE  \A a \in 0 .. s.n : Bon(d[a], BasenParams) /\ d[a].n = a
<1>. DEFINE X == [s EXCEPT !.Pile = <<>>]
            Juste(a) == /\ Bon(d[a], BasenParams) /\ d[a].n = a
                        /\ d[a].Pile = <<>> \/ Last(d[a].Pile) \in Simples
            T == {a \in 0 .. s.n : ~Juste(a)}
<1>1. s.n \in Nat /\ s.n \in 0 .. s.n
  BY Bornes
<1>2. \A a \in 0 .. s.n : d[a] = IF a = s.n THEN X ELSE Retour(d[a + 1])
  BY DEF Deroule
<1>3. Juste(s.n)
  <2>1. X = Suite(s, <<>>, s.Ins)
    BY DEF Bon, Etats, Suite
  <2>2. <<>> \in Seq(Vals) /\ s.Ins \in Lieux \cup {Nul}
    BY DEF Bon, Etats
  <2>3. Bon(X, BasenParams)
    <3>. DEFINE p == <<>>
    <3>1. p \in Seq(Vals) /\ \A i \in DOMAIN p : FALSE
      OBVIOUS
    <3>2. X = Suite(s, p, s.Ins)
      BY <2>1
    <3>. HIDE DEF p, X
    <3>. QED BY <2>2, <3>1, <3>2, Calcul
  <2>4. X.n = s.n /\ X.Pile = <<>>
    BY DEF Bon, Etats
  <2>. HIDE DEF X
  <2>. QED BY <1>1, <1>2, <2>3, <2>4
<1>. HIDE DEF X
<1>4. SUFFICES ASSUME T # {} PROVE FALSE
  BY <1>4
<1>5. PICK k \in T : \A j \in T : k >= j
  <2>1. T \in SUBSET (0 .. s.n)
    OBVIOUS
  <2>. HIDE DEF T
  <2>. QED BY <1>1, <1>4, <2>1, PlusGrand
<1>6. k # s.n
  BY <1>3
<1>7. k + 1 \in 0 .. s.n /\ ~ (k >= k + 1) /\ k \in Nat
  BY <1>1, <1>6
<1>8. Juste(k + 1)
  BY <1>5, <1>7
<1>9. d[k] = Retour(d[k + 1])
  BY <1>2, <1>6
<1>10. Juste(k)
  BY <1>7, <1>8, <1>9, Revenir
<1>. QED BY <1>10

-----------------------------------------------------------------------------
(* Every instruction. *)

Inv == Bon(Etat, BasenParams)

\* One more value on the expression, and PileF up to m.
Empilee(s, v, m) ==
  [Pile |-> Append(s.Pile, v), PileF |-> s.PileF, l |-> m, Appel |-> s.Appel, n |-> s.n,
   DebutParam |-> s.DebutParam, DebutVarLoc |-> s.DebutVarLoc, Ins |-> s.Ins, This |-> s.This]

\* Likewise for one value more.
LEMMA Empilement ==
  ASSUME NEW b, NEW s, Bon(s, b), NEW m \in s.l .. Memoire, NEW v \in Vals,
         v \in Refs => v.adr \in D(s, s.n) .. m - 1
  PROVE  Bon(Empilee(s, v, m), b)
<1>. DEFINE t == [s EXCEPT !.l = m]
            p == Append(s.Pile, v)
<1>1. Bon(t, b)
  BY Agrandi
<1>2. t.l = m /\ t.n = s.n /\ t.Appel = s.Appel /\ t.Ins = s.Ins /\ t.Ins \in Lieux \cup {Nul}
      /\ Empilee(s, v, m) = Suite(t, p, t.Ins)
  BY DEF Bon, Etats, Empilee, Suite
<1>. HIDE DEF t
<1>3. D(t, t.n) = D(s, s.n)
  BY <1>2 DEF D
<1>4. s.Pile \in Seq(Vals) /\ p \in Seq(Vals) /\ Len(p) = Len(s.Pile) + 1 /\ p[Len(p)] = v
      /\ \A i \in 1 .. Len(s.Pile) : p[i] = s.Pile[i]
  BY DEF Bon, Etats
<1>5. ASSUME NEW i \in DOMAIN p, p[i] \in Refs PROVE p[i].adr \in D(t, t.n) .. t.l - 1
  <2>1. i \in 1 .. Len(s.Pile) \/ i = Len(p)
    BY <1>4
  <2>2. CASE i = Len(p)
    BY <1>2, <1>3, <1>4, <1>5, <2>2
  <2>3. CASE i \in 1 .. Len(s.Pile)
    <3>1. i \in DOMAIN s.Pile /\ s.Pile[i] = p[i]
      BY <1>4, <2>3
    <3>2. p[i].adr \in D(s, s.n) .. s.l - 1
      BY <1>5, <3>1 DEF Bon, Vivantes
    <3>3. D(s, s.n) \in Nat /\ s.l \in Nat /\ s.l <= m /\ m \in Nat
      BY Bornes
    <3>. QED BY <1>2, <1>3, <3>2, <3>3, SMTT(20)
  <2>. QED BY <2>1, <2>2, <2>3
<1>. HIDE DEF p
<1>6. Bon(Suite(t, p, t.Ins), b)
  BY <1>1, <1>2, <1>4, <1>5, Calcul
<1>. QED BY <1>2, <1>6 DEF p

\* What the names of Appels are, seen from Etat.
LEMMA Lecture ==
  ASSUME Inv
  PROVE  /\ Etat.Pile = Pile /\ Etat.PileF = PileF /\ Etat.l = l /\ Etat.Appel = Appel
         /\ Etat.n = nAppels /\ Etat.DebutParam = DebutParam /\ Etat.DebutVarLoc = DebutVarLoc
         /\ Etat.Ins = Ins /\ Etat.This = This /\ BasenParams \in Nat
         /\ Pile \in Seq(Vals) /\ PileF \in [Cellules -> Vals] /\ l \in 0 .. Memoire
         /\ Appel \in [0 .. NMAXAPPELS -> Elements] /\ nAppels \in 0 .. NMAXAPPELS
         /\ DebutParam \in Nat /\ DebutVarLoc \in Nat
         /\ Ins \in Lieux \cup {Nul} /\ This \in Objets \cup {Nul}
         /\ D(Etat, nAppels) = DebutParam /\ V(Etat, nAppels, BasenParams) = DebutVarLoc
         /\ DebutParam <= DebutVarLoc /\ DebutVarLoc <= l
         /\ \A i \in DebutParam .. l - 1 : PileF[i] \in Simples
         /\ \A i \in DOMAIN Pile : Pile[i] \in Refs => Pile[i].adr \in DebutParam .. l - 1
<1>1. /\ Etat.Pile = Pile /\ Etat.PileF = PileF /\ Etat.l = l /\ Etat.Appel = Appel
      /\ Etat.n = nAppels /\ Etat.DebutParam = DebutParam /\ Etat.DebutVarLoc = DebutVarLoc
      /\ Etat.Ins = Ins /\ Etat.This = This /\ BasenParams \in Nat
  BY DEF Inv, Etat, Bon
<1>2. Etat \in Etats
  BY DEF Inv, Bon
<1>3. /\ Pile \in Seq(Vals) /\ PileF \in [Cellules -> Vals] /\ l \in 0 .. Memoire
      /\ Appel \in [0 .. NMAXAPPELS -> Elements] /\ nAppels \in 0 .. NMAXAPPELS
      /\ DebutParam \in Nat /\ DebutVarLoc \in Nat
      /\ Ins \in Lieux \cup {Nul} /\ This \in Objets \cup {Nul}
  BY <1>1, <1>2 DEF Etats
<1>4. D(Etat, nAppels) = DebutParam /\ V(Etat, nAppels, BasenParams) = DebutVarLoc /\ F(Etat, nAppels) = l
  BY <1>1 DEF Inv, Bon, Situe, F
<1>5. nAppels \in 0 .. nAppels
  BY <1>3
<1>6. DebutParam <= DebutVarLoc /\ DebutVarLoc <= l
  BY <1>1, <1>4, <1>5 DEF Inv, Bon, Ordonne
<1>7. \A i \in DebutParam .. l - 1 : PileF[i] \in Simples
  BY <1>1, <1>4, <1>5 DEF Inv, Bon, Variables
<1>8. \A i \in DOMAIN Pile : Pile[i] \in Refs => Pile[i].adr \in DebutParam .. l - 1
  BY <1>1, <1>4 DEF Inv, Bon, Vivantes
<1>. QED BY <1>1, <1>3, <1>4, <1>6, <1>7, <1>8

\* An interpreter starts with one empty frame.
LEMMA AuDepart == Init => Inv
<1>. SUFFICES ASSUME Init PROVE Inv
  OBVIOUS
<1>1. Etat \in Etats
  <2>1. AppelVide \in Elements
    BY DEF AppelVide, Elements
  <2>2. 0 \in 0 .. Memoire /\ 0 \in 0 .. NMAXAPPELS
    BY AppelsAssumption
  <2>3. PileF \in [Cellules -> Vals] /\ Pile \in Seq(Vals)
    BY DEF Init, Vals, Simples
  <2>4. Appel \in [0 .. NMAXAPPELS -> Elements]
    <3>1. PICK garde \in [0 .. NMAXAPPELS -> Restes] :
            Appel = [a \in 0 .. NMAXAPPELS |-> [AppelVide EXCEPT !.This = garde[a]]]
      BY DEF Init
    <3>2. \A a \in 0 .. NMAXAPPELS : garde[a] \in Objets \cup {Nul}
      BY AppelsAssumption
    <3>3. \A a \in 0 .. NMAXAPPELS : [AppelVide EXCEPT !.This = garde[a]] \in Elements
      BY <2>1, <3>2 DEF Elements
    <3>. QED BY <3>1, <3>3
  <2>. QED BY <2>2, <2>3, <2>4 DEF Init, Etat, Etats
<1>2. Etat.n = 0 /\ Etat.l = 0 /\ Etat.DebutParam = 0 /\ Etat.DebutVarLoc = 0 /\ BasenParams = 0
      /\ Etat.Pile = <<>> /\ \A i \in Cellules : Etat.PileF[i] = Inconnu
  BY DEF Init, Etat
<1>3. D(Etat, 0) = 0 /\ V(Etat, 0, BasenParams) = 0 /\ F(Etat, 0) = 0
  BY <1>2 DEF D, V, F
<1>4. Situe(Etat, BasenParams) /\ Ordonne(Etat, BasenParams) /\ Propre(Etat)
  BY <1>2, <1>3 DEF Situe, Ordonne, Propre
<1>5. Variables(Etat) /\ Vivantes(Etat)
  BY <1>2, <1>3 DEF Variables, Vivantes
<1>. QED BY <1>1, <1>2, <1>4, <1>5 DEF Inv, Bon

\* A value of the code, of a variable, or the name of a variable.
LEMMA Empile ==
  ASSUME Inv, NEW v \in Vals, Empiler(v), UNCHANGED <<PileF, appels, Ins>>,
         l' \in l .. Memoire, v \in Refs => v.adr \in DebutParam .. l' - 1
  PROVE  Inv'
<1>1. Etat' = Empilee(Etat, v, l') /\ BasenParams' = BasenParams
  <2>1. /\ Pile' = Append(Pile, v) /\ PileF' = PileF /\ Appel' = Appel /\ nAppels' = nAppels
        /\ DebutParam' = DebutParam /\ DebutVarLoc' = DebutVarLoc /\ BasenParams' = BasenParams
        /\ Ins' = Ins /\ This' = This
    BY DEF Empiler, appels
  <2>. QED BY <2>1 DEF Etat, Empilee
<1>2. Bon(Empilee(Etat, v, l'), BasenParams)
  <2>1. Etat.l = l /\ Etat.Pile = Pile /\ D(Etat, Etat.n) = DebutParam /\ Bon(Etat, BasenParams)
    BY Lecture DEF Inv
  <2>. QED BY <2>1, Empilement
<1>3. Etat.Pile = Pile
  BY Lecture
<1>. QED BY <1>1, <1>2, <1>3 DEF Inv

\* Another expression without references but those of Pile.
LEMMA Ligne ==
  ASSUME Inv, Pile' \in Seq(Vals), Ins' \in Lieux \cup {Nul}, UNCHANGED <<memoire, appels>>,
         \A i \in DOMAIN Pile' : Pile'[i] \in Refs => Pile'[i].adr \in DebutParam .. l - 1
  PROVE  Inv'
<1>1. Etat' = Suite(Etat, Pile', Ins') /\ BasenParams' = BasenParams
  <2>1. /\ PileF' = PileF /\ l' = l /\ Appel' = Appel /\ nAppels' = nAppels
        /\ DebutParam' = DebutParam /\ DebutVarLoc' = DebutVarLoc /\ BasenParams' = BasenParams
        /\ This' = This
    BY DEF memoire, appels
  <2>. QED BY <2>1 DEF Etat, Suite
<1>2. Etat.l = l /\ D(Etat, Etat.n) = DebutParam /\ Bon(Etat, BasenParams)
  BY Lecture DEF Inv
<1>3. Bon(Suite(Etat, Pile', Ins'), BasenParams)
  BY <1>2, Calcul
<1>. QED BY <1>1, <1>3 DEF Inv

\* I_CONSTANTE adds a value that is no reference.
LEMMA ConstanteJuste == ASSUME Inv, Constante PROVE Inv'
<1>1. PICK v \in Valeurs \cup Objets \cup {Marque} : Empiler(v) /\ UNCHANGED <<memoire, appels, Ins>>
  BY DEF Constante
<1>2. v \in Simples /\ v \in Vals /\ v \notin Refs
  BY AppelsAssumption DEF Simples, Vals
<1>3. l' \in l .. Memoire /\ UNCHANGED <<PileF, appels, Ins>>
  BY <1>1, Lecture, AppelsAssumption DEF memoire
<1>. QED BY <1>1, <1>2, <1>3, Empile

\* I_DEBUTLIGNE leaves an empty expression.
LEMMA DebutLigneJuste == ASSUME Inv, DebutLigne PROVE Inv'
<1>1. /\ Pile' \in Seq(Vals) /\ Ins' \in Lieux \cup {Nul} /\ UNCHANGED <<memoire, appels>>
      /\ \A i \in DOMAIN Pile' : FALSE
  BY DEF DebutLigne
<1>. QED BY <1>1, Ligne

\* I_ENERREUR changes no offset.
LEMMA EnErreurJuste == ASSUME Inv, EnErreur PROVE Inv'
<1>1. PICK h \in Lieux : Appel' = [Appel EXCEPT ![nAppels].EnErreur = h]
  BY DEF EnErreur
<1>2. Etat.Appel = Appel /\ Etat.n = nAppels /\ Bon(Etat, BasenParams)
  BY Lecture DEF Inv
<1>3. Etat' = [Etat EXCEPT !.Appel = [Appel EXCEPT ![nAppels].EnErreur = h]] /\ BasenParams' = BasenParams
  BY <1>1 DEF EnErreur, Etat, memoire
<1>4. Bon([Etat EXCEPT !.Appel = [Etat.Appel EXCEPT ![Etat.n].EnErreur = h]], BasenParams)
  BY <1>2, Gestion
<1>. QED BY <1>2, <1>3, <1>4 DEF Inv

\* RedimMin never makes PileF shorter.
LEMMA Etendue ==
  ASSUME Inv, NEW m \in Nat, RedimMin(m)
  PROVE  l' \in l .. Memoire /\ m <= l' /\ (m <= l => l' = l)
BY Lecture, AppelsAssumption DEF RedimMin, Maxi

\* I_VARIABLELOC makes the cell it designates part of its frame.
LEMMA VariableLocJuste == ASSUME Inv, VariableLoc PROVE Inv'
<1>1. PICK n \in Locales : /\ Empiler([adr |-> DebutVarLoc + n])
                           /\ RedimMin(DebutVarLoc + n + 1)
                           /\ UNCHANGED <<PileF, appels, Ins>>
  BY DEF VariableLoc
<1>. DEFINE a == DebutVarLoc + n
            v == [adr |-> a]
<1>2. /\ a \in Nat /\ a + 1 \in Nat /\ DebutParam \in Nat /\ DebutParam <= a /\ l \in Nat /\ Memoire \in Nat
      /\ RedimMin(a + 1)
  BY <1>1, Lecture, AppelsAssumption
<1>3. l' \in l .. Memoire /\ a + 1 <= l'
  BY <1>2, Etendue
<1>4. v \in Refs /\ v \in Vals /\ v.adr \in DebutParam .. l' - 1
  BY <1>2, <1>3 DEF Refs, Vals, Cellules
<1>. HIDE DEF a
<1>. QED BY <1>1, <1>3, <1>4, Empile DEF a

\* I_VALEURVARLOC reads a cell of its frame, or one that was never written.
LEMMA ValeurVarLocJuste == ASSUME Inv, ValeurVarLoc PROVE Inv'
<1>1. PICK n \in Locales : /\ RedimMin(DebutVarLoc + n + 1)
                           /\ Empiler(PileF[DebutVarLoc + n])
                           /\ UNCHANGED <<PileF, appels, Ins>>
  BY DEF ValeurVarLoc
<1>. DEFINE a == DebutVarLoc + n
<1>2. /\ a \in Nat /\ a + 1 \in Nat /\ DebutParam \in Nat /\ DebutParam <= a /\ l \in Nat /\ Memoire \in Nat
      /\ RedimMin(a + 1)
  BY <1>1, Lecture, AppelsAssumption
<1>3. l' \in l .. Memoire /\ a + 1 <= l'
  BY <1>2, Etendue
<1>4. PileF[a] \in Simples
  <2>1. CASE a < l
    BY <1>2, <2>1, Lecture
  <2>2. CASE a >= l
    <3>1. a \in Cellules
      BY <1>2, <1>3 DEF Cellules
    <3>2. Etat.PileF = PileF /\ Etat.l = l /\ Propre(Etat)
      BY Lecture DEF Inv, Bon
    <3>. QED BY <2>2, <3>1, <3>2 DEF Propre, Simples
  <2>. QED BY <1>2, <2>1, <2>2
<1>5. PileF[a] \in Vals /\ PileF[a] \notin Refs
  BY <1>4, AppelsAssumption DEF Vals
<1>. QED BY <1>1, <1>3, <1>5, Empile

\* I_PARAMREF designates a cell of its frame.
LEMMA ParamRefJuste == ASSUME Inv, ParamRef PROVE Inv'
<1>1. PICK n \in Nommes : /\ Empiler([adr |-> DebutParam + n])
                          /\ RedimMin(DebutParam + n + 1)
                          /\ UNCHANGED <<PileF, appels, Ins>>
  BY DEF ParamRef
<1>. DEFINE a == DebutParam + n
            v == [adr |-> a]
<1>2. /\ a \in Nat /\ a + 1 \in Nat /\ DebutParam \in Nat /\ DebutParam <= a /\ l \in Nat /\ Memoire \in Nat
      /\ RedimMin(a + 1)
  BY <1>1, Lecture, AppelsAssumption DEF Nommes
<1>3. l' \in l .. Memoire /\ a + 1 <= l'
  BY <1>2, Etendue
<1>4. v \in Refs /\ v \in Vals /\ v.adr \in DebutParam .. l' - 1
  BY <1>2, <1>3 DEF Refs, Vals, Cellules
<1>. HIDE DEF a
<1>. QED BY <1>1, <1>3, <1>4, Empile DEF a

\* I_PARAMVAL reads a cell of its frame.
LEMMA ParamValJuste == ASSUME Inv, ParamVal PROVE Inv'
<1>1. PICK n \in Nommes : Empiler(PileF[DebutParam + n]) /\ UNCHANGED <<memoire, appels, Ins>>
  BY DEF ParamVal
<1>. DEFINE a == DebutParam + n
<1>2. a \in DebutParam .. l - 1
  BY <1>1, Lecture, AppelsAssumption DEF Nommes
<1>3. PileF[a] \in Vals /\ PileF[a] \notin Refs
  BY <1>2, Lecture, AppelsAssumption DEF Vals
<1>4. l' \in l .. Memoire /\ UNCHANGED <<PileF, appels, Ins>>
  BY <1>1, Lecture, AppelsAssumption DEF memoire
<1>. QED BY <1>1, <1>3, <1>4, Empile

\* What is left of an expression is in it.
LEMMA Reste ==
  ASSUME Inv, NEW k \in 0 .. Len(Pile)
  PROVE  /\ SubSeq(Pile, 1, k) \in Seq(Vals) /\ Len(SubSeq(Pile, 1, k)) = k
         /\ \A i \in 1 .. k : SubSeq(Pile, 1, k)[i] = Pile[i] /\ i \in DOMAIN Pile
         /\ \A i \in 1 .. k : Pile[i] \in Refs => Pile[i].adr \in DebutParam .. l - 1
<1>1. Pile \in Seq(Vals) /\ \A i \in DOMAIN Pile : Pile[i] \in Refs => Pile[i].adr \in DebutParam .. l - 1
  BY Lecture
<1>2. \A i \in 1 .. k : i \in DOMAIN Pile
  BY <1>1
<1>3. /\ SubSeq(Pile, 1, k) \in Seq(Vals) /\ Len(SubSeq(Pile, 1, k)) = k
      /\ \A i \in 1 .. k : SubSeq(Pile, 1, k)[i] = Pile[i]
  BY <1>1, <1>2
<1>. QED BY <1>1, <1>2, <1>3

\* I_DEFINIR writes a variable of the current frame.
LEMMA DefinirJuste == ASSUME Inv, Definir PROVE Inv'
<1>. DEFINE k == Len(Pile)
            a == Pile[k - 1].adr
            v == Pile[k]
            p == SubSeq(Pile, 1, k - 2)
            f == [PileF EXCEPT ![a] = v]
            t == [Etat EXCEPT !.PileF = f]
<1>1. /\ k >= 2 /\ v \in Simples /\ Pile[k - 1] \in Refs
      /\ PileF' = f /\ Pile' = p /\ UNCHANGED <<l, appels, Ins>>
  BY DEF Definir
<1>2. Pile \in Seq(Vals) /\ k \in Nat /\ k - 2 \in 0 .. Len(Pile) /\ k - 1 \in DOMAIN Pile
  BY <1>1, Lecture
<1>3. a \in DebutParam .. l - 1
  BY <1>1, <1>2, Lecture
<1>4. p \in Seq(Vals) /\ \A i \in DOMAIN p : p[i] \in Refs => p[i].adr \in DebutParam .. l - 1
  <2>. DEFINE j == k - 2
  <2>1. j \in 0 .. Len(Pile) /\ p = SubSeq(Pile, 1, j)
    BY <1>2
  <2>. HIDE DEF j, p
  <2>2. /\ p \in Seq(Vals) /\ Len(p) = j
        /\ \A i \in 1 .. j : p[i] = Pile[i]
        /\ \A i \in 1 .. j : Pile[i] \in Refs => Pile[i].adr \in DebutParam .. l - 1
    BY <2>1, Reste
  <2>3. DOMAIN p = 1 .. j
    BY <2>2
  <2>. QED BY <2>2, <2>3
<1>5. Etat.PileF = PileF /\ Etat.l = l /\ Etat.n = nAppels /\ D(Etat, Etat.n) = DebutParam /\ Bon(Etat, BasenParams)
  BY Lecture DEF Inv
<1>. HIDE DEF a, v, p
<1>6. Bon(t, BasenParams)
  BY <1>1, <1>3, <1>5, Affectation
<1>7. t.n = nAppels /\ t.l = l /\ t.Appel = Appel
      /\ Etat' = Suite(t, p, Ins) /\ BasenParams' = BasenParams
  <2>1. /\ Pile' = p /\ PileF' = f /\ l' = l /\ Appel' = Appel /\ nAppels' = nAppels
        /\ DebutParam' = DebutParam /\ DebutVarLoc' = DebutVarLoc /\ BasenParams' = BasenParams
        /\ Ins' = Ins /\ This' = This
    BY <1>1 DEF appels
  <2>. HIDE DEF f
  <2>. QED BY <2>1 DEF Etat, Suite
<1>8. D(t, t.n) = DebutParam
  BY <1>5, <1>7, Lecture DEF D
<1>9. Ins \in Lieux \cup {Nul}
  BY Lecture
<1>. HIDE DEF t
<1>10. Bon(Suite(t, p, Ins), BasenParams)
  BY <1>4, <1>6, <1>7, <1>8, <1>9, Calcul
<1>. QED BY <1>7, <1>10 DEF Inv

\* t is s after AppelerEtiquette, what Appele does not say of it: v is called,
\* and the element of Appel keeps garde.
Suspend(s, t, v, garde) ==
  /\ \A k \in 0 .. s.n - 1 : t.Appel[k] = s.Appel[k]
  /\ t.Appel[s.n].Instruction = s.Ins /\ t.Appel[s.n].EnErreur = s.Appel[s.n].EnErreur
  /\ t.Appel[s.n].This = garde
  /\ t.Appel[s.n + 1].EnErreur = Nul
  /\ \A k \in s.n + 1 .. NMAXAPPELS : t.Appel[k].This = s.Appel[k].This
  /\ t.Ins = v

\* What AppelerEtiquette does, from an instruction.
LEMMA AppelFait ==
  ASSUME Inv, NEW p \in Seq(Vals), NEW v \in Lieux, NEW garde \in Objets \cup {Nul},
         AppelerEtiquette(p, v, garde), Pile' \in Seq(Simples), This' \in Objets \cup {Nul}
  PROVE  /\ Etat' \in Etats /\ BasenParams' = BasenParams /\ Etat.l + Len(p) <= Memoire
         /\ DerniereMarque(p) \in 1 .. Len(p) /\ p[DerniereMarque(p)] = Marque
         /\ \A i \in DerniereMarque(p) .. Len(p) : p[i] \in Simples
         /\ Appele(Etat, Etat', p, Len(p), DerniereMarque(p))
         /\ Suspend(Etat, Etat', v, garde)
<1>. DEFINE param == DerniereMarque(p)
            q == Len(p)
            n == nAppels + 1
            e == [Instruction |-> Ins, lPile |-> param, PosPileF |-> l, nParams |-> q - param,
                  This |-> garde, EnErreur |-> Appel[nAppels].EnErreur]
            A == [Appel EXCEPT ![nAppels] = e]
<1>0. Appel \in [0 .. NMAXAPPELS -> Elements] /\ nAppels \in 0 .. NMAXAPPELS
  BY Lecture
<1>1. /\ nAppels < NMAXAPPELS /\ param > 0 /\ \A i \in param + 1 .. q : p[i] \in Simples
      /\ l + q <= Memoire /\ Appel' = SansGestionnaire(A, n)
      /\ DebutParam' = l + param /\ DebutVarLoc' = l + q
      /\ PileF' = Sauvee(p)
      /\ l' = l + q /\ nAppels' = n /\ Ins' = v /\ BasenParams' = BasenParams
  BY DEF AppelerEtiquette
<1>2. q \in Nat /\ param \in 1 .. q /\ p[param] = Marque /\ p[param] \in Simples /\ q - param \in Nat
  <2>1. param \in 0 .. q /\ p[param] = Marque
    BY <1>1, Marquage
  <2>. QED BY <1>1, <2>1 DEF Simples
<1>. HIDE DEF param
<1>3. /\ l \in 0 .. Memoire /\ nAppels \in 0 .. NMAXAPPELS /\ n \in 0 .. NMAXAPPELS /\ n # nAppels
      /\ l \in Nat /\ nAppels \in Nat /\ Memoire \in Nat
      /\ Appel \in [0 .. NMAXAPPELS -> Elements] /\ PileF \in [Cellules -> Vals]
      /\ Ins \in Lieux \cup {Nul}
  BY <1>1, Lecture, AppelsAssumption, SMTT(20)
<1>4. e \in Elements /\ e.PosPileF = l /\ e.lPile = param /\ e.nParams = q - param
  <2>1. Appel[nAppels] \in Elements
    BY <1>3
  <2>. QED BY <1>2, <1>3, <2>1 DEF Elements
<1>. HIDE DEF e, q
<1>5. A \in [0 .. NMAXAPPELS -> Elements] /\ A[nAppels] = e
      /\ \A k \in 0 .. NMAXAPPELS : k # nAppels => A[k] = Appel[k]
  BY <1>3, <1>4
<1>. HIDE DEF A
<1>6. /\ Appel' \in [0 .. NMAXAPPELS -> Elements]
      /\ \A k \in 0 .. NMAXAPPELS : k # n => Appel'[k] = A[k]
      /\ Appel'[n].EnErreur = Nul /\ Appel'[n].This = A[n].This
  <2>. DEFINE g == [A[n] EXCEPT !.EnErreur = Nul]
  <2>1. Appel' = [A EXCEPT ![n] = g]
    BY <1>1 DEF SansGestionnaire
  <2>2. g \in Elements /\ g.EnErreur = Nul /\ g.This = A[n].This
    <3>1. A[n] \in Elements
      BY <1>3, <1>5
    <3>. QED BY <3>1, Lecture DEF Elements
  <2>. HIDE DEF g
  <2>. QED BY <1>3, <1>5, <2>1, <2>2
<1>7. Etat' \in Etats
  <2>1. PileF' \in [Cellules -> Vals]
    <3>1. ASSUME NEW i \in Cellules
          PROVE  (IF i \in l .. l + Len(p) - 1 THEN p[i - l + 1] ELSE PileF[i]) \in Vals
      <4>1. CASE i \in l .. l + Len(p) - 1
        <5>1. i - l + 1 \in 1 .. Len(p)
          BY <1>3, <4>1
        <5>. QED BY <4>1, <5>1
      <4>2. CASE i \notin l .. l + Len(p) - 1
        BY <1>3, <4>2
      <4>. QED BY <4>1, <4>2
    <3>2. Sauvee(p) \in [Cellules -> Vals]
      BY <3>1 DEF Sauvee
    <3>. QED BY <1>1, <3>2
  <2>2. l' \in 0 .. Memoire /\ nAppels' \in 0 .. NMAXAPPELS /\ DebutParam' \in Nat /\ DebutVarLoc' \in Nat
    BY <1>1, <1>2, <1>3
  <2>3. Pile' \in Seq(Vals)
    BY DEF Vals
  <2>. QED BY <1>1, <1>6, <2>1, <2>2, <2>3 DEF Etat, Etats
<1>8. Appele(Etat, Etat', p, q, param)
  <2>1. /\ Etat'.n = nAppels' /\ Etat'.l = l' /\ Etat'.PileF = PileF' /\ Etat'.Appel = Appel'
        /\ Etat'.DebutParam = DebutParam' /\ Etat'.DebutVarLoc = DebutVarLoc' /\ Etat'.Pile = Pile'
    BY DEF Etat
  <2>2. Etat.n = nAppels /\ Etat.l = l /\ Etat.PileF = PileF /\ Etat.Appel = Appel
    BY DEF Etat
  <2>3. Recopie(Etat, Etat', p, l + q)
    <3>1. PileF' = Sauvee(p) /\ q = Len(p)
      BY <1>1 DEF q
    <3>2. ASSUME NEW i \in Cellules
          PROVE  Sauvee(p)[i] = IF i \in l .. l + Len(p) - 1 THEN p[i - l + 1] ELSE PileF[i]
      BY DEF Sauvee
    <3>3. ASSUME NEW i \in Cellules, i \notin l .. (l + q) - 1 PROVE PileF'[i] = PileF[i]
      BY <1>2, <1>3, <3>1, <3>2, <3>3
    <3>4. ASSUME NEW i \in Cellules, i \in l .. (l + q) - 1 PROVE PileF'[i] = p[i - l + 1]
      BY <1>2, <1>3, <3>1, <3>2, <3>4
    <3>. QED BY <2>1, <2>2, <3>3, <3>4 DEF Recopie
  <2>4. ASSUME NEW k \in 0 .. nAppels - 1 PROVE Appel'[k] = Appel[k]
    <3>2. NMAXAPPELS \in Nat /\ n = nAppels + 1 /\ nAppels <= NMAXAPPELS
      BY <1>3, AppelsAssumption
    <3>. HIDE DEF n
    <3>1. k \in 0 .. NMAXAPPELS /\ k # nAppels /\ k # n
      BY <1>3, <3>2
    <3>. QED BY <1>5, <1>6, <3>1
  <2>5. Appel'[nAppels] = e
    BY <1>3, <1>5, <1>6
  <2>6. \A i \in DOMAIN Pile' : Pile'[i] \notin Refs
    BY AppelsAssumption
  <2>. QED BY <1>1, <1>4, <2>1, <2>2, <2>3, <2>4, <2>5, <2>6 DEF Appele
<1>9. ASSUME NEW i \in param .. q PROVE p[i] \in Simples
  <2>1. i = param \/ i \in param + 1 .. q
    BY <1>2
  <2>. QED BY <1>1, <1>2, <2>1
<1>10. Suspend(Etat, Etat', v, garde)
  <2>1. Etat.n = nAppels /\ Etat.Appel = Appel /\ Etat.Ins = Ins /\ Etat'.Appel = Appel' /\ Etat'.Ins = v
    BY <1>1 DEF Etat
  <2>2. ASSUME NEW k \in 0 .. nAppels - 1 PROVE Appel'[k] = Appel[k]
    <3>1. k \in 0 .. NMAXAPPELS /\ k # nAppels /\ k # nAppels + 1
      BY <1>3, AppelsAssumption
    <3>. QED BY <1>5, <1>6, <3>1 DEF n
  <2>3. Appel'[nAppels] = e /\ e.Instruction = Ins /\ e.EnErreur = Appel[nAppels].EnErreur /\ e.This = garde
    BY <1>3, <1>5, <1>6 DEF e
  <2>4. ASSUME NEW k \in nAppels + 1 .. NMAXAPPELS PROVE Appel'[k].This = Appel[k].This
    <3>1. k \in 0 .. NMAXAPPELS /\ k # nAppels
      BY <1>3, AppelsAssumption
    <3>. QED BY <1>5, <1>6, <3>1
  <2>. QED BY <1>6, <2>1, <2>2, <2>3, <2>4 DEF Suspend, n
<1>11. Etat.l = l
  BY DEF Etat
<1>. QED BY <1>1, <1>2, <1>7, <1>8, <1>9, <1>10, <1>11 DEF q, param

\* AppelerEtiquette from an instruction keeps the frames in order.
LEMMA AppelJuste ==
  ASSUME Inv, NEW p \in Seq(Vals), \A i \in DOMAIN p : p[i] \in Refs => p[i].adr \in DebutParam .. l - 1,
         NEW v \in Lieux, NEW garde \in Objets \cup {Nul}, AppelerEtiquette(p, v, garde),
         Pile' \in Seq(Simples), This' \in Objets \cup {Nul}
  PROVE  Inv'
<1>. DEFINE q == Len(p)
            param == DerniereMarque(p)
<1>1. /\ Etat' \in Etats /\ BasenParams' = BasenParams /\ Etat.l + q <= Memoire
      /\ param \in 1 .. q /\ \A i \in param .. q : p[i] \in Simples
      /\ Appele(Etat, Etat', p, q, param)
  BY AppelFait
<1>2. q \in Nat /\ DOMAIN p = 1 .. q
  OBVIOUS
<1>. HIDE DEF q, param
<1>3. Passe(Etat, p, q, param)
  <2>1. D(Etat, Etat.n) = DebutParam /\ Etat.l = l
    BY Lecture
  <2>. QED BY <1>1, <1>2, <2>1 DEF Passe
<1>4. Bon(Etat, BasenParams)
  BY Lecture DEF Inv
<1>. DEFINE t == Etat'
<1>5. t \in Etats /\ Appele(Etat, t, p, q, param)
  BY <1>1
<1>. HIDE DEF t
<1>6. Bon(t, BasenParams)
  BY <1>1, <1>2, <1>3, <1>4, <1>5, Appeler
<1>. QED BY <1>1, <1>6 DEF Inv, t

\* I_EXEC calls a function.
LEMMA ExecJuste == ASSUME Inv, Exec PROVE Inv'
<1>1. PICK v \in Lieux : AppelerEtiquette(Pile, v, Appel[nAppels].This)
  BY DEF Exec
<1>2. Pile' \in Seq(Simples) /\ This' \in Objets \cup {Nul} /\ Appel[nAppels].This \in Objets \cup {Nul}
  BY Lecture DEF Exec, Elements
<1>3. Pile \in Seq(Vals) /\ \A i \in DOMAIN Pile : Pile[i] \in Refs => Pile[i].adr \in DebutParam .. l - 1
  BY Lecture
<1>. QED BY <1>1, <1>2, <1>3, AppelJuste

\* I_EXECTHIS calls a method, whose this is not among the parameters.
LEMMA ExecThisJuste == ASSUME Inv, ExecThis PROVE Inv'
<1>. DEFINE k == Len(Pile) - 1
            p == SubSeq(Pile, 1, k)
            garde == IF This # Nul THEN This ELSE Appel[nAppels].This
<1>1. PICK v \in Lieux : AppelerEtiquette(p, v, garde)
  BY DEF ExecThis, Front
<1>2. k \in 0 .. Len(Pile)
  BY Lecture DEF ExecThis
<1>3. Pile' \in Seq(Simples) /\ This' \in Objets \cup {Nul} /\ garde \in Objets \cup {Nul}
  BY Lecture DEF ExecThis, Elements
<1>. HIDE DEF garde, k
<1>4. p \in Seq(Vals) /\ \A i \in DOMAIN p : p[i] \in Refs => p[i].adr \in DebutParam .. l - 1
  <2>1. /\ p \in Seq(Vals) /\ Len(p) = k
        /\ \A i \in 1 .. k : p[i] = Pile[i]
        /\ \A i \in 1 .. k : Pile[i] \in Refs => Pile[i].adr \in DebutParam .. l - 1
    BY <1>2, Reste
  <2>. HIDE DEF p
  <2>2. DOMAIN p = 1 .. k
    BY <2>1
  <2>. QED BY <2>1, <2>2
<1>. HIDE DEF p
<1>. QED BY <1>1, <1>3, <1>4, AppelJuste

\* biGotoMulti calls, or jumps, or does neither, and adds INCONNU.
LEMMA GotoMultiJuste == ASSUME Inv, GotoMulti PROVE Inv'
<1>. DEFINE param == DerniereMarque(Pile)
            Debut0(k) == SubSeq(Pile, 1, k)
<1>1. Inconnu \in Simples /\ Inconnu \in Vals /\ Inconnu \notin Refs
  BY AppelsAssumption DEF Simples, Vals
<1>2. param \in 1 .. Len(Pile) /\ param - 1 \in 0 .. Len(Pile) /\ param \in 0 .. Len(Pile)
  <2>1. Pile \in Seq(Vals) /\ param > 0
    BY Lecture DEF GotoMulti
  <2>. QED BY <2>1, Marquage
<1>3. ASSUME NEW k \in 0 .. Len(Pile)
      PROVE  /\ Debut0(k) \in Seq(Vals)
             /\ \A i \in DOMAIN Debut0(k) : Debut0(k)[i] \in Refs => Debut0(k)[i].adr \in DebutParam .. l - 1
             /\ Append(Debut0(k), Inconnu) \in Seq(Vals)
             /\ \A i \in DOMAIN Append(Debut0(k), Inconnu) :
                  Append(Debut0(k), Inconnu)[i] \in Refs => Append(Debut0(k), Inconnu)[i].adr \in DebutParam .. l - 1
  <2>. DEFINE p == Debut0(k)
              r == Append(p, Inconnu)
  <2>1. /\ p \in Seq(Vals) /\ Len(p) = k
        /\ \A i \in 1 .. k : p[i] = Pile[i]
        /\ \A i \in 1 .. k : Pile[i] \in Refs => Pile[i].adr \in DebutParam .. l - 1
    BY Reste
  <2>. HIDE DEF p
  <2>2. DOMAIN p = 1 .. k /\ k \in Nat
    BY <2>1
  <2>3. /\ r \in Seq(Vals) /\ DOMAIN r = 1 .. k + 1 /\ r[k + 1] = Inconnu
        /\ \A i \in 1 .. k : r[i] = p[i]
    BY <1>1, <2>1, <2>2
  <2>. HIDE DEF r
  <2>4. ASSUME NEW i \in DOMAIN r, r[i] \in Refs PROVE r[i].adr \in DebutParam .. l - 1
    <3>1. i = k + 1 \/ i \in 1 .. k
      BY <2>2, <2>3
    <3>. QED BY <1>1, <2>1, <2>3, <2>4, <3>1
  <2>. QED BY <2>1, <2>2, <2>3, <2>4 DEF p, r
<1>4. CASE /\ Pile' = Append(Debut0(param - 1), Inconnu)
           /\ UNCHANGED <<memoire, appels, Ins>>
  <2>1. UNCHANGED <<memoire, appels>> /\ Ins' \in Lieux \cup {Nul}
    BY <1>4, Lecture
  <2>. HIDE DEF Debut0
  <2>. QED BY <1>2, <1>3, <1>4, <2>1, Ligne
<1>5. CASE Pile' = <<Inconnu>> /\ Ins' \in Lieux /\ UNCHANGED <<memoire, appels>>
  <2>1. Pile' \in Seq(Vals) /\ \A i \in DOMAIN Pile' : Pile'[i] \notin Refs
    BY <1>1, <1>5
  <2>. QED BY <1>5, <2>1, Ligne
<1>6. CASE /\ \E v \in Lieux : AppelerEtiquette(Debut0(param), v, Appel[nAppels].This)
           /\ Pile' = <<Inconnu>>
           /\ UNCHANGED This
  <2>1. PICK v \in Lieux : AppelerEtiquette(Debut0(param), v, Appel[nAppels].This)
    BY <1>6
  <2>2. Pile' \in Seq(Simples) /\ This' \in Objets \cup {Nul} /\ Appel[nAppels].This \in Objets \cup {Nul}
    BY <1>1, <1>6, Lecture DEF Elements
  <2>. DEFINE p == Debut0(param)
  <2>3. /\ p \in Seq(Vals) /\ AppelerEtiquette(p, v, Appel[nAppels].This)
        /\ \A i \in DOMAIN p : p[i] \in Refs => p[i].adr \in DebutParam .. l - 1
    BY <1>2, <1>3, <2>1
  <2>. HIDE DEF p
  <2>. QED BY <2>2, <2>3, AppelJuste
<1>. QED BY <1>4, <1>5, <1>6 DEF GotoMulti

\* The state becomes t.
LEMMA Devenu ==
  ASSUME NEW t, Bon(t, BasenParams), Devenir(t)
  PROVE  Inv'
<1>1. t = [Pile |-> t.Pile, PileF |-> t.PileF, l |-> t.l, Appel |-> t.Appel, n |-> t.n,
           DebutParam |-> t.DebutParam, DebutVarLoc |-> t.DebutVarLoc, Ins |-> t.Ins, This |-> t.This]
  BY DEF Bon, Etats
<1>2. Etat' = [Pile |-> t.Pile, PileF |-> t.PileF, l |-> t.l, Appel |-> t.Appel, n |-> t.n,
           DebutParam |-> t.DebutParam, DebutVarLoc |-> t.DebutVarLoc, Ins |-> t.Ins, This |-> t.This]
  BY DEF Devenir, Etat
<1>3. Etat' = t /\ BasenParams' = BasenParams
  BY <1>1, <1>2 DEF Devenir
<1>. QED BY <1>3 DEF Inv

\* I_RETOUR gives back the caller as it was.
LEMMA RegotoJuste == ASSUME Inv, Regoto PROVE Inv'
<1>1. nAppels > 0 /\ (Pile = <<>> \/ Last(Pile) \in Simples) /\ Devenir(Retour(Etat))
  BY DEF Regoto
<1>2. Bon(Etat, BasenParams) /\ Etat.n > 0 /\ (Etat.Pile = <<>> \/ Last(Etat.Pile) \in Simples)
  BY <1>1, Lecture DEF Inv
<1>3. Bon(Retour(Etat), BasenParams)
  BY <1>2, Revenir
<1>. QED BY <1>1, <1>3, Devenu

\* Exception ends with the frame that has a handler as it was.
LEMMA ExceptionJuste == ASSUME Inv, Exception PROVE Inv'
<1>. DEFINE X == [Etat EXCEPT !.Pile = <<>>]
            avec == {a \in 0 .. nAppels : a = 0 \/ Appel[a].EnErreur # Nul}
            m == Max(avec)
            d == CHOOSE g : Deroule(g, nAppels, X)
            h == Appel[m].EnErreur
            t == [d[m] EXCEPT !.Ins = h]
<1>1. Devenir(t)
  BY Zenon DEF Exception, Deroule
<1>2. nAppels \in Nat /\ Etat.n = nAppels /\ Appel \in [0 .. NMAXAPPELS -> Elements] /\ nAppels <= NMAXAPPELS
      /\ NMAXAPPELS \in Nat
  BY Lecture, AppelsAssumption
<1>3. Deroule(d, nAppels, X)
  <2>. HIDE DEF X
  <2>. QED BY <1>2, Boucle
<1>4. m \in 0 .. nAppels
  <2>1. avec \in SUBSET (0 .. nAppels) /\ avec # {}
    <3>1. 0 \in avec
      BY <1>2
    <3>. QED BY <3>1
  <2>. HIDE DEF avec
  <2>2. \E x \in avec : \A y \in avec : x >= y
    BY <1>2, <2>1, PlusGrand
  <2>3. m \in avec
    BY <2>2 DEF Max
  <2>. QED BY <2>1, <2>3
<1>5. h \in Lieux \cup {Nul}
  <2>1. m \in 0 .. NMAXAPPELS
    BY <1>2, <1>4
  <2>. HIDE DEF m
  <2>2. Appel[m] \in Elements
    BY <1>2, <2>1
  <2>. QED BY <2>2 DEF Elements
<1>6. Bon(d[m], BasenParams)
  <2>1. Deroule(d, Etat.n, X) /\ Bon(Etat, BasenParams)
    BY <1>2, <1>3 DEF Inv
  <2>. HIDE DEF d, m
  <2>2. \A a \in 0 .. Etat.n : Bon(d[a], BasenParams)
    BY <2>1, Deroulement
  <2>. QED BY <1>2, <1>4, <2>2
\* Retour left another address in Ins.
<1>. DEFINE s == d[m]
<1>7. Bon(t, BasenParams)
  <2>1. Bon(s, BasenParams) /\ s = d[m]
    BY <1>6
  <2>. HIDE DEF s, h
  <2>2. t = Suite(s, s.Pile, h)
    <3>1. t = [s EXCEPT !.Ins = h]
      BY <2>1
    <3>. HIDE DEF t
    <3>. QED BY <2>1, <3>1 DEF Bon, Etats, Suite
  <2>. HIDE DEF t
  <2>3. s.Pile \in Seq(Vals) /\ \A i \in DOMAIN s.Pile : s.Pile[i] \in Refs => s.Pile[i].adr \in D(s, s.n) .. s.l - 1
    BY <2>1 DEF Bon, Etats, Vivantes
  <2>4. Bon(Suite(s, s.Pile, h), BasenParams)
    BY <1>5, <2>1, <2>3, Calcul
  <2>. QED BY <2>2, <2>4
<1>. HIDE DEF t
<1>. QED BY <1>1, <1>7, Devenu

\* The new interpreter starts outside any function: what it is given is below
\* BasenParams, or is a variable of the script.
LEMMA NouvelleTacheJuste == ASSUME Inv, NouvelleTache PROVE Inv'
<1>. DEFINE nl == l - DebutParam
            b == DebutVarLoc - DebutParam
<1>1. /\ Pile' = <<>> /\ l' = nl /\ nAppels' = 0 /\ DebutParam' = 0 /\ DebutVarLoc' = b /\ BasenParams' = b
      /\ Ins' \in Lieux /\ This' = Nul
      /\ Appel' = [a \in 0 .. NMAXAPPELS |-> AppelVide]
      /\ PileF' = [i \in Cellules |-> IF i < nl THEN PileF[DebutParam + i] ELSE Inconnu]
  BY DEF NouvelleTache
<1>2. /\ nl \in Nat /\ b \in Nat /\ b <= nl /\ nl <= Memoire /\ nl \in 0 .. Memoire /\ l \in Nat
      /\ DebutParam \in Nat /\ Memoire \in Nat /\ NMAXAPPELS \in Nat /\ DebutParam + nl = l
  BY Lecture, AppelsAssumption
<1>. HIDE DEF nl, b
<1>3. \A i \in Cellules : PileF'[i] = IF i < nl THEN PileF[DebutParam + i] ELSE Inconnu
  BY <1>1
<1>4. \A i \in Cellules : PileF'[i] \in Simples
  <2>. TAKE i \in Cellules
  <2>1. CASE i < nl
    <3>1. DebutParam + i \in DebutParam .. l - 1
      BY <1>2, <2>1 DEF Cellules
    <3>. QED BY <1>3, <2>1, <3>1, Lecture
  <2>2. CASE ~ (i < nl)
    BY <1>3, <2>2 DEF Simples
  <2>. QED BY <2>1, <2>2
<1>5. Etat' \in Etats
  <2>1. AppelVide \in Elements
    BY DEF AppelVide, Elements
  <2>2. PileF' \in [Cellules -> Vals]
    <3>1. DOMAIN PileF' = Cellules /\ PileF' = [i \in Cellules |-> PileF'[i]]
      BY <1>1
    <3>. QED BY <1>4, <3>1 DEF Vals
  <2>3. Appel' \in [0 .. NMAXAPPELS -> Elements] /\ 0 \in 0 .. NMAXAPPELS /\ Pile' \in Seq(Vals)
    BY <1>1, <1>2, <2>1
  <2>. QED BY <1>1, <1>2, <2>2, <2>3 DEF Etat, Etats
<1>6. /\ Etat'.n = 0 /\ Etat'.l = nl /\ Etat'.DebutParam = 0 /\ Etat'.DebutVarLoc = b
      /\ Etat'.Pile = <<>> /\ Etat'.PileF = PileF'
  BY <1>1 DEF Etat
<1>7. D(Etat', 0) = 0 /\ V(Etat', 0, b) = b /\ F(Etat', 0) = nl
  BY <1>6 DEF D, V, F
<1>8. Situe(Etat', b) /\ Ordonne(Etat', b)
  BY <1>2, <1>6, <1>7 DEF Situe, Ordonne
<1>9. Propre(Etat')
  <2>1. ASSUME NEW i \in Cellules, i >= nl PROVE PileF'[i] = Inconnu
    BY <1>2, <1>3, <2>1 DEF Cellules
  <2>. QED BY <1>6, <2>1 DEF Propre
<1>10. Variables(Etat') /\ Vivantes(Etat')
  <2>1. \A i \in 0 .. nl - 1 : i \in Cellules
    BY <1>2 DEF Cellules
  <2>. QED BY <1>4, <1>6, <1>7, <2>1 DEF Variables, Vivantes
<1>. QED BY <1>1, <1>2, <1>5, <1>8, <1>9, <1>10 DEF Inv, Bon

\* No step breaks Bon.
LEMMA InvPreserve == Inv /\ [Next]_vars => Inv'
<1>. SUFFICES ASSUME Inv, [Next]_vars PROVE Inv'
  OBVIOUS
<1>1. CASE UNCHANGED vars
  <2>1. Etat' = Etat /\ BasenParams' = BasenParams
    BY <1>1 DEF vars, Etat
  <2>. QED BY <2>1 DEF Inv
<1>2. CASE Termine
  BY <1>1, <1>2 DEF Termine
<1>. QED BY <1>1, <1>2, ConstanteJuste, DebutLigneJuste, EnErreurJuste, VariableLocJuste, ValeurVarLocJuste,
            ParamRefJuste, ParamValJuste, DefinirJuste, ExecJuste, ExecThisJuste, GotoMultiJuste, RegotoJuste,
            ExceptionJuste, NouvelleTacheJuste DEF Next

\* What Inv says, in the words of Appels.
LEMMA Consequences == Inv => TypeOK /\ CadresEnOrdre /\ RienAuDela /\ RefsVivantes
<1>. SUFFICES ASSUME Inv PROVE TypeOK /\ CadresEnOrdre /\ RienAuDela /\ RefsVivantes
  OBVIOUS
<1>1. Etat.n = nAppels /\ Etat.l = l /\ Etat.PileF = PileF /\ Etat.Pile = Pile /\ Etat.Appel = Appel
      /\ Etat.DebutParam = DebutParam /\ Etat.DebutVarLoc = DebutVarLoc
  BY Lecture
<1>2. \A k : D(Etat, k) = Debut(k) /\ V(Etat, k, BasenParams) = Locs(k) /\ F(Etat, k) = FinDe(k)
  BY <1>1 DEF D, V, F, Debut, Locs, FinDe
<1>3. TypeOK
  BY Lecture DEF TypeOK, Vals, Elements
<1>4. CadresEnOrdre
  BY <1>1, <1>2 DEF Inv, Bon, Situe, Ordonne, CadresEnOrdre
<1>5. RienAuDela
  BY <1>1 DEF Inv, Bon, Propre, RienAuDela
<1>6. RefsVivantes
  BY <1>1, <1>2 DEF Inv, Bon, Vivantes, RefsVivantes
<1>. QED BY <1>3, <1>4, <1>5, <1>6

\* Bon is an invariant.
LEMMA ToujoursBon == Spec => []Inv
<1>. QED BY AuDepart, InvPreserve, PTL DEF Spec

\* Every variable of an interpreter keeps its type.
THEOREM BienType == Spec => []TypeOK
<1>. QED BY ToujoursBon, Consequences, PTL

\* Whatever is called, left or unwound, DebutParam and DebutVarLoc are those
\* of the function in progress, and the frames of PileF never overlap.
THEOREM Ordre == Spec => []CadresEnOrdre
<1>. QED BY ToujoursBon, Consequences, PTL

\* Above PileF.l there is nothing: a local variable is INCONNU until its
\* function writes it.
THEOREM Effacement == Spec => []RienAuDela
<1>. QED BY ToujoursBon, Consequences, PTL

\* A reference, on the stack or saved in PileF, designates a variable of its
\* own function, that is there.
THEOREM Portee == Spec => []RefsVivantes
<1>. QED BY ToujoursBon, Consequences, PTL
=============================================================================
