--------------------------- MODULE Regexec_proof ---------------------------
(***************************************************************************)
(* Proofs about Regexec: whatever the programs, the texts and the uses, if *)
(* the programs are correct in the sense of ProgReg, then regexec reads    *)
(* nothing outside the program and the text, does not recurse without end, *)
(* takes back the marks of what fails, and finds what the program means.   *)
(*                                                                         *)
(* The meaning of a program is a recursive function, Sens.  That it exists *)
(* is proved first: a step leaves less to do, in places of the text and    *)
(* then in ranks of the program.  The invariant then ties the pile to that *)
(* meaning: each frame stands at a point of the match, the ways preferred  *)
(* to the one it tries have failed, and what comes of its point is what    *)
(* the frame below it waits for.                                           *)
(***************************************************************************)
EXTENDS Regexec, SequenceTheorems, FiniteSetTheorems, WellFoundedInduction, TLAPS

-----------------------------------------------------------------------------
(* The proofs use the least number of a set, or the greatest, in the place   *)
(* of induction: of those for which a statement would fail.                  *)

\* A set of natural numbers has a least element: the initial segments are
\* well-ordered by inclusion.
LEMMA PlusPetit ==
  ASSUME NEW S \in SUBSET Nat, S # {}
  PROVE  \E x \in S : \A y \in S : x <= y
<1>. DEFINE T == {0 .. x : x \in S}
<1>1. T \subseteq FiniteSubsetsOf(Nat) /\ T # {}
  <2>1. \A x \in S : IsFiniteSet(0 .. x) /\ 0 .. x \in SUBSET Nat
    BY FS_Interval
  <2>. QED BY <2>1 DEF FiniteSubsetsOf
<1>2. PICK t \in T : \A u \in T : ~ (<<u, t>> \in StrictSubsetOrdering(Nat))
  <2>. HIDE DEF T
  <2>. QED BY <1>1, FS_StrictSubsetOrderingWellFounded, WFMin
<1>3. PICK x \in S : t = 0 .. x
  OBVIOUS
<1>4. ASSUME NEW y \in S, y < x PROVE FALSE
  <2>1. 0 .. y \in T /\ 0 .. y \in SUBSET Nat /\ t \in SUBSET Nat
    BY <1>3
  <2>2. 0 .. y \subseteq t /\ x \in t /\ x \notin 0 .. y
    BY <1>3, <1>4
  <2>. QED BY <1>2, <2>1, <2>2 DEF StrictSubsetOrdering
<1>. QED BY <1>4
\* A bounded one has a greatest.
LEMMA PlusGrand ==
  ASSUME NEW n \in Nat, NEW S \in SUBSET (0 .. n), S # {}
  PROVE  \E x \in S : \A y \in S : x >= y
<1>. DEFINE T == {y \in Nat : \E x \in S : y = n - x}
<1>1. T \in SUBSET Nat /\ T # {}
  <2>1. PICK x \in S : TRUE
    OBVIOUS
  <2>2. n - x \in Nat
    OBVIOUS
  <2>. QED BY <2>2
<1>2. PICK t \in T : \A y \in T : t <= y
  <2>. HIDE DEF T
  <2>. QED BY <1>1, PlusPetit
<1>3. PICK x \in S : t = n - x
  OBVIOUS
<1>4. ASSUME NEW y \in S PROVE x >= y
  <2>1. n - y \in T
    OBVIOUS
  <2>2. n - x <= n - y
    BY <1>2, <1>3, <2>1
  <2>. QED BY <2>2
<1>. QED BY <1>4

\* Max is the greatest element, and Min the least.
LEMMA MaxBorne ==
  ASSUME NEW n \in Nat, NEW S \in SUBSET (0 .. n), S # {}
  PROVE  Max(S) \in S /\ \A y \in S : y <= Max(S)
<1>1. PICK x \in S : \A y \in S : x >= y
  BY PlusGrand
<1>2. Max(S) \in S /\ \A y \in S : Max(S) >= y
  BY <1>1 DEF Max
<1>. QED BY <1>2

\* An element that no other exceeds is Max.
LEMMA MaxEst ==
  ASSUME NEW S \in SUBSET Int, NEW x \in S, \A y \in S : y <= x
  PROVE  Max(S) = x
<1>1. \E z \in S : \A y \in S : z >= y
  OBVIOUS
<1>2. Max(S) \in S /\ \A y \in S : Max(S) >= y
  BY <1>1 DEF Max
<1>3. Max(S) \in Int /\ x \in Int /\ Max(S) >= x /\ Max(S) <= x
  BY <1>2
<1>. HIDE DEF Max
<1>. QED BY <1>3

\* Min is the least element of a set of natural numbers.
LEMMA MinEst ==
  ASSUME NEW S \in SUBSET Nat, S # {}
  PROVE  Min(S) \in S /\ \A y \in S : Min(S) <= y
<1>1. PICK x \in S : \A y \in S : x <= y
  BY PlusPetit
<1>. QED BY <1>1 DEF Min

-----------------------------------------------------------------------------
(* The nodes and the text. *)

\* regrepeat counts no more characters than the text has left.
LEMMA RegrepeatBorne ==
  ASSUME NEW n, NEW t \in Seq(STRING), NEW i \in 1 .. Len(t) + 1
  PROVE  Regrepeat(n, t, i) \in 0 .. Len(t) + 1 - i
<1>. DEFINE S == {k \in 0 .. Len(t) + 1 - i : \A j \in i .. i + k - 1 : Prend(n, t[j])}
<1>1. Len(t) \in Nat /\ Len(t) + 1 - i \in Nat
  OBVIOUS
<1>2. 0 \in S
  BY <1>1
<1>3. S \in SUBSET (0 .. Len(t) + 1 - i) /\ S # {}
  BY <1>2
<1>. HIDE DEF S
<1>4. Max(S) \in S
  BY <1>1, <1>3, MaxBorne
<1>. QED BY <1>3, <1>4 DEF Regrepeat, S

\* A word that comes next in the text ends in it; one that is not empty
\* begins with the character at that place.
LEMMA SuitBorne ==
  ASSUME NEW mot \in Seq(STRING), NEW t \in Seq(STRING), NEW i \in 1 .. Len(t) + 1, Suit(mot, t, i)
  PROVE  /\ Len(mot) \in Nat /\ i + Len(mot) <= Len(t) + 1
         /\ mot # <<>> => Len(mot) >= 1 /\ i <= Len(t) /\ t[i] = mot[1]
<1>. DEFINE r == SubSeq(t, i, Len(t))
            m == Len(mot)
<1>0. Len(t) \in Nat /\ m \in Nat /\ (mot # <<>> => m >= 1)
  OBVIOUS
<1>1. r \in Seq(STRING) /\ Len(r) = Len(t) + 1 - i /\ \A k \in 1 .. Len(r) : r[k] = t[i + k - 1]
  BY <1>0
<1>2. m <= Len(r) /\ SubSeq(mot, 1, m) = SubSeq(r, 1, m)
  BY DEF Suit, IsPrefix
<1>. HIDE DEF r
<1>3. ASSUME mot # <<>> PROVE i <= Len(t) /\ t[i] = mot[1]
  <2>1. 1 \in 1 .. m /\ m >= 1 /\ 1 \in 1 .. Len(r)
    BY <1>0, <1>1, <1>2, <1>3
  <2>2. SubSeq(mot, 1, m)[1] = mot[1]
    BY <2>1
  <2>3. SubSeq(r, 1, m)[1] = r[1]
    BY <1>1, <1>2, <2>1
  <2>. QED BY <1>0, <1>1, <1>2, <2>1, <2>2, <2>3
<1>. QED BY <1>0, <1>1, <1>2, <1>3

\* A piece of the text between two places of it.
LEMMA MorceauTexte ==
  ASSUME NEW t \in Seq(STRING), NEW de \in 1 .. Len(t) + 1, NEW a \in 1 .. Len(t) + 1
  PROVE  Morceau(t, de, a) \in Seq(STRING)
<1>1. Len(t) \in Nat /\ a - 1 \in 0 .. Len(t)
  OBVIOUS
<1>2. \A k \in de .. a - 1 : t[k] \in STRING
  BY <1>1
<1>. QED BY <1>1, <1>2 DEF Morceau

-----------------------------------------------------------------------------
(* The ways on from a point. *)

\* A node that a match meets, what it needs and where it leads.
LEMMA BonNoeud ==
  ASSUME NEW c, BienForme(c), NEW p \in Noeuds(c)
  PROVE  /\ p \in 1 .. Len(c) /\ p \in DOMAIN c /\ Len(c) \in Nat
         /\ c[p].op \in Ops
         /\ c[p].op # "END" => Regnext(c, p) \in Noeuds(c)
         /\ c[p].op = "BRANCH" => p + 1 \in Noeuds(c)
         /\ c[p].op = "EXACTLY" => c[p].arg \in Seq(STRING) /\ c[p].arg # <<>>
         /\ c[p].op \in {"OPEN", "CLOSE", "RAPPEL"} => c[p].arg \in Groupes
<1>1. p \in DOMAIN c /\ DOMAIN c = 1 .. Len(c)
  BY DEF BienForme, Noeuds
<1>2. /\ c[p].op \in Ops
      /\ c[p].op # "END" => Regnext(c, p) \in Noeuds(c)
      /\ c[p].op = "BRANCH" => p + 1 \in Noeuds(c)
      /\ c[p].op = "EXACTLY" => c[p].arg \in Seq(STRING) \ {<<>>}
      /\ c[p].op \in {"OPEN", "CLOSE", "RAPPEL"} => c[p].arg \in Groupes
  BY DEF BienForme
<1>3. Len(c) \in Nat
  BY <1>1
<1>. QED BY <1>1, <1>2, <1>3

\* The parts of a point.
LEMMA PartsPoint ==
  ASSUME NEW c, NEW t \in Seq(STRING), NEW x \in Points(c, t)
  PROVE  /\ x = [n |-> x.n, i |-> x.i, d |-> x.d, e |-> x.e]
         /\ x.n \in Noeuds(c) /\ x.i \in 1 .. Len(t) + 1 /\ Len(t) \in Nat
         /\ x.d \in Marques(t) /\ x.e \in Marques(t)
<1>1. Len(t) \in Nat
  OBVIOUS
<1>. QED BY <1>1 DEF Points

\* A mark noted at a place of the text.
LEMMA NoterType ==
  ASSUME NEW t \in Seq(STRING), NEW ends \in Marques(t), NEW g, NEW i \in 1 .. Len(t) + 1
  PROVE  Noter(ends, g, i) \in Marques(t)
<1>1. Len(t) \in Nat /\ i \in 0 .. Len(t) + 1
  OBVIOUS
<1>. QED BY <1>1 DEF Noter, Marques

\* The characters that a way takes.
LEMMA PrisBorne ==
  ASSUME NEW c, BienForme(c), NEW t \in Seq(STRING), NEW b, NEW x \in Points(c, t),
         NEW k \in Voies(c, t, b, x)
  PROVE  /\ c[x.n].op # "END" /\ k \in -1 .. Len(t) + 1
         /\ Pris(c, t, x, k) \in Nat /\ x.i + Pris(c, t, x, k) <= Len(t) + 1
         /\ c[x.n].op \in Caracteres \cup {"PLUS"} => Pris(c, t, x, k) > 0
<1>. DEFINE n == c[x.n]
            p == Pris(c, t, x, k)
            L == Len(t)
<1>1. /\ x.n \in Noeuds(c) /\ x.i \in 1 .. L + 1 /\ L \in Nat
      /\ x.d \in Marques(t) /\ x.e \in Marques(t)
  BY PartsPoint
<1>2. /\ n.op \in Ops
      /\ n.op = "EXACTLY" => n.arg \in Seq(STRING) /\ n.arg # <<>>
      /\ n.op \in {"OPEN", "CLOSE", "RAPPEL"} => n.arg \in Groupes
  BY <1>1, BonNoeud
<1>3. CASE n.op \in Boucles
  <2>1. k \in Minimum(n) .. Regrepeat(c[x.n + 1], t, x.i) /\ p = k
    BY <1>3 DEF Voies, Pris, Boucles, Caracteres
  <2>2. Regrepeat(c[x.n + 1], t, x.i) \in 0 .. L + 1 - x.i
    BY <1>1, RegrepeatBorne
  <2>3. Minimum(n) \in {0, 1} /\ (n.op = "PLUS" => Minimum(n) = 1)
    BY DEF Minimum
  <2>4. k \in Nat /\ k <= L + 1 - x.i /\ k >= Minimum(n)
    BY <1>1, <2>1, <2>2, <2>3
  <2>. QED BY <1>1, <1>3, <2>1, <2>3, <2>4 DEF Boucles, Caracteres
<1>4. CASE n.op = "BRANCH"
  <2>1. k \in {-1, 0} /\ p = 0
    BY <1>4 DEF Voies, Pris, Boucles, Caracteres
  <2>. QED BY <1>1, <1>4, <2>1 DEF Caracteres
<1>5. CASE n.op \notin Boucles \cup {"BRANCH"}
  <2>1. k = 0 /\ Laisse(c, t, b, x)
    BY <1>5 DEF Voies
  <2>2. n.op # "END"
    BY <2>1 DEF Laisse, Caracteres
  <2>3. CASE n.op \in Caracteres
    <3>1. p = Largeur(n) /\ Convient(n, t, x.i)
      BY <1>5, <2>1, <2>3 DEF Pris, Laisse, Caracteres
    <3>2. CASE n.op = "EXACTLY"
      <4>1. p = Len(n.arg) /\ Suit(n.arg, t, x.i)
        BY <3>1, <3>2 DEF Largeur, Convient
      <4>2. p \in Nat /\ x.i + p <= L + 1 /\ p >= 1
        BY <1>1, <1>2, <3>2, <4>1, SuitBorne
      <4>. QED BY <1>1, <2>1, <2>2, <4>2
    <3>3. CASE n.op # "EXACTLY"
      <4>1. p = 1 /\ x.i <= L
        BY <3>1, <3>3 DEF Largeur, Convient
      <4>. QED BY <1>1, <2>1, <2>2, <4>1
    <3>. QED BY <3>2, <3>3
  <2>4. CASE n.op = "RAPPEL"
    <3>. DEFINE m == Morceau(t, x.d[n.arg], x.e[n.arg])
    <3>1. /\ p = Len(m) /\ x.d[n.arg] # 0 /\ x.e[n.arg] # 0 /\ Suit(m, t, x.i)
      BY <1>5, <2>1, <2>4 DEF Pris, Laisse, Caracteres
    <3>2. x.d[n.arg] \in 1 .. L + 1 /\ x.e[n.arg] \in 1 .. L + 1
      BY <1>1, <1>2, <2>4, <3>1 DEF Marques
    <3>3. m \in Seq(STRING)
      BY <3>2, MorceauTexte
    <3>. HIDE DEF m
    <3>4. p \in Nat /\ x.i + p <= L + 1
      BY <1>1, <3>1, <3>3, SuitBorne
    <3>. QED BY <1>1, <2>1, <2>2, <2>4, <3>4 DEF Caracteres
  <2>5. CASE n.op \notin Caracteres \cup {"RAPPEL"}
    <3>1. p = 0
      BY <1>5, <2>5 DEF Pris
    <3>. QED BY <1>1, <1>5, <2>1, <2>2, <2>5, <3>1 DEF Boucles
  <2>. QED BY <2>3, <2>4, <2>5
<1>. QED BY <1>3, <1>4, <1>5

\* A way leads to a point, which is further in the text or, at the same
\* place, at a node that follows without taking a character.
LEMMA VoieMene ==
  ASSUME NEW c, BienForme(c), NEW t \in Seq(STRING), NEW b, NEW x \in Points(c, t),
         NEW k \in Voies(c, t, b, x)
  PROVE  /\ c[x.n].op # "END" /\ k \in Int
         /\ Voie(c, t, x, k) \in Points(c, t)
         /\ Voie(c, t, x, k).i >= x.i
         /\ Voie(c, t, x, k).i = x.i => Voie(c, t, x, k).n \in Immediats(c, x.n)
         /\ Voie(c, t, x, k).n \in Suivants(c, x.n)
<1>. DEFINE n == c[x.n]
            p == Pris(c, t, x, k)
            y == Voie(c, t, x, k)
            L == Len(t)
<1>1. /\ x.n \in Noeuds(c) /\ x.i \in 1 .. L + 1 /\ L \in Nat
      /\ x.d \in Marques(t) /\ x.e \in Marques(t)
  BY PartsPoint
<1>2. /\ n.op # "END" /\ k \in -1 .. L + 1
      /\ p \in Nat /\ x.i + p <= L + 1
      /\ n.op \in Caracteres \cup {"PLUS"} => p > 0
  BY PrisBorne
<1>3. /\ n.op \in Ops
      /\ Regnext(c, x.n) \in Noeuds(c)
      /\ n.op = "BRANCH" => x.n + 1 \in Noeuds(c)
  BY <1>1, <1>2, BonNoeud
<1>4. y = [n |-> IF n.op = "BRANCH" /\ k = 0 THEN x.n + 1 ELSE Regnext(c, x.n),
           i |-> x.i + p,
           d |-> IF n.op = "OPEN" THEN Noter(x.d, n.arg, x.i) ELSE x.d,
           e |-> IF n.op = "CLOSE" THEN Noter(x.e, n.arg, x.i) ELSE x.e]
  BY DEF Voie
<1>5. y.n \in Noeuds(c) /\ y.i \in 1 .. L + 1 /\ y.i = x.i + p
  BY <1>1, <1>2, <1>3, <1>4
<1>6. y.d \in Marques(t) /\ y.e \in Marques(t)
  BY <1>1, <1>4, NoterType
<1>7. y \in Points(c, t)
  BY <1>4, <1>5, <1>6 DEF Points
<1>8. CASE n.op = "BRANCH"
  <2>1. k \in {-1, 0} /\ (k = -1 => c[Regnext(c, x.n)].op = "BRANCH")
    BY <1>8 DEF Voies, Boucles
  <2>2. y.n \in Immediats(c, x.n)
    BY <1>4, <1>8, <2>1 DEF Immediats, Caracteres
  <2>3. y.n \in Suivants(c, x.n)
    BY <1>8, <2>2 DEF Suivants
  <2>. QED BY <1>1, <1>2, <1>5, <1>7, <2>2, <2>3
<1>9. CASE n.op # "BRANCH"
  <2>1. y.n = Regnext(c, x.n)
    BY <1>4, <1>9
  <2>2. y.n \in Suivants(c, x.n)
    BY <1>2, <1>9, <2>1 DEF Suivants
  <2>3. ASSUME y.i = x.i PROVE y.n \in Immediats(c, x.n)
    <3>1. p = 0
      BY <1>1, <1>2, <1>5, <2>3
    <3>2. n.op \notin Caracteres \cup {"END", "PLUS"}
      BY <1>2, <3>1
    <3>. QED BY <1>9, <2>1, <3>2 DEF Immediats
  <2>. QED BY <1>1, <1>2, <1>5, <1>7, <2>2, <2>3
<1>. QED BY <1>8, <1>9

-----------------------------------------------------------------------------
(* A program that never goes round without taking a character has a meaning. *)

\* How much a match may still do from x: places of the text that are left,
\* then ranks.
Reste(c, t, rang, x) == (Len(t) + 1 - x.i) * (Len(c) + 1) + (Len(c) - rang[x.n])

\* Each way on leaves less to do.
LEMMA ResteBaisse ==
  ASSUME NEW c, BienForme(c), NEW t \in Seq(STRING), NEW b, NEW rang, EstRang(c, rang),
         NEW x \in Points(c, t)
  PROVE  /\ Reste(c, t, rang, x) \in Nat
         /\ Reste(c, t, rang, x) <= (Len(t) + 1) * (Len(c) + 1)
         /\ \A k \in Voies(c, t, b, x) : Reste(c, t, rang, Voie(c, t, x, k)) < Reste(c, t, rang, x)
<1>. DEFINE C == Len(c)
            L == Len(t)
            R(y) == Reste(c, t, rang, y)
<1>1. C \in Nat /\ L \in Nat
  BY PartsPoint, BonNoeud
<1>2. ASSUME NEW y \in Points(c, t)
      PROVE  /\ y.i \in 1 .. L + 1 /\ rang[y.n] \in 0 .. C /\ y.n \in Noeuds(c)
             /\ R(y) = (L + 1 - y.i) * (C + 1) + (C - rang[y.n])
  <2>1. y.n \in Noeuds(c) /\ y.i \in 1 .. L + 1 /\ y.n \in DOMAIN c
    BY PartsPoint DEF Noeuds
  <2>2. rang[y.n] \in 0 .. C
    BY <2>1 DEF EstRang
  <2>. QED BY <2>1, <2>2 DEF Reste
<1>3. \A a \in 0 .. L : a * (C + 1) \in Nat /\ a * (C + 1) <= L * (C + 1)
  BY <1>1
<1>4. (L + 1) * (C + 1) = L * (C + 1) + (C + 1) /\ L * (C + 1) \in Nat
  BY <1>1
<1>5. ASSUME NEW y \in Points(c, t) PROVE R(y) \in Nat /\ R(y) <= (L + 1) * (C + 1)
  <2>1. L + 1 - y.i \in 0 .. L
    BY <1>1, <1>2
  <2>. DEFINE m == (L + 1 - y.i) * (C + 1)
  <2>2. m \in Nat /\ m <= L * (C + 1)
    BY <1>3, <2>1
  <2>3. R(y) = m + (C - rang[y.n]) /\ rang[y.n] \in 0 .. C
    BY <1>2
  <2>. HIDE DEF m, R
  <2>. QED BY <1>1, <1>4, <2>2, <2>3
<1>6. ASSUME NEW k \in Voies(c, t, b, x) PROVE R(Voie(c, t, x, k)) < R(x)
  <2>. DEFINE y == Voie(c, t, x, k)
  <2>1. /\ y \in Points(c, t) /\ y.i >= x.i
        /\ y.i = x.i => y.n \in Immediats(c, x.n)
    BY VoieMene
  <2>. HIDE DEF y
  <2>2. /\ x.i \in 1 .. L + 1 /\ y.i \in 1 .. L + 1
        /\ rang[x.n] \in 0 .. C /\ rang[y.n] \in 0 .. C /\ x.n \in Noeuds(c)
    BY <1>2, <2>1
  <2>3. /\ R(x) = (L + 1 - x.i) * (C + 1) + (C - rang[x.n])
        /\ R(y) = (L + 1 - y.i) * (C + 1) + (C - rang[y.n])
    BY <1>2, <2>1
  <2>. HIDE DEF R
  <2>4. CASE y.i = x.i
    <3>1. rang[x.n] < rang[y.n]
      BY <2>1, <2>2, <2>4 DEF EstRang
    <3>. DEFINE m == (L + 1 - x.i) * (C + 1)
    <3>2. m \in Int
      BY <1>1, <2>2
    <3>3. R(x) = m + (C - rang[x.n]) /\ R(y) = m + (C - rang[y.n])
      BY <2>3, <2>4
    <3>. HIDE DEF m
    <3>. QED BY <1>1, <2>2, <3>1, <3>2, <3>3 DEF y
  <2>5. CASE y.i > x.i
    <3>. DEFINE u == L + 1 - x.i
                v == L + 1 - y.i
    <3>1. u \in Nat /\ v \in Nat /\ v + 1 <= u
      BY SMTT(30), <1>1, <2>2, <2>5
    <3>2. (v + 1) * (C + 1) <= u * (C + 1) /\ (v + 1) * (C + 1) = v * (C + 1) + (C + 1)
      <4>. HIDE DEF u, v
      <4>. QED BY <1>1, <3>1
    <3>3. R(x) = u * (C + 1) + (C - rang[x.n]) /\ R(y) = v * (C + 1) + (C - rang[y.n])
      BY <2>3
    <3>. DEFINE mu == u * (C + 1)
                mv == v * (C + 1)
    <3>4. mu \in Int /\ mv \in Int
      <4>. HIDE DEF u, v
      <4>. QED BY <1>1, <3>1
    <3>5. mv + (C + 1) <= mu /\ R(x) = mu + (C - rang[x.n]) /\ R(y) = mv + (C - rang[y.n])
      BY <3>2, <3>3
    <3>. HIDE DEF mu, mv
    <3>. QED BY SMTT(30), <1>1, <2>2, <3>4, <3>5 DEF y
  <2>. QED BY <2>1, <2>2, <2>4, <2>5
<1>. QED BY <1>5, <1>6

\* What comes of x depends on what comes of the points its ways lead to.
LEMMA IssueLocale ==
  ASSUME NEW c, NEW t, NEW b, NEW x, NEW f, NEW g,
         \A k \in Voies(c, t, b, x) : f[Voie(c, t, x, k)] = g[Voie(c, t, x, k)]
  PROVE  Issue(c, t, b, x, f) = Issue(c, t, b, x, g)
<1>1. [k \in Voies(c, t, b, x) |-> f[Voie(c, t, x, k)]] = [k \in Voies(c, t, b, x) |-> g[Voie(c, t, x, k)]]
  OBVIOUS
<1>. QED BY SMTT(30), <1>1 DEF Issue

\* f says what comes of the points that have less than n to do.
Jusque(c, t, b, rang, f, n) ==
  /\ f = [x \in Points(c, t) |-> f[x]]
  /\ \A x \in Points(c, t) : Reste(c, t, rang, x) < n => f[x] = Issue(c, t, b, x, f)

\* There is such a function for every n: of those without one, the least
\* comes after one that has one.
LEMMA JusqueExiste ==
  ASSUME NEW c, BienForme(c), NEW t \in Seq(STRING), NEW b, NEW rang, EstRang(c, rang),
         NEW n \in Nat
  PROVE  \E f : Jusque(c, t, b, rang, f, n)
<1>. DEFINE R(x) == Reste(c, t, rang, x)
            J(f, m) == Jusque(c, t, b, rang, f, m)
            S == {m \in Nat : ~ \E f : J(f, m)}
<1>1. SUFFICES ASSUME S # {} PROVE FALSE
  OBVIOUS
<1>2. PICK m \in S : \A k \in S : m <= k
  BY <1>1, PlusPetit
<1>3. \A x \in Points(c, t) : R(x) \in Nat /\ \A k \in Voies(c, t, b, x) :
         R(Voie(c, t, x, k)) < R(x) /\ Voie(c, t, x, k) \in Points(c, t)
  BY ResteBaisse, VoieMene
<1>4. m # 0
  <2>1. J([x \in Points(c, t) |-> Rate], 0)
    BY <1>3 DEF Jusque
  <2>. QED BY <1>2, <2>1
<1>5. PICK f : J(f, m - 1)
  <2>1. m - 1 \in Nat /\ m - 1 \notin S
    BY <1>2, <1>4
  <2>. QED BY <2>1
<1>. DEFINE g == [x \in Points(c, t) |-> IF R(x) = m - 1 THEN Issue(c, t, b, x, f) ELSE f[x]]
<1>6. ASSUME NEW x \in Points(c, t), R(x) < m PROVE g[x] = Issue(c, t, b, x, g)
  <2>1. \A k \in Voies(c, t, b, x) : g[Voie(c, t, x, k)] = f[Voie(c, t, x, k)]
    <3>. SUFFICES ASSUME NEW k \in Voies(c, t, b, x) PROVE g[Voie(c, t, x, k)] = f[Voie(c, t, x, k)]
      OBVIOUS
    <3>. DEFINE y == Voie(c, t, x, k)
    <3>1. y \in Points(c, t) /\ R(y) < R(x) /\ R(y) \in Nat /\ R(x) \in Nat
      BY <1>3
    <3>. HIDE DEF y, R
    <3>2. R(y) # m - 1
      BY <1>2, <1>6, <3>1
    <3>. QED BY <3>1, <3>2 DEF y
  <2>. HIDE DEF g
  <2>2. Issue(c, t, b, x, g) = Issue(c, t, b, x, f)
    BY <2>1, IssueLocale
  <2>3. g[x] = Issue(c, t, b, x, f)
    <3>1. g[x] = IF R(x) = m - 1 THEN Issue(c, t, b, x, f) ELSE f[x]
      BY DEF g
    <3>2. R(x) # m - 1 => R(x) < m - 1
      <4>. HIDE DEF R
      <4>. QED BY <1>2, <1>3, <1>6
    <3>. QED BY <1>5, <3>1, <3>2 DEF Jusque
  <2>. QED BY <2>2, <2>3
<1>7. g = [x \in Points(c, t) |-> g[x]]
  OBVIOUS
<1>8. J(g, m)
  <2>. HIDE DEF g
  <2>. QED BY <1>6, <1>7 DEF Jusque
<1>. QED BY <1>2, <1>8

\* The meaning of a program satisfies the equation that defines it.
LEMMA SensJuste ==
  ASSUME NEW c, BienForme(c), SansBoucle(c), NEW t \in Seq(STRING), NEW b, NEW x \in Points(c, t)
  PROVE  Sens(c, t, b)[x] = Issue(c, t, b, x, Sens(c, t, b))
<1>. DEFINE E(f) == f = [y \in Points(c, t) |-> Issue(c, t, b, y, f)]
            N == (Len(t) + 1) * (Len(c) + 1) + 1
<1>1. PICK rang : EstRang(c, rang)
  BY DEF SansBoucle
<1>2. N \in Nat
  <2>1. Len(c) \in Nat /\ Len(t) \in Nat
    BY PartsPoint, BonNoeud
  <2>. QED BY <2>1
<1>3. PICK f : Jusque(c, t, b, rang, f, N)
  BY <1>1, <1>2, JusqueExiste
<1>4. \A y \in Points(c, t) : f[y] = Issue(c, t, b, y, f)
  <2>1. \A y \in Points(c, t) : Reste(c, t, rang, y) < N
    <3>. SUFFICES ASSUME NEW y \in Points(c, t) PROVE Reste(c, t, rang, y) < N
      OBVIOUS
    <3>. DEFINE m == (Len(t) + 1) * (Len(c) + 1)
    <3>1. Reste(c, t, rang, y) \in Nat /\ Reste(c, t, rang, y) <= m
      BY <1>1, ResteBaisse
    <3>2. m \in Int
      <4>1. Len(c) \in Nat /\ Len(t) \in Nat
        BY PartsPoint, BonNoeud
      <4>. QED BY <4>1
    <3>3. N = m + 1
      OBVIOUS
    <3>. HIDE DEF m, N
    <3>. QED BY <3>1, <3>2, <3>3
  <2>. HIDE DEF N
  <2>. QED BY <1>3, <2>1 DEF Jusque
<1>5. E(f)
  BY <1>3, <1>4 DEF Jusque
<1>6. Sens(c, t, b) = CHOOSE s0 : E(s0)
  BY DEF Sens
<1>7. E(Sens(c, t, b))
  BY <1>5, <1>6
<1>. HIDE DEF N
<1>. QED BY <1>7

\* A match that reaches the END succeeds.
LEMMA SensFin ==
  ASSUME NEW c, BienForme(c), SansBoucle(c), NEW t \in Seq(STRING), NEW b, NEW x \in Points(c, t),
         c[x.n].op = "END"
  PROVE  Sens(c, t, b)[x] = [f |-> x.i, d |-> x.d, e |-> x.e]
<1>1. Sens(c, t, b)[x] = Issue(c, t, b, x, Sens(c, t, b))
  BY SensJuste
<1>. QED BY <1>1 DEF Issue

\* A point none of whose ways succeeds fails.
LEMMA SensRate ==
  ASSUME NEW c, BienForme(c), SansBoucle(c), NEW t \in Seq(STRING), NEW b, NEW x \in Points(c, t),
         c[x.n].op # "END", \A k \in Voies(c, t, b, x) : Sens(c, t, b)[Voie(c, t, x, k)] = Rate
  PROVE  Sens(c, t, b)[x] = Rate
<1>. DEFINE issues == [k \in Voies(c, t, b, x) |-> Sens(c, t, b)[Voie(c, t, x, k)]]
            bonnes == {k \in DOMAIN issues : issues[k] # Rate}
<1>1. bonnes = {}
  OBVIOUS
<1>2. Sens(c, t, b)[x] = Issue(c, t, b, x, Sens(c, t, b))
  BY SensJuste
<1>3. Issue(c, t, b, x, Sens(c, t, b)) = IF bonnes = {} THEN Rate ELSE issues[Max(bonnes)]
  BY DEF Issue
<1>. QED BY <1>1, <1>2, <1>3

\* A point succeeds, or fails, as the way k does when those that are
\* preferred to k fail, and the others too if k does.
LEMMA SensPrefere ==
  ASSUME NEW c, BienForme(c), SansBoucle(c), NEW t \in Seq(STRING), NEW b, NEW x \in Points(c, t),
         NEW k \in Voies(c, t, b, x),
         \A m \in Voies(c, t, b, x) :
            m > k \/ (m < k /\ Sens(c, t, b)[Voie(c, t, x, k)] = Rate)
              => Sens(c, t, b)[Voie(c, t, x, m)] = Rate
  PROVE  Sens(c, t, b)[x] = Sens(c, t, b)[Voie(c, t, x, k)]
<1>. DEFINE V == Voies(c, t, b, x)
            S(m) == Sens(c, t, b)[Voie(c, t, x, m)]
            issues == [m \in V |-> S(m)]
            bonnes == {m \in DOMAIN issues : issues[m] # Rate}
<1>1. c[x.n].op # "END" /\ V \in SUBSET Int
  BY VoieMene
<1>2. CASE S(k) = Rate
  <2>1. \A m \in V : S(m) = Rate
    <3>. SUFFICES ASSUME NEW m \in V PROVE S(m) = Rate
      OBVIOUS
    <3>1. m > k \/ m < k \/ m = k
      BY <1>1
    <3>. QED BY <1>2, <3>1
  <2>. QED BY <1>1, <1>2, <2>1, SensRate
<1>3. CASE S(k) # Rate
  <2>1. k \in bonnes /\ bonnes \in SUBSET Int
    BY <1>1, <1>3
  <2>2. \A m \in bonnes : m <= k
    BY <1>1
  <2>3. Sens(c, t, b)[x] = Issue(c, t, b, x, Sens(c, t, b))
    BY SensJuste
  <2>4. Issue(c, t, b, x, Sens(c, t, b)) = IF bonnes = {} THEN Rate ELSE issues[Max(bonnes)]
    BY <1>1 DEF Issue
  <2>5. issues[k] = S(k)
    OBVIOUS
  <2>. HIDE DEF bonnes, issues
  <2>6. Max(bonnes) = k
    BY <2>1, <2>2, MaxEst
  <2>. QED BY <2>1, <2>3, <2>4, <2>5, <2>6
<1>. QED BY <1>2, <1>3

-----------------------------------------------------------------------------
(* The marks: those of the frames. *)

\* The frames of pile, the calls of regmatch that are under way.  That of a
\* choice always tries the branch it is at.
Cadres(c, t) ==
  {f \in [scan : Noeuds(c), save : 1 .. Len(t) + 1, no : Int] : c[f.scan].op = "BRANCH" => f.no = 0}

\* The first n frames that note a mark of the kind op for the group g.
Notent(c, q, n, op, g) ==
  {k \in 1 .. n : c[q[k].scan].op = op /\ c[q[k].scan].arg = g}

\* What the first n frames have noted: for each group, the place of the
\* first of them.
Notees(c, q, n, op) ==
  [g \in Groupes |->
     IF Notent(c, q, n, op, g) = {} THEN 0 ELSE q[Min(Notent(c, q, n, op, g))].save]

\* The parts of a frame.
LEMMA PartsCadre ==
  ASSUME NEW c, NEW t \in Seq(STRING), NEW q \in Seq(Cadres(c, t)), NEW k \in 1 .. Len(q)
  PROVE  /\ q[k] \in Cadres(c, t)
         /\ q[k] = [scan |-> q[k].scan, save |-> q[k].save, no |-> q[k].no]
         /\ q[k].scan \in Noeuds(c) /\ q[k].save \in 1 .. Len(t) + 1 /\ q[k].no \in Int
         /\ c[q[k].scan].op = "BRANCH" => q[k].no = 0
<1>1. q[k] \in Cadres(c, t)
  OBVIOUS
<1>. QED BY <1>1 DEF Cadres

\* What a group has noted, if it has: the place of the first frame that notes it.
LEMMA NoteesValeur ==
  ASSUME NEW c, NEW t \in Seq(STRING), NEW q \in Seq(Cadres(c, t)), NEW n \in 0 .. Len(q),
         NEW op, NEW g \in Groupes
  PROVE  /\ Notent(c, q, n, op, g) = {} => Notees(c, q, n, op)[g] = 0
         /\ Notent(c, q, n, op, g) # {} =>
              \E k \in Notent(c, q, n, op, g) :
                 /\ \A j \in Notent(c, q, n, op, g) : k <= j
                 /\ Notees(c, q, n, op)[g] = q[k].save /\ q[k].save \in 1 .. Len(t) + 1
<1>. DEFINE K == Notent(c, q, n, op, g)
<1>1. Notees(c, q, n, op)[g] = IF K = {} THEN 0 ELSE q[Min(K)].save
  BY DEF Notees
<1>2. K \in SUBSET Nat /\ K \subseteq 1 .. Len(q) /\ Len(q) \in Nat
  BY DEF Notent
<1>. HIDE DEF K
<1>3. ASSUME K # {} PROVE Min(K) \in K /\ \A j \in K : Min(K) <= j
  BY <1>2, <1>3, MinEst
<1>4. \A k \in K : q[k].save \in 1 .. Len(t) + 1
  BY <1>2, PartsCadre
<1>. QED BY <1>1, <1>3, <1>4 DEF K

\* The marks are places of the text.
LEMMA NoteesType ==
  ASSUME NEW c, NEW t \in Seq(STRING), NEW q \in Seq(Cadres(c, t)), NEW n \in 0 .. Len(q), NEW op
  PROVE  Notees(c, q, n, op) \in Marques(t)
<1>1. Len(t) \in Nat
  OBVIOUS
<1>2. \A g \in Groupes : Notees(c, q, n, op)[g] \in 0 .. Len(t) + 1
  <2>. SUFFICES ASSUME NEW g \in Groupes PROVE Notees(c, q, n, op)[g] \in 0 .. Len(t) + 1
    OBVIOUS
  <2>. QED BY <1>1, NoteesValeur
<1>3. Notees(c, q, n, op) = [g \in Groupes |-> Notees(c, q, n, op)[g]]
  BY DEF Notees
<1>. QED BY <1>2, <1>3 DEF Marques

\* Without a frame there is no mark.
LEMMA NoteesRien ==
  ASSUME NEW c, NEW q, NEW op
  PROVE  Notees(c, q, 0, op) = NULS
BY DEF Notees, Notent, NULS

\* The marks of the first n frames are those of any pile that begins so.
LEMMA NoteesDebut ==
  ASSUME NEW c, NEW q, NEW r, NEW n \in Nat, NEW op, \A k \in 1 .. n : r[k] = q[k]
  PROVE  Notees(c, r, n, op) = Notees(c, q, n, op)
<1>1. \A g : Notent(c, r, n, op, g) = Notent(c, q, n, op, g)
  BY DEF Notent
<1>2. \A g : Notent(c, q, n, op, g) # {} => Min(Notent(c, q, n, op, g)) \in 1 .. n
  <2>. SUFFICES ASSUME NEW g, Notent(c, q, n, op, g) # {}
                PROVE  Min(Notent(c, q, n, op, g)) \in 1 .. n
    OBVIOUS
  <2>1. Notent(c, q, n, op, g) \in SUBSET Nat /\ Notent(c, q, n, op, g) \subseteq 1 .. n
    BY DEF Notent
  <2>. QED BY <2>1, MinEst
<1>. QED BY <1>1, <1>2 DEF Notees

\* A frame of another kind notes nothing.
LEMMA NoteesAutre ==
  ASSUME NEW c, NEW q, NEW n \in Nat, NEW op, c[q[n + 1].scan].op # op
  PROVE  Notees(c, q, n + 1, op) = Notees(c, q, n, op)
<1>1. \A g : Notent(c, q, n + 1, op, g) = Notent(c, q, n, op, g)
  <2>1. \A k \in 1 .. n + 1 : k \in 1 .. n \/ k = n + 1
    OBVIOUS
  <2>2. \A k \in 1 .. n : k \in 1 .. n + 1
    OBVIOUS
  <2>. QED BY <2>1, <2>2 DEF Notent
<1>. QED BY <1>1 DEF Notees

\* A frame of this kind notes its place, unless its group has a mark.
LEMMA NoteesUne ==
  ASSUME NEW c, NEW t \in Seq(STRING), NEW q \in Seq(Cadres(c, t)), NEW n \in Nat, n < Len(q),
         NEW op, c[q[n + 1].scan].op = op, c[q[n + 1].scan].arg \in Groupes
  PROVE  Notees(c, q, n + 1, op) = Noter(Notees(c, q, n, op), c[q[n + 1].scan].arg, q[n + 1].save)
<1>. DEFINE a == c[q[n + 1].scan].arg
            N == Notees(c, q, n, op)
            M == Notees(c, q, n + 1, op)
            K(g) == Notent(c, q, n, op, g)
            H(g) == Notent(c, q, n + 1, op, g)
<1>0. n \in 0 .. Len(q) /\ n + 1 \in 0 .. Len(q) /\ Len(q) \in Nat /\ Len(t) \in Nat
  OBVIOUS
<1>1. \A g : H(g) = IF g = a THEN K(g) \cup {n + 1} ELSE K(g)
  <2>1. \A k \in 1 .. n + 1 : k \in 1 .. n \/ k = n + 1
    OBVIOUS
  <2>2. \A k \in 1 .. n : k \in 1 .. n + 1
    OBVIOUS
  <2>3. n + 1 \in 1 .. n + 1
    OBVIOUS
  <2>. QED BY <2>1, <2>2, <2>3 DEF Notent
<1>2. \A g \in Groupes : K(g) \subseteq 1 .. n
  BY DEF Notent
<1>3. N \in Marques(t) /\ M \in Marques(t)
  BY <1>0, NoteesType
<1>4. ASSUME NEW g \in Groupes PROVE M[g] = Noter(N, a, q[n + 1].save)[g]
  <2>1. Noter(N, a, q[n + 1].save)[g] = IF g = a /\ N[g] = 0 THEN q[n + 1].save ELSE N[g]
    BY <1>3 DEF Noter, Marques
  <2>2. CASE g # a
    <3>1. H(g) = K(g)
      BY <1>1, <2>2
    <3>2. M[g] = N[g]
      BY <3>1 DEF Notees
    <3>. QED BY <2>1, <2>2, <3>2
  <2>3. CASE g = a /\ K(g) = {}
    <3>1. N[g] = 0
      BY <2>3 DEF Notees
    <3>2. H(g) = {n + 1}
      BY <1>1, <2>3
    <3>3. Min({n + 1}) = n + 1
      <4>1. {n + 1} \in SUBSET Nat /\ {n + 1} # {}
        OBVIOUS
      <4>2. Min({n + 1}) \in {n + 1}
        BY <4>1, MinEst
      <4>. QED BY <4>2
    <3>4. M[g] = q[n + 1].save
      BY <3>2, <3>3 DEF Notees
    <3>. QED BY <2>1, <2>3, <3>1, <3>4
  <2>4. CASE g = a /\ K(g) # {}
    <3>1. PICK k \in K(g) : (\A j \in K(g) : k <= j) /\ N[g] = q[k].save /\ q[k].save \in 1 .. Len(t) + 1
      BY <1>0, <2>4, NoteesValeur
    <3>. H(g) # {}
      BY <1>1, <2>4
    <3>2. PICK h \in H(g) : (\A j \in H(g) : h <= j) /\ M[g] = q[h].save
      BY <1>0, NoteesValeur
    <3>3. H(g) = K(g) \cup {n + 1} /\ K(g) \subseteq 1 .. n
      BY <1>1, <1>2, <2>4
    <3>. HIDE DEF K, H
    <3>4. h = k
      BY <3>1, <3>2, <3>3
    <3>5. N[g] # 0
      BY <1>0, <3>1
    <3>. QED BY <2>1, <3>1, <3>2, <3>4, <3>5
  <2>. QED BY <2>2, <2>3, <2>4
<1>5. Noter(N, a, q[n + 1].save) = [g \in Groupes |-> Noter(N, a, q[n + 1].save)[g]]
  BY <1>3 DEF Noter, Marques
<1>6. M = [g \in Groupes |-> M[g]]
  BY DEF Notees
<1>. HIDE DEF M, N, a
<1>. QED BY <1>4, <1>5, <1>6 DEF M, N, a

\* A frame that takes its mark back leaves those of the frames below it, if
\* those that noted the same mark did so before its place.
LEMMA NoteesEfface ==
  ASSUME NEW c, NEW t \in Seq(STRING), NEW q \in Seq(Cadres(c, t)), NEW n \in Nat, n < Len(q),
         NEW op, c[q[n + 1].scan].op = op, c[q[n + 1].scan].arg \in Groupes,
         \A j \in Notent(c, q, n, op, c[q[n + 1].scan].arg) : q[j].save < q[n + 1].save
  PROVE  Efface(Notees(c, q, n + 1, op), c[q[n + 1].scan].arg, q[n + 1].save) = Notees(c, q, n, op)
<1>. DEFINE a == c[q[n + 1].scan].arg
            N == Notees(c, q, n, op)
            M == Notees(c, q, n + 1, op)
            s0 == q[n + 1].save
<1>0. n \in 0 .. Len(q) /\ n + 1 \in 1 .. Len(q) /\ Len(q) \in Nat /\ Len(t) \in Nat
  OBVIOUS
<1>1. M = Noter(N, a, s0) /\ N \in Marques(t)
  BY <1>0, NoteesUne, NoteesType
<1>2. s0 \in 1 .. Len(t) + 1
  BY <1>0, PartsCadre
<1>3. N[a] = 0 \/ (N[a] < s0 /\ N[a] \in Int)
  <2>1. CASE Notent(c, q, n, op, a) = {}
    BY <1>0, <2>1, NoteesValeur
  <2>2. CASE Notent(c, q, n, op, a) # {}
    <3>1. PICK k \in Notent(c, q, n, op, a) : N[a] = q[k].save /\ q[k].save \in 1 .. Len(t) + 1
      BY <1>0, <2>2, NoteesValeur
    <3>. QED BY <1>0, <3>1
  <2>. QED BY <2>1, <2>2
<1>. HIDE DEF N, M, s0
<1>4. M[a] = IF N[a] = 0 THEN s0 ELSE N[a]
  BY <1>1 DEF Noter, Marques
<1>5. CASE N[a] = 0
  <2>1. Efface(M, a, s0) = [M EXCEPT ![a] = 0]
    BY <1>4, <1>5 DEF Efface
  <2>2. [M EXCEPT ![a] = 0] = N
    BY <1>1, <1>5 DEF Noter, Marques
  <2>. QED BY <2>1, <2>2 DEF M, N, s0
<1>6. CASE N[a] # 0
  <2>1. M[a] # s0
    BY <1>2, <1>3, <1>4, <1>6
  <2>2. M = N
    BY <1>1, <1>6 DEF Noter, Marques
  <2>. QED BY <2>1, <2>2 DEF Efface, M, N, s0
<1>. QED BY <1>5, <1>6

-----------------------------------------------------------------------------
(* The frames and what they mean.  Everything is stated of a program c, a    *)
(* text t, the place b where the search began, that of the attempt s and a   *)
(* pile q, without the state of the machine.                                 *)

LeRang(c) == CHOOSE rang : EstRang(c, rang)

\* A match at the node m and the place j has gone on from p and i: further in
\* the text or, at the same place, in the program.
Apres(c, p, i, m, j) == i < j \/ (i = j /\ LeRang(c)[p] < LeRang(c)[m])

Domine(c, q, m, j) == \A k \in 1 .. Len(q) : Apres(c, q[k].scan, q[k].save, m, j)

Ordonnes(c, q) ==
  \A j, k \in 1 .. Len(q) : j < k => Apres(c, q[j].scan, q[j].save, q[k].scan, q[k].save)

\* The point at which the call of the frame k met its node, with the marks of
\* the calls below it, and the point it went on to.
Point(c, q, k) ==
  [n |-> q[k].scan, i |-> q[k].save, d |-> Notees(c, q, k - 1, "OPEN"), e |-> Notees(c, q, k - 1, "CLOSE")]

Tente(c, t, s0, q, k) == IF k = 0 THEN Entree(s0) ELSE Voie(c, t, Point(c, q, k), q[k].no)

\* The ways preferred to the one that each call tries have failed, and the
\* issue of its point is the one that the call below it waits for.
Enchaine(c, t, b, s0, q) ==
  \A k \in 1 .. Len(q) :
    /\ q[k].no \in Voies(c, t, b, Point(c, q, k))
    /\ \A m \in Voies(c, t, b, Point(c, q, k)) :
          m > q[k].no => Sens(c, t, b)[Voie(c, t, Point(c, q, k), m)] = Rate
    /\ Sens(c, t, b)[Point(c, q, k)] = Sens(c, t, b)[Tente(c, t, s0, q, k - 1)]

Empilee(c, t, b, s0, q, d, e) ==
  /\ q \in Seq(Cadres(c, t))
  /\ \A k \in 1 .. Len(q) : q[k].save >= s0
  /\ Ordonnes(c, q) /\ Enchaine(c, t, b, s0, q)
  /\ d = Notees(c, q, Len(q), "OPEN") /\ e = Notees(c, q, Len(q), "CLOSE")

\* A match under way at x, and a call that has failed.
EnMarche(c, t, b, s0, q, x) ==
  /\ Empilee(c, t, b, s0, q, x.d, x.e)
  /\ x \in Points(c, t) /\ x.i >= s0 /\ Domine(c, q, x.n, x.i)
  /\ Sens(c, t, b)[x] = Sens(c, t, b)[Tente(c, t, s0, q, Len(q))]

EnEchec(c, t, b, s0, q, d, e) ==
  /\ Empilee(c, t, b, s0, q, d, e)
  /\ Sens(c, t, b)[Tente(c, t, s0, q, Len(q))] = Rate

\* The program of a search and the place of an attempt are what the lemmas on
\* the ways ask for.
Donnees(c, t, b, s0) ==
  /\ BienForme(c) /\ SansBoucle(c) /\ t \in Seq(STRING)
  /\ b \in 1 .. Len(t) + 1 /\ s0 \in b .. Len(t) + 1

\* The ranks of a program that has some.
LEMMA RangExiste ==
  ASSUME NEW c, SansBoucle(c)
  PROVE  EstRang(c, LeRang(c))
<1>1. \E rang : EstRang(c, rang)
  BY DEF SansBoucle
<1>. QED BY <1>1 DEF LeRang

\* The frames up to k fix the point of the frame k and the way it tries.
LEMMA PointDebut ==
  ASSUME NEW c, NEW t, NEW s0, NEW q, NEW r, NEW k \in Nat, \A j \in 1 .. k : r[j] = q[j]
  PROVE  /\ k > 0 => Point(c, r, k) = Point(c, q, k)
         /\ Tente(c, t, s0, r, k) = Tente(c, t, s0, q, k)
<1>1. ASSUME k > 0 PROVE Point(c, r, k) = Point(c, q, k) /\ r[k] = q[k]
  <2>1. k - 1 \in Nat /\ (\A j \in 1 .. k - 1 : r[j] = q[j]) /\ r[k] = q[k]
    BY <1>1
  <2>2. \A op : Notees(c, r, k - 1, op) = Notees(c, q, k - 1, op)
    BY <2>1, NoteesDebut
  <2>. QED BY <2>1, <2>2 DEF Point
<1>. QED BY <1>1 DEF Tente

\* To go on by a way is to go further.
LEMMA ApresVoie ==
  ASSUME NEW c, BienForme(c), SansBoucle(c), NEW t \in Seq(STRING), NEW b, NEW x \in Points(c, t),
         NEW k \in Voies(c, t, b, x)
  PROVE  /\ Apres(c, x.n, x.i, Voie(c, t, x, k).n, Voie(c, t, x, k).i)
         /\ \A p \in Noeuds(c), i \in 1 .. Len(t) + 1 :
              Apres(c, p, i, x.n, x.i) => Apres(c, p, i, Voie(c, t, x, k).n, Voie(c, t, x, k).i)
<1>. DEFINE y == Voie(c, t, x, k)
            R == LeRang(c)
<1>1. y \in Points(c, t) /\ y.i >= x.i /\ (y.i = x.i => y.n \in Immediats(c, x.n))
  BY VoieMene
<1>. HIDE DEF y
<1>2. x.n \in Noeuds(c) /\ y.n \in Noeuds(c) /\ x.i \in Int /\ y.i \in Int /\ Len(t) \in Nat
  BY <1>1, PartsPoint
<1>3. EstRang(c, R)
  BY RangExiste
<1>. HIDE DEF R
<1>4. \A p \in Noeuds(c) : R[p] \in Int
  <2>1. \A p \in Noeuds(c) : p \in DOMAIN c /\ Len(c) \in Nat
    BY BonNoeud
  <2>. QED BY <1>3, <2>1 DEF EstRang
<1>5. y.i = x.i => R[x.n] < R[y.n]
  BY <1>1, <1>2, <1>3 DEF EstRang
<1>6. Apres(c, x.n, x.i, y.n, y.i)
  BY <1>1, <1>2, <1>5 DEF Apres, R
<1>7. ASSUME NEW p \in Noeuds(c), NEW i \in 1 .. Len(t) + 1, Apres(c, p, i, x.n, x.i)
      PROVE  Apres(c, p, i, y.n, y.i)
  <2>1. i < x.i \/ (i = x.i /\ R[p] < R[x.n])
    BY <1>7 DEF Apres, R
  <2>2. R[p] \in Int /\ R[x.n] \in Int /\ R[y.n] \in Int /\ i \in Int
    BY <1>2, <1>4
  <2>3. i < y.i \/ (i = y.i /\ R[p] < R[y.n])
    BY <1>1, <1>2, <1>5, <2>1, <2>2
  <2>. QED BY <2>3 DEF Apres, R
<1>. QED BY <1>6, <1>7 DEF y

\* The match goes on by a way that has the same issue, without a frame.
LEMMA Avance ==
  ASSUME NEW c, NEW t, NEW b, NEW s0, Donnees(c, t, b, s0), NEW q, NEW x,
         EnMarche(c, t, b, s0, q, x), NEW k \in Voies(c, t, b, x),
         Sens(c, t, b)[x] = Sens(c, t, b)[Voie(c, t, x, k)],
         c[x.n].op \notin {"OPEN", "CLOSE"}
  PROVE  EnMarche(c, t, b, s0, q, Voie(c, t, x, k))
<1>. DEFINE y == Voie(c, t, x, k)
<1>1. t \in Seq(STRING) /\ BienForme(c) /\ SansBoucle(c) /\ s0 \in Nat
  BY DEF Donnees
<1>2. x \in Points(c, t) /\ x.i >= s0 /\ q \in Seq(Cadres(c, t))
  BY DEF EnMarche, Empilee
<1>3. y \in Points(c, t) /\ y.i >= x.i
  BY <1>1, <1>2, VoieMene
<1>4. y.d = x.d /\ y.e = x.e
  BY DEF Voie
<1>5. Domine(c, q, y.n, y.i)
  <2>. SUFFICES ASSUME NEW j \in 1 .. Len(q) PROVE Apres(c, q[j].scan, q[j].save, y.n, y.i)
    BY DEF Domine
  <2>1. q[j].scan \in Noeuds(c) /\ q[j].save \in 1 .. Len(t) + 1
    BY <1>1, <1>2, PartsCadre
  <2>2. Apres(c, q[j].scan, q[j].save, x.n, x.i)
    BY DEF EnMarche, Domine
  <2>. QED BY <1>1, <1>2, <2>1, <2>2, ApresVoie
<1>6. y.i >= s0
  <2>1. y.i \in Int /\ x.i \in Int
    BY <1>1, <1>2, <1>3, PartsPoint
  <2>. QED BY <1>1, <1>2, <1>3, <2>1
<1>. HIDE DEF y
<1>. QED BY <1>3, <1>4, <1>5, <1>6 DEF EnMarche, y

\* A frame that is added leaves the others, and their marks.
LEMMA Ajoute ==
  ASSUME NEW c, NEW t \in Seq(STRING), NEW q \in Seq(Cadres(c, t)), NEW f \in Cadres(c, t)
  PROVE  /\ Append(q, f) \in Seq(Cadres(c, t)) /\ Len(Append(q, f)) = Len(q) + 1 /\ Len(q) \in Nat
         /\ (\A k \in 1 .. Len(q) : Append(q, f)[k] = q[k]) /\ Append(q, f)[Len(q) + 1] = f
         /\ \A op : Notees(c, Append(q, f), Len(q), op) = Notees(c, q, Len(q), op)
<1>. DEFINE r == Append(q, f)
            L == Len(q)
<1>1. r \in Seq(Cadres(c, t)) /\ Len(r) = L + 1 /\ L \in Nat
  OBVIOUS
<1>2. (\A k \in 1 .. L : r[k] = q[k]) /\ r[L + 1] = f
  OBVIOUS
<1>. HIDE DEF r, L
<1>3. \A op : Notees(c, r, L, op) = Notees(c, q, L, op)
  BY <1>1, <1>2, NoteesDebut
<1>. QED BY <1>1, <1>2, <1>3 DEF r, L

\* The marks after a frame is added are those that its way notes.
LEMMA NoteesEmpile ==
  ASSUME NEW c, BienForme(c), NEW t \in Seq(STRING), NEW q \in Seq(Cadres(c, t)), NEW x \in Points(c, t),
         NEW no \in Int, NEW r \in Seq(Cadres(c, t)), Len(r) = Len(q) + 1,
         r[Len(q) + 1] = [scan |-> x.n, save |-> x.i, no |-> no],
         \A op : Notees(c, r, Len(q), op) = Notees(c, q, Len(q), op),
         x.d = Notees(c, q, Len(q), "OPEN"), x.e = Notees(c, q, Len(q), "CLOSE")
  PROVE  /\ Point(c, r, Len(q) + 1) = x
         /\ Voie(c, t, x, no).d = Notees(c, r, Len(r), "OPEN")
         /\ Voie(c, t, x, no).e = Notees(c, r, Len(r), "CLOSE")
<1>. DEFINE L == Len(q)
            n == c[x.n]
<1>1. /\ x = [n |-> x.n, i |-> x.i, d |-> x.d, e |-> x.e]
      /\ x.n \in Noeuds(c) /\ x.i \in 1 .. Len(t) + 1
  BY PartsPoint
<1>2. L \in Nat /\ L + 1 = Len(r) /\ L < Len(r)
  OBVIOUS
<1>3. r[L + 1].scan = x.n /\ r[L + 1].save = x.i
  OBVIOUS
<1>4. \A op : Notees(c, r, L, op) = Notees(c, q, L, op)
  OBVIOUS
<1>5. x.d = Notees(c, q, L, "OPEN") /\ x.e = Notees(c, q, L, "CLOSE")
  OBVIOUS
<1>. HIDE DEF L, n
<1>6. Point(c, r, L + 1) = x
  <2>1. L + 1 - 1 = L
    BY <1>2
  <2>2. Notees(c, r, L + 1 - 1, "OPEN") = x.d /\ Notees(c, r, L + 1 - 1, "CLOSE") = x.e
    BY <1>4, <1>5, <2>1
  <2>3. Point(c, r, L + 1) = [n |-> x.n, i |-> x.i, d |-> x.d, e |-> x.e]
    BY <1>2, <1>3, <2>2 DEF Point
  <2>. QED BY <1>1, <2>3
<1>7. ASSUME NEW op, n.op # op PROVE Notees(c, r, L + 1, op) = Notees(c, q, L, op)
  <2>1. c[r[L + 1].scan].op # op
    BY <1>3, <1>7 DEF n
  <2>2. Notees(c, r, L + 1, op) = Notees(c, r, L, op)
    BY <1>2, <2>1, NoteesAutre
  <2>. QED BY <1>4, <2>2
<1>8. ASSUME NEW op, n.op = op, n.arg \in Groupes
      PROVE  Notees(c, r, L + 1, op) = Noter(Notees(c, q, L, op), n.arg, x.i)
  <2>1. c[r[L + 1].scan].op = op /\ c[r[L + 1].scan].arg \in Groupes
    BY <1>3, <1>8 DEF n
  <2>2. Notees(c, r, L + 1, op) = Noter(Notees(c, r, L, op), c[r[L + 1].scan].arg, r[L + 1].save)
    BY SMTT(30), <1>2, <2>1, NoteesUne
  <2>. QED BY <1>3, <1>4, <2>2 DEF n
<1>9. n.op \in {"OPEN", "CLOSE"} => n.arg \in Groupes
  BY <1>1, BonNoeud DEF n
<1>10. Voie(c, t, x, no).d = Notees(c, r, L + 1, "OPEN")
  <2>1. Voie(c, t, x, no).d = IF n.op = "OPEN" THEN Noter(x.d, n.arg, x.i) ELSE x.d
    BY DEF Voie, n
  <2>. QED BY <1>5, <1>7, <1>8, <1>9, <2>1
<1>11. Voie(c, t, x, no).e = Notees(c, r, L + 1, "CLOSE")
  <2>1. Voie(c, t, x, no).e = IF n.op = "CLOSE" THEN Noter(x.e, n.arg, x.i) ELSE x.e
    BY DEF Voie, n
  <2>. QED BY <1>5, <1>7, <1>8, <1>9, <2>1
<1>. QED BY <1>2, <1>6, <1>10, <1>11 DEF L

\* The match goes on by the way k, and a frame keeps what to do if it fails.
LEMMA Empile ==
  ASSUME NEW c, NEW t, NEW b, NEW s0, Donnees(c, t, b, s0), NEW q, NEW x,
         EnMarche(c, t, b, s0, q, x), NEW k \in Voies(c, t, b, x),
         \A m \in Voies(c, t, b, x) : m > k => Sens(c, t, b)[Voie(c, t, x, m)] = Rate,
         c[x.n].op = "BRANCH" => k = 0
  PROVE  EnMarche(c, t, b, s0, Append(q, [scan |-> x.n, save |-> x.i, no |-> k]), Voie(c, t, x, k))
<1>. DEFINE r == Append(q, [scan |-> x.n, save |-> x.i, no |-> k])
            y == Voie(c, t, x, k)
            L == Len(q)
            S == Sens(c, t, b)
<1>1. t \in Seq(STRING) /\ BienForme(c) /\ SansBoucle(c) /\ s0 \in Nat
  BY DEF Donnees
<1>2. /\ x \in Points(c, t) /\ x.i >= s0 /\ q \in Seq(Cadres(c, t))
      /\ x.d = Notees(c, q, L, "OPEN") /\ x.e = Notees(c, q, L, "CLOSE")
      /\ \A j \in 1 .. L : q[j].save >= s0
      /\ Ordonnes(c, q) /\ Enchaine(c, t, b, s0, q) /\ Domine(c, q, x.n, x.i)
      /\ S[x] = S[Tente(c, t, s0, q, L)]
  BY DEF EnMarche, Empilee
<1>3. y \in Points(c, t) /\ y.i >= x.i /\ k \in Int
  BY <1>1, <1>2, VoieMene
<1>4. /\ r \in Seq(Cadres(c, t)) /\ Len(r) = L + 1 /\ L \in Nat
      /\ \A j \in 1 .. L : r[j] = q[j]
      /\ r[L + 1] = [scan |-> x.n, save |-> x.i, no |-> k]
      /\ Point(c, r, L + 1) = x
      /\ y.d = Notees(c, r, Len(r), "OPEN") /\ y.e = Notees(c, r, Len(r), "CLOSE")
  <2>. DEFINE f == [scan |-> x.n, save |-> x.i, no |-> k]
  <2>1. f \in Cadres(c, t)
    BY <1>1, <1>2, <1>3, PartsPoint DEF Cadres
  <2>. HIDE DEF f
  <2>2. /\ r \in Seq(Cadres(c, t)) /\ Len(r) = L + 1 /\ L \in Nat
        /\ (\A j \in 1 .. L : r[j] = q[j]) /\ r[L + 1] = f
        /\ \A op : Notees(c, r, L, op) = Notees(c, q, L, op)
    BY <1>1, <1>2, <2>1, Ajoute DEF f
  <2>. HIDE DEF r
  <2>3. r[L + 1] = [scan |-> x.n, save |-> x.i, no |-> k]
    BY <2>2 DEF f
  <2>4. /\ Point(c, r, L + 1) = x
        /\ y.d = Notees(c, r, Len(r), "OPEN") /\ y.e = Notees(c, r, Len(r), "CLOSE")
    BY <1>1, <1>2, <1>3, <2>2, <2>3, NoteesEmpile
  <2>. QED BY <2>2, <2>3, <2>4
<1>. HIDE DEF r, y, S
<1>5. \A j \in 1 .. L : q[j].scan \in Noeuds(c) /\ q[j].save \in 1 .. Len(t) + 1
  BY <1>1, <1>2, PartsCadre
<1>6. x.i \in Int /\ y.i \in Int /\ y.i >= s0
  <2>1. x.i \in Int /\ y.i \in Int
    BY <1>1, <1>2, <1>3, PartsPoint
  <2>. QED BY <1>1, <1>2, <1>3, <2>1
<1>7. \A j \in 1 .. Len(r) : j \in 1 .. L \/ j = L + 1
  BY <1>4
<1>8. \A j \in 1 .. Len(r) : r[j].save >= s0
  BY <1>2, <1>4, <1>7
<1>9. Ordonnes(c, r)
  <2>. SUFFICES ASSUME NEW i \in 1 .. Len(r), NEW j \in 1 .. Len(r), i < j
                PROVE  Apres(c, r[i].scan, r[i].save, r[j].scan, r[j].save)
    BY DEF Ordonnes
  <2>1. i \in 1 .. L
    BY <1>4
  <2>2. CASE j \in 1 .. L
    BY <1>2, <1>4, <2>1, <2>2 DEF Ordonnes
  <2>3. CASE j = L + 1
    BY <1>2, <1>4, <2>1, <2>3 DEF Domine
  <2>. QED BY <1>7, <2>2, <2>3
<1>10. Domine(c, r, y.n, y.i)
  <2>. SUFFICES ASSUME NEW j \in 1 .. Len(r) PROVE Apres(c, r[j].scan, r[j].save, y.n, y.i)
    BY DEF Domine
  <2>1. CASE j \in 1 .. L
    <3>1. Apres(c, q[j].scan, q[j].save, x.n, x.i)
      BY <1>2, <2>1 DEF Domine
    <3>2. Apres(c, q[j].scan, q[j].save, y.n, y.i)
      BY <1>1, <1>2, <1>5, <2>1, <3>1, ApresVoie DEF y
    <3>. QED BY <1>4, <2>1, <3>2
  <2>2. CASE j = L + 1
    <3>1. Apres(c, x.n, x.i, y.n, y.i)
      BY <1>1, <1>2, ApresVoie DEF y
    <3>. QED BY <1>4, <2>2, <3>1
  <2>. QED BY <1>7, <2>1, <2>2
<1>11. Tente(c, t, s0, r, L + 1) = y /\ Tente(c, t, s0, r, L) = Tente(c, t, s0, q, L)
  <2>1. Tente(c, t, s0, r, L) = Tente(c, t, s0, q, L)
    BY <1>4, PointDebut
  <2>2. L + 1 # 0
    BY <1>4
  <2>. QED BY <1>4, <2>1, <2>2 DEF Tente, y
<1>12. Enchaine(c, t, b, s0, r)
  <2>. SUFFICES ASSUME NEW j \in 1 .. Len(r)
                PROVE  /\ r[j].no \in Voies(c, t, b, Point(c, r, j))
                       /\ \A m \in Voies(c, t, b, Point(c, r, j)) :
                            m > r[j].no => Sens(c, t, b)[Voie(c, t, Point(c, r, j), m)] = Rate
                       /\ Sens(c, t, b)[Point(c, r, j)] = Sens(c, t, b)[Tente(c, t, s0, r, j - 1)]
    BY DEF Enchaine
  <2>1. CASE j \in 1 .. L
    <3>1. j \in Nat /\ j > 0 /\ j - 1 \in Nat /\ (\A i \in 1 .. j : r[i] = q[i]) /\ \A i \in 1 .. j - 1 : r[i] = q[i]
      BY <1>4, <2>1
    <3>2. Point(c, r, j) = Point(c, q, j) /\ Tente(c, t, s0, r, j - 1) = Tente(c, t, s0, q, j - 1) /\ r[j] = q[j]
      BY ZenonT(40), <1>4, <2>1, <3>1, PointDebut
    <3>. QED BY <1>2, <2>1, <3>2 DEF Enchaine
  <2>2. CASE j = L + 1
    <3>1. j - 1 = L /\ r[j].no = k /\ Point(c, r, j) = x
      BY <1>4, <2>2
    <3>. QED BY <1>2, <1>11, <3>1 DEF S
  <2>. QED BY <1>7, <2>1, <2>2
<1>13. S[y] = S[Tente(c, t, s0, r, Len(r))]
  BY <1>4, <1>11
<1>14. Empilee(c, t, b, s0, r, y.d, y.e)
  BY <1>4, <1>8, <1>9, <1>12 DEF Empilee
<1>. QED BY <1>3, <1>6, <1>10, <1>13, <1>14 DEF EnMarche, r, y, S

\* An attempt begins with an empty pile.
LEMMA Commence ==
  ASSUME NEW c, NEW t, NEW b, NEW s0, Donnees(c, t, b, s0)
  PROVE  EnMarche(c, t, b, s0, <<>>, Entree(s0))
<1>1. t \in Seq(STRING) /\ BienForme(c) /\ s0 \in 1 .. Len(t) + 1 /\ Len(t) \in Nat
  BY DEF Donnees
<1>2. NULS \in Marques(t) /\ 1 \in Noeuds(c)
  BY <1>1 DEF NULS, Marques, BienForme
<1>3. Entree(s0) \in Points(c, t) /\ Entree(s0).i = s0 /\ Entree(s0).d = NULS /\ Entree(s0).e = NULS
  BY <1>1, <1>2 DEF Entree, Points
<1>4. <<>> \in Seq(Cadres(c, t)) /\ Len(<<>>) = 0 /\ 1 .. 0 = {}
  OBVIOUS
<1>5. Ordonnes(c, <<>>) /\ Enchaine(c, t, b, s0, <<>>) /\ Domine(c, <<>>, Entree(s0).n, s0)
  BY <1>4 DEF Ordonnes, Enchaine, Domine
<1>6. Tente(c, t, s0, <<>>, 0) = Entree(s0)
  BY DEF Tente
<1>7. Notees(c, <<>>, 0, "OPEN") = NULS /\ Notees(c, <<>>, 0, "CLOSE") = NULS
  BY NoteesRien
<1>8. Empilee(c, t, b, s0, <<>>, Entree(s0).d, Entree(s0).e)
  BY <1>3, <1>4, <1>5, <1>7 DEF Empilee
<1>9. s0 >= s0
  BY <1>1
<1>. QED BY <1>3, <1>4, <1>5, <1>6, <1>8, <1>9 DEF EnMarche

\* The pile without its last frame: the match is back where that frame met
\* its node.
LEMMA Sommet ==
  ASSUME NEW c, NEW t, NEW b, NEW s0, Donnees(c, t, b, s0), NEW q, NEW d, NEW e,
         EnEchec(c, t, b, s0, q, d, e), q # <<>>
  PROVE  /\ Len(q) \in 1 .. Len(q) /\ Len(q) \in Nat
         /\ Front(q) \in Seq(Cadres(c, t)) /\ Len(Front(q)) = Len(q) - 1
         /\ \A k \in 1 .. Len(q) - 1 : Front(q)[k] = q[k]
         /\ EnMarche(c, t, b, s0, Front(q), Point(c, q, Len(q)))
         /\ q[Len(q)].no \in Voies(c, t, b, Point(c, q, Len(q)))
         /\ \A m \in Voies(c, t, b, Point(c, q, Len(q))) :
              m >= q[Len(q)].no => Sens(c, t, b)[Voie(c, t, Point(c, q, Len(q)), m)] = Rate
<1>. DEFINE r == Front(q)
            L == Len(q)
            x == Point(c, q, L)
            S == Sens(c, t, b)
<1>1. t \in Seq(STRING) /\ BienForme(c) /\ SansBoucle(c) /\ s0 \in Nat
  BY DEF Donnees
<1>2. /\ q \in Seq(Cadres(c, t)) /\ \A j \in 1 .. L : q[j].save >= s0
      /\ Ordonnes(c, q) /\ Enchaine(c, t, b, s0, q)
      /\ S[Tente(c, t, s0, q, L)] = Rate
  BY DEF EnEchec, Empilee
<1>3. L \in Nat /\ L \in 1 .. L /\ L # 0
  BY <1>2
<1>4. r \in Seq(Cadres(c, t)) /\ Len(r) = L - 1 /\ \A k \in 1 .. L - 1 : r[k] = q[k]
  <2>1. L - 1 \in Int /\ \A k \in 1 .. L - 1 : q[k] \in Cadres(c, t)
    BY <1>2, <1>3
  <2>2. r = SubSeq(q, 1, L - 1)
    BY DEF Front
  <2>. HIDE DEF r, L
  <2>3. SubSeq(q, 1, L - 1) \in Seq(Cadres(c, t)) /\ Len(SubSeq(q, 1, L - 1)) = L - 1
        /\ \A k \in 1 .. L - 1 : SubSeq(q, 1, L - 1)[k] = q[k]
    <3>1. Len(SubSeq(q, 1, L - 1)) = IF 1 <= L - 1 THEN L - 1 - 1 + 1 ELSE 0
      BY <2>1, SubSeqProperties
    <3>2. L - 1 - 1 + 1 = L - 1 /\ (~ (1 <= L - 1) => L - 1 = 0)
      BY <1>3
    <3>3. SubSeq(q, 1, L - 1) \in Seq(Cadres(c, t))
          /\ \A k \in 1 .. L - 1 - 1 + 1 : SubSeq(q, 1, L - 1)[k] = q[1 + k - 1]
      BY <2>1, SubSeqProperties
    <3>. QED BY <1>3, <3>1, <3>2, <3>3
  <2>. QED BY <2>2, <2>3
<1>. HIDE DEF r, L, S
<1>5. /\ q[L].scan \in Noeuds(c) /\ q[L].save \in 1 .. Len(t) + 1 /\ q[L].no \in Int
  BY <1>1, <1>2, <1>3, PartsCadre DEF L
<1>6. L - 1 \in 0 .. Len(q) /\ L - 1 \in Nat
  BY <1>3 DEF L
<1>7. x = [n |-> q[L].scan, i |-> q[L].save, d |-> Notees(c, q, L - 1, "OPEN"), e |-> Notees(c, q, L - 1, "CLOSE")]
  BY DEF Point
<1>8. Notees(c, q, L - 1, "OPEN") \in Marques(t) /\ Notees(c, q, L - 1, "CLOSE") \in Marques(t)
  BY <1>1, <1>2, <1>6, NoteesType
<1>9. x \in Points(c, t)
  BY <1>5, <1>7, <1>8 DEF Points
<1>. HIDE DEF x
<1>10. /\ q[L].no \in Voies(c, t, b, x)
       /\ \A m \in Voies(c, t, b, x) : m > q[L].no => S[Voie(c, t, x, m)] = Rate
       /\ S[x] = S[Tente(c, t, s0, q, L - 1)]
  BY <1>2, <1>3 DEF Enchaine, L, x, S
<1>11. Tente(c, t, s0, q, L) = Voie(c, t, x, q[L].no)
  BY <1>3 DEF Tente, x
<1>12. \A m \in Voies(c, t, b, x) : m >= q[L].no => S[Voie(c, t, x, m)] = Rate
  <2>. SUFFICES ASSUME NEW m \in Voies(c, t, b, x), m >= q[L].no PROVE S[Voie(c, t, x, m)] = Rate
    OBVIOUS
  <2>1. m \in Int
    BY <1>1, <1>9, VoieMene
  <2>2. m > q[L].no \/ m = q[L].no
    BY <1>5, <2>1
  <2>. QED BY <1>2, <1>10, <1>11, <2>2
<1>13. \A op : Notees(c, r, L - 1, op) = Notees(c, q, L - 1, op)
  BY <1>4, <1>6, NoteesDebut
<1>14. x.d = Notees(c, r, Len(r), "OPEN") /\ x.e = Notees(c, r, Len(r), "CLOSE")
  BY <1>4, <1>7, <1>13
<1>15. \A k \in 1 .. Len(r) : k \in 1 .. Len(q) /\ r[k] = q[k] /\ k < L /\ k \in 1 .. L
  BY <1>3, <1>4 DEF L
<1>16. \A k \in 1 .. Len(r) : r[k].save >= s0
  BY <1>2, <1>15
<1>17. Ordonnes(c, r)
  BY <1>2, <1>15 DEF Ordonnes
<1>18. Domine(c, r, x.n, x.i)
  <2>1. x.n = q[L].scan /\ x.i = q[L].save /\ L \in 1 .. Len(q)
    BY <1>3, <1>7 DEF L
  <2>. QED BY <1>2, <1>15, <2>1 DEF Ordonnes, Domine
<1>19. Enchaine(c, t, b, s0, r)
  <2>. SUFFICES ASSUME NEW j \in 1 .. Len(r)
                PROVE  /\ r[j].no \in Voies(c, t, b, Point(c, r, j))
                       /\ \A m \in Voies(c, t, b, Point(c, r, j)) :
                            m > r[j].no => Sens(c, t, b)[Voie(c, t, Point(c, r, j), m)] = Rate
                       /\ Sens(c, t, b)[Point(c, r, j)] = Sens(c, t, b)[Tente(c, t, s0, r, j - 1)]
    BY DEF Enchaine
  <2>1. j \in Nat /\ j > 0 /\ j - 1 \in Nat /\ (\A i \in 1 .. j : r[i] = q[i]) /\ \A i \in 1 .. j - 1 : r[i] = q[i]
    BY <1>3, <1>4
  <2>2. Point(c, r, j) = Point(c, q, j) /\ Tente(c, t, s0, r, j - 1) = Tente(c, t, s0, q, j - 1) /\ r[j] = q[j]
    BY <2>1, PointDebut
  <2>. QED BY <1>2, <1>15, <2>2 DEF Enchaine
<1>20. Empilee(c, t, b, s0, r, x.d, x.e)
  BY <1>4, <1>14, <1>16, <1>17, <1>19 DEF Empilee
<1>21. x.i >= s0
  BY <1>2, <1>3, <1>7
<1>22. Tente(c, t, s0, r, Len(r)) = Tente(c, t, s0, q, L - 1)
  BY <1>4, <1>6, PointDebut
<1>23. EnMarche(c, t, b, s0, r, x)
  BY <1>9, <1>10, <1>18, <1>20, <1>21, <1>22 DEF EnMarche, S
<1>. QED BY <1>3, <1>4, <1>10, <1>12, <1>23 DEF r, L, x, S

\* A match that no way can take on fails.
LEMMA Manque ==
  ASSUME NEW c, NEW t, NEW b, NEW s0, Donnees(c, t, b, s0), NEW q, NEW x, EnMarche(c, t, b, s0, q, x),
         c[x.n].op # "END", \A m \in Voies(c, t, b, x) : Sens(c, t, b)[Voie(c, t, x, m)] = Rate
  PROVE  EnEchec(c, t, b, s0, q, x.d, x.e)
<1>1. x \in Points(c, t) /\ Empilee(c, t, b, s0, q, x.d, x.e)
      /\ Sens(c, t, b)[x] = Sens(c, t, b)[Tente(c, t, s0, q, Len(q))]
  BY DEF EnMarche
<1>2. Sens(c, t, b)[x] = Rate
  BY <1>1, SensRate DEF Donnees
<1>. QED BY <1>1, <1>2 DEF EnEchec

\* What the last frame takes back: the marks are again those of the frames
\* below it.
LEMMA Reprend ==
  ASSUME NEW c, NEW t, NEW b, NEW s0, Donnees(c, t, b, s0), NEW q, NEW d, NEW e,
         EnEchec(c, t, b, s0, q, d, e), q # <<>>, NEW f, f = q[Len(q)], NEW x, x = Point(c, q, Len(q))
  PROVE  /\ x.d = IF c[f.scan].op = "OPEN" THEN Efface(d, c[f.scan].arg, f.save) ELSE d
         /\ x.e = IF c[f.scan].op = "CLOSE" THEN Efface(e, c[f.scan].arg, f.save) ELSE e
<1>. DEFINE L == Len(q)
            n == L - 1
<1>1. t \in Seq(STRING) /\ BienForme(c) /\ SansBoucle(c)
  BY DEF Donnees
<1>2. /\ q \in Seq(Cadres(c, t)) /\ Ordonnes(c, q)
      /\ d = Notees(c, q, L, "OPEN") /\ e = Notees(c, q, L, "CLOSE")
  BY DEF EnEchec, Empilee
<1>3. L \in Nat /\ n \in Nat /\ n + 1 = L /\ n < Len(q) /\ L \in 1 .. Len(q)
  BY <1>2
<1>4. x.d = Notees(c, q, n, "OPEN") /\ x.e = Notees(c, q, n, "CLOSE")
  BY <1>3 DEF Point
<1>5. f = q[n + 1]
  BY <1>3
<1>. HIDE DEF L, n
<1>6. \A k \in 1 .. n + 1 : k \in 1 .. Len(q) /\ q[k].scan \in Noeuds(c)
  <2>1. \A k \in 1 .. n + 1 : k \in 1 .. Len(q)
    BY <1>3 DEF L
  <2>. QED BY <1>1, <1>2, <2>1, PartsCadre
<1>7. ASSUME NEW op, c[f.scan].op # op PROVE Notees(c, q, L, op) = Notees(c, q, n, op)
  BY <1>3, <1>5, <1>7, NoteesAutre
<1>8. ASSUME NEW op \in {"OPEN", "CLOSE"}, c[f.scan].op = op
      PROVE  Efface(Notees(c, q, L, op), c[f.scan].arg, f.save) = Notees(c, q, n, op)
  <2>1. f.scan \in Noeuds(c) /\ c[f.scan].arg \in Groupes
    <3>1. f.scan \in Noeuds(c)
      BY <1>3, <1>5, <1>6
    <3>. QED BY <1>1, <1>8, <3>1, BonNoeud
  <2>2. \A j \in Notent(c, q, n, op, c[f.scan].arg) : q[j].save < f.save
    <3>. SUFFICES ASSUME NEW j \in Notent(c, q, n, op, c[f.scan].arg) PROVE q[j].save < f.save
      OBVIOUS
    <3>1. j \in 1 .. n /\ c[q[j].scan].op = op /\ c[q[j].scan].arg = c[f.scan].arg
      BY DEF Notent
    <3>2. j \in 1 .. Len(q) /\ n + 1 \in 1 .. Len(q) /\ j < n + 1 /\ q[j].scan \in Noeuds(c)
      BY <1>3, <1>6, <3>1
    <3>3. q[j].scan = f.scan
      BY <1>1, <1>8, <2>1, <3>1, <3>2 DEF BienForme
    <3>4. Apres(c, q[j].scan, q[j].save, f.scan, f.save)
      BY <1>2, <1>5, <3>2 DEF Ordonnes
    <3>5. LeRang(c)[f.scan] \in Int
      <4>1. f.scan \in DOMAIN c /\ Len(c) \in Nat
        BY <1>1, <2>1, BonNoeud
      <4>. QED BY <1>1, <4>1, RangExiste DEF EstRang
    <3>. QED BY <3>3, <3>4, <3>5 DEF Apres
  <2>. QED BY <1>1, <1>2, <1>3, <1>5, <1>8, <2>1, <2>2, NoteesEfface
<1>. QED BY <1>2, <1>4, <1>7, <1>8 DEF L

\* A frame stands at a point of the match.
LEMMA PointType ==
  ASSUME NEW c, NEW t \in Seq(STRING), NEW q \in Seq(Cadres(c, t)), NEW k \in 1 .. Len(q)
  PROVE  Point(c, q, k) \in Points(c, t)
<1>1. /\ q[k].scan \in Noeuds(c) /\ q[k].save \in 1 .. Len(t) + 1
  BY PartsCadre
<1>2. k - 1 \in 0 .. Len(q)
  OBVIOUS
<1>3. Notees(c, q, k - 1, "OPEN") \in Marques(t) /\ Notees(c, q, k - 1, "CLOSE") \in Marques(t)
  BY <1>2, NoteesType
<1>. QED BY <1>1, <1>3 DEF Point, Points

\* A match that succeeds makes all the calls that wait for it succeed: the
\* attempt has its issue.  Of the frames that would not, the last one is below
\* one that does.
LEMMA Remonte ==
  ASSUME NEW c, NEW t, NEW b, NEW s0, Donnees(c, t, b, s0), NEW q, NEW x,
         EnMarche(c, t, b, s0, q, x), Sens(c, t, b)[x] # Rate
  PROVE  Sens(c, t, b)[Entree(s0)] = Sens(c, t, b)[x]
<1>. DEFINE S == Sens(c, t, b)
            L == Len(q)
            K == {k \in 0 .. L : S[Tente(c, t, s0, q, k)] # S[x]}
<1>1. /\ t \in Seq(STRING) /\ BienForme(c) /\ SansBoucle(c)
      /\ q \in Seq(Cadres(c, t)) /\ Enchaine(c, t, b, s0, q)
      /\ S[x] = S[Tente(c, t, s0, q, L)]
  BY DEF Donnees, EnMarche, Empilee
<1>2. L \in Nat
  BY <1>1
<1>3. ASSUME K # {} PROVE FALSE
  <2>1. PICK k \in K : \A j \in K : k >= j
    <3>. HIDE DEF L
    <3>1. K \in SUBSET (0 .. L)
      OBVIOUS
    <3>. HIDE DEF K
    <3>. QED BY <1>2, <1>3, <3>1, PlusGrand
  <2>2. k \in 0 .. L /\ k # L /\ k + 1 \in 1 .. L /\ k + 1 \notin K
    <3>1. k \in 0 .. L /\ k # L
      BY <1>1
    <3>2. k + 1 \in 1 .. L /\ k + 1 > k
      BY <1>2, <3>1
    <3>. HIDE DEF K, L
    <3>3. k + 1 \notin K
      BY <2>1, <3>1, <3>2
    <3>. QED BY <3>1, <3>2, <3>3
  <2>. DEFINE y == Point(c, q, k + 1)
              no == q[k + 1].no
  <2>3. S[Tente(c, t, s0, q, k + 1)] = S[x]
    <3>1. k + 1 \in 0 .. L
      BY <1>2, <2>2
    <3>. QED BY <2>2, <3>1
  <2>4. /\ no \in Voies(c, t, b, y)
        /\ \A m \in Voies(c, t, b, y) : m > no => S[Voie(c, t, y, m)] = Rate
        /\ S[y] = S[Tente(c, t, s0, q, k + 1 - 1)]
    BY <1>1, <2>2 DEF Enchaine
  <2>5. y \in Points(c, t)
    BY <1>1, <2>2, PointType
  <2>6. k + 1 # 0 /\ k + 1 - 1 = k
    BY <2>2
  <2>7. Tente(c, t, s0, q, k + 1) = Voie(c, t, y, no)
    BY <2>6 DEF Tente
  <2>. HIDE DEF y, no, S, K, L
  <2>8. S[y] = S[Voie(c, t, y, no)]
    BY <1>1, <2>3, <2>4, <2>5, <2>7, SensPrefere DEF S
  <2>9. S[Tente(c, t, s0, q, k)] = S[x]
    BY <2>3, <2>4, <2>6, <2>7, <2>8
  <2>. QED BY <2>1, <2>9 DEF K
<1>4. S[Tente(c, t, s0, q, 0)] = S[x]
  <2>1. 0 \in 0 .. L
    BY <1>2
  <2>. QED BY <1>3, <2>1
<1>. QED BY <1>4 DEF Tente

-----------------------------------------------------------------------------
(* The shortcuts of regexec. *)

\* A point where a program that has only one branch begins, and the node that
\* follows.
LEMMA DebutUnique ==
  ASSUME NEW c, BienForme(c), SansBoucle(c), NEW t \in Seq(STRING), NEW b, NEW i \in 1 .. Len(t) + 1,
         c[1].op = "BRANCH", c[Regnext(c, 1)].op # "BRANCH"
  PROVE  /\ Sens(c, t, b)[Entree(i)] = Sens(c, t, b)[Voie(c, t, Entree(i), 0)]
         /\ Voie(c, t, Entree(i), 0) \in Points(c, t)
         /\ Voie(c, t, Entree(i), 0).n = 2 /\ Voie(c, t, Entree(i), 0).i = i
<1>. DEFINE x == Entree(i)
<1>1. NULS \in Marques(t) /\ 1 \in Noeuds(c)
  <2>1. Len(t) \in Nat
    OBVIOUS
  <2>. QED BY <2>1 DEF NULS, Marques, BienForme
<1>2. x \in Points(c, t) /\ x.n = 1 /\ x.i = i
  BY <1>1 DEF Entree, Points
<1>. HIDE DEF x
<1>3. Voies(c, t, b, x) = {0}
  BY <1>2 DEF Voies, Boucles
<1>4. Voie(c, t, x, 0) \in Points(c, t)
  BY <1>2, <1>3, VoieMene
<1>5. Pris(c, t, x, 0) = 0
  BY <1>2 DEF Pris, Boucles, Caracteres
<1>6. Voie(c, t, x, 0).n = 2 /\ Voie(c, t, x, 0).i = i
  BY <1>2, <1>5 DEF Voie
<1>7. Sens(c, t, b)[x] = Sens(c, t, b)[Voie(c, t, x, 0)]
  BY <1>2, <1>3, SensPrefere
<1>. QED BY <1>4, <1>6, <1>7 DEF x

\* No match begins at a place that has not the first character.
LEMMA PremierCaractere ==
  ASSUME NEW p, Correct(p), NEW t \in Seq(STRING), NEW b, NEW i \in 1 .. Len(t) + 1,
         p.start # FIN, ~ (i <= Len(t) /\ t[i] = p.start)
  PROVE  Sens(p.code, t, b)[Entree(i)] = Rate
<1>. DEFINE c == p.code
            y == Voie(c, t, Entree(i), 0)
<1>1. /\ BienForme(c) /\ SansBoucle(c)
      /\ c[1].op = "BRANCH" /\ c[Regnext(c, 1)].op # "BRANCH"
      /\ c[2].op = "EXACTLY" /\ c[2].arg[1] = p.start
  BY DEF Correct, RaccourcisJustes
<1>2. /\ Sens(c, t, b)[Entree(i)] = Sens(c, t, b)[y]
      /\ y \in Points(c, t) /\ y.n = 2 /\ y.i = i
  BY <1>1, DebutUnique
<1>. HIDE DEF c, y
<1>3. 2 \in Noeuds(c)
  BY <1>2, PartsPoint
<1>4. c[2].arg \in Seq(STRING) /\ c[2].arg # <<>>
  BY <1>1, <1>3, BonNoeud
<1>5. ~ Suit(c[2].arg, t, i)
  BY <1>1, <1>4, SuitBorne DEF c
<1>6. Voies(c, t, b, y) = {}
  BY <1>1, <1>2, <1>5 DEF Voies, Laisse, Boucles, Caracteres, Convient
<1>7. Sens(c, t, b)[y] = Rate
  BY <1>1, <1>2, <1>6, SensRate
<1>. QED BY <1>2, <1>7 DEF c

\* An anchored expression matches only where the search begins.
LEMMA Ancree ==
  ASSUME NEW p, Correct(p), NEW t \in Seq(STRING), NEW b, NEW i \in 1 .. Len(t) + 1,
         p.anch, i # b
  PROVE  Sens(p.code, t, b)[Entree(i)] = Rate
<1>. DEFINE c == p.code
            y == Voie(c, t, Entree(i), 0)
<1>1. /\ BienForme(c) /\ SansBoucle(c)
      /\ c[1].op = "BRANCH" /\ c[Regnext(c, 1)].op # "BRANCH"
      /\ c[2].op = "BOL"
  BY DEF Correct, RaccourcisJustes
<1>2. /\ Sens(c, t, b)[Entree(i)] = Sens(c, t, b)[y]
      /\ y \in Points(c, t) /\ y.n = 2 /\ y.i = i
  BY <1>1, DebutUnique
<1>. HIDE DEF c, y
<1>3. Voies(c, t, b, y) = {}
  BY <1>1, <1>2 DEF Voies, Laisse, Boucles, Caracteres
<1>4. Sens(c, t, b)[y] = Rate
  BY <1>1, <1>2, <1>3, SensRate
<1>. QED BY <1>2, <1>4 DEF c

\* No match without the literal that must appear.  Of the points before its
\* node that would succeed, the one that has the least to do goes on to
\* another.
LEMMA Obligatoire ==
  ASSUME NEW p, Correct(p), NEW t \in Seq(STRING), NEW b \in 1 .. Len(t) + 1, NEW i \in b .. Len(t) + 1,
         p.must \in Nat, p.must > 0, \A j \in b .. Len(t) + 1 : ~ Suit(p.code[p.must].arg, t, j)
  PROVE  Sens(p.code, t, b)[Entree(i)] = Rate
<1>. DEFINE c == p.code
            u == p.must
            S == Sens(c, t, b)
            rang == LeRang(c)
            R(x) == Reste(c, t, rang, x)
            M == {x \in Points(c, t) : x.n <= u /\ x.i >= b /\ S[x] # Rate}
            T == {R(x) : x \in M}
<1>1. /\ BienForme(c) /\ SansBoucle(c)
      /\ u \in Noeuds(c) /\ c[u].op = "EXACTLY"
      /\ \A m \in Noeuds(c) \cap 1 .. u - 1 : c[m].op # "END" /\ Suivants(c, m) \subseteq 1 .. u
      /\ EstRang(c, rang)
  BY RangExiste DEF Correct, RaccourcisJustes
<1>2. Len(t) \in Nat /\ \A m \in Noeuds(c) : m \in Nat /\ m >= 1
  <2>1. \A m \in Noeuds(c) : m \in 1 .. Len(c) /\ Len(c) \in Nat
    BY <1>1, BonNoeud
  <2>. QED BY <2>1
<1>. HIDE DEF c, rang, S
<1>3. ASSUME NEW x \in M PROVE \E y \in M : R(y) < R(x)
  <2>1. /\ x \in Points(c, t) /\ x.n <= u /\ x.i >= b /\ S[x] # Rate
        /\ x.n \in Noeuds(c) /\ x.i \in 1 .. Len(t) + 1
    BY PartsPoint
  <2>2. x.n # u
    <3>1. ASSUME x.n = u PROVE FALSE
      <4>1. x.i \in b .. Len(t) + 1
        BY <1>2, <2>1
      <4>2. ~ Laisse(c, t, b, x)
        BY <1>1, <3>1, <4>1 DEF Laisse, Caracteres, Convient, c
      <4>3. Voies(c, t, b, x) = {} /\ c[x.n].op # "END"
        BY <1>1, <3>1, <4>2 DEF Voies, Boucles
      <4>. QED BY <1>1, <2>1, <4>3, SensRate DEF S
    <3>. QED BY <3>1
  <2>3. c[x.n].op # "END" /\ Suivants(c, x.n) \subseteq 1 .. u
    <3>1. x.n \in Noeuds(c) \cap 1 .. u - 1
      BY <1>2, <2>1, <2>2
    <3>. QED BY <1>1, <3>1
  <2>4. PICK k \in Voies(c, t, b, x) : S[Voie(c, t, x, k)] # Rate
    BY <1>1, <2>1, <2>3, SensRate DEF S
  <2>. DEFINE y == Voie(c, t, x, k)
  <2>5. y \in Points(c, t) /\ y.i >= x.i /\ y.n \in Suivants(c, x.n)
    BY <1>1, <2>1, VoieMene
  <2>6. R(y) < R(x)
    BY <1>1, <2>1, ResteBaisse
  <2>. HIDE DEF y
  <2>7. y.n <= u /\ y.i >= b
    <3>1. y.i \in Int
      BY <2>5, PartsPoint
    <3>. QED BY <1>2, <2>1, <2>3, <2>5, <3>1
  <2>8. y \in M
    BY <2>4, <2>5, <2>7 DEF y
  <2>. QED BY <2>6, <2>8 DEF y
<1>4. M = {}
  <2>. SUFFICES ASSUME M # {} PROVE FALSE
    OBVIOUS
  <2>1. \A x \in M : R(x) \in Nat
    BY <1>1, ResteBaisse
  <2>. HIDE DEF M, R
  <2>2. T \in SUBSET Nat /\ T # {}
    BY <2>1
  <2>3. PICK r \in T : \A r2 \in T : r <= r2
    <3>. HIDE DEF T
    <3>. QED BY <2>2, PlusPetit
  <2>4. PICK x \in M : r = R(x)
    BY <2>3
  <2>5. PICK y \in M : R(y) < R(x)
    BY <1>3
  <2>6. R(y) \in T /\ R(y) \in Nat /\ R(x) \in Nat
    BY <2>1
  <2>7. r <= R(y)
    <3>. HIDE DEF T
    <3>. QED BY <2>3, <2>6
  <2>. HIDE DEF T
  <2>. QED BY <2>4, <2>5, <2>6, <2>7
<1>5. Entree(i) \in Points(c, t) /\ Entree(i).n <= u /\ Entree(i).i >= b
  <2>1. NULS \in Marques(t) /\ 1 \in Noeuds(c) /\ i \in 1 .. Len(t) + 1
    BY <1>1, <1>2 DEF NULS, Marques, BienForme
  <2>. QED BY <1>2, <2>1 DEF Entree, Points
<1>. QED BY <1>4, <1>5 DEF c, S

-----------------------------------------------------------------------------
(* The steps of regmatch, of a program, a text and a pile.  *)

\* A node that offers no choice and notes nothing goes on, or fails.
LEMMA PasseOuEchoue ==
  ASSUME NEW c, NEW t, NEW b, NEW s0, Donnees(c, t, b, s0), NEW q, NEW x, EnMarche(c, t, b, s0, q, x),
         c[x.n].op \notin Boucles \cup {"BRANCH", "END", "OPEN", "CLOSE"}
  PROVE  /\ Laisse(c, t, b, x) => EnMarche(c, t, b, s0, q, Voie(c, t, x, 0))
         /\ ~ Laisse(c, t, b, x) => EnEchec(c, t, b, s0, q, x.d, x.e)
<1>1. Voies(c, t, b, x) = {k \in {0} : Laisse(c, t, b, x)}
  BY DEF Voies
<1>2. t \in Seq(STRING) /\ BienForme(c) /\ SansBoucle(c) /\ x \in Points(c, t)
  BY DEF Donnees, EnMarche
<1>3. ASSUME Laisse(c, t, b, x) PROVE EnMarche(c, t, b, s0, q, Voie(c, t, x, 0))
  <2>1. Voies(c, t, b, x) = {0}
    BY <1>1, <1>3
  <2>2. Sens(c, t, b)[x] = Sens(c, t, b)[Voie(c, t, x, 0)]
    BY <1>2, <2>1, SensPrefere
  <2>. QED BY <2>1, <2>2, Avance
<1>4. ASSUME ~ Laisse(c, t, b, x) PROVE EnEchec(c, t, b, s0, q, x.d, x.e)
  BY <1>1, <1>4, Manque
<1>. QED BY <1>3, <1>4

\* A repetition after which the next literal cannot begin fails.
LEMMA Regarde ==
  ASSUME NEW c, BienForme(c), SansBoucle(c), NEW t \in Seq(STRING), NEW b, NEW x \in Points(c, t),
         c[x.n].op \in Boucles, NEW m \in Voies(c, t, b, x), c[Regnext(c, x.n)].op = "EXACTLY",
         ~ (x.i + m <= Len(t) /\ t[x.i + m] = c[Regnext(c, x.n)].arg[1])
  PROVE  Sens(c, t, b)[Voie(c, t, x, m)] = Rate
<1>. DEFINE y == Voie(c, t, x, m)
            n == Regnext(c, x.n)
<1>1. y \in Points(c, t)
  BY VoieMene
<1>2. y.n = n /\ y.i = x.i + m
  BY DEF Voie, Pris, Boucles, Caracteres
<1>. HIDE DEF y, n
<1>3. n \in Noeuds(c) /\ y.i \in 1 .. Len(t) + 1
  BY <1>1, <1>2, PartsPoint
<1>4. c[n].arg \in Seq(STRING) /\ c[n].arg # <<>>
  BY <1>3, BonNoeud DEF n
<1>5. ~ Suit(c[n].arg, t, y.i)
  BY <1>2, <1>3, <1>4, SuitBorne DEF n
<1>6. c[y.n].op = "EXACTLY"
  BY <1>2 DEF n
<1>7. Voies(c, t, b, y) = {}
  BY <1>2, <1>5, <1>6 DEF Voies, Laisse, Boucles, Caracteres, Convient
<1>8. Sens(c, t, b)[y] = Rate
  BY <1>1, <1>6, <1>7, SensRate
<1>. QED BY <1>8 DEF y

\* A repetition tries the greatest number of those worth a try, or fails.
LEMMA Repete ==
  ASSUME NEW c, NEW t, NEW b, NEW s0, Donnees(c, t, b, s0), NEW q, NEW x, EnMarche(c, t, b, s0, q, x),
         c[x.n].op \in Boucles, NEW ks \in SUBSET Voies(c, t, b, x),
         \A m \in Voies(c, t, b, x) \ ks : Sens(c, t, b)[Voie(c, t, x, m)] = Rate
  PROVE  /\ ks = {} => EnEchec(c, t, b, s0, q, x.d, x.e)
         /\ ks # {} => EnMarche(c, t, b, s0, Append(q, [scan |-> x.n, save |-> x.i, no |-> Max(ks)]),
                                [n |-> Regnext(c, x.n), i |-> x.i + Max(ks), d |-> x.d, e |-> x.e])
<1>1. t \in Seq(STRING) /\ BienForme(c) /\ SansBoucle(c) /\ x \in Points(c, t)
  BY DEF Donnees, EnMarche
<1>2. c[x.n].op \notin {"BRANCH", "END", "OPEN", "CLOSE"} \cup Caracteres
  BY DEF Boucles, Caracteres
<1>3. ASSUME ks = {} PROVE EnEchec(c, t, b, s0, q, x.d, x.e)
  BY <1>2, <1>3, Manque
<1>4. ASSUME ks # {}
      PROVE  EnMarche(c, t, b, s0, Append(q, [scan |-> x.n, save |-> x.i, no |-> Max(ks)]),
                      [n |-> Regnext(c, x.n), i |-> x.i + Max(ks), d |-> x.d, e |-> x.e])
  <2>1. /\ Len(t) + 1 - x.i \in Nat
        /\ Voies(c, t, b, x) = Minimum(c[x.n]) .. Regrepeat(c[x.n + 1], t, x.i)
        /\ Regrepeat(c[x.n + 1], t, x.i) \in 0 .. Len(t) + 1 - x.i
        /\ Minimum(c[x.n]) \in Nat
    <3>1. x.i \in 1 .. Len(t) + 1 /\ Len(t) \in Nat
      BY <1>1, PartsPoint
    <3>. QED BY <1>1, <3>1, RegrepeatBorne DEF Voies, Minimum
  <2>2. ks \in SUBSET (0 .. Len(t) + 1 - x.i)
    BY <2>1
  <2>3. Max(ks) \in ks /\ \A m \in ks : m <= Max(ks)
    BY <1>4, <2>1, <2>2, MaxBorne
  <2>. DEFINE k == Max(ks)
  <2>. HIDE DEF k
  <2>4. k \in Voies(c, t, b, x) /\ k \in Int
    BY <2>2, <2>3 DEF k
  <2>5. \A m \in Voies(c, t, b, x) : m > k => Sens(c, t, b)[Voie(c, t, x, m)] = Rate
    <3>. SUFFICES ASSUME NEW m \in Voies(c, t, b, x), m > k PROVE Sens(c, t, b)[Voie(c, t, x, m)] = Rate
      OBVIOUS
    <3>1. m \notin ks
      <4>1. m \in Int
        BY <2>1
      <4>. QED BY <2>3, <2>4, <4>1 DEF k
    <3>. QED BY <3>1
  <2>6. EnMarche(c, t, b, s0, Append(q, [scan |-> x.n, save |-> x.i, no |-> k]), Voie(c, t, x, k))
    BY <1>2, <2>4, <2>5, Empile
  <2>7. Voie(c, t, x, k) = [n |-> Regnext(c, x.n), i |-> x.i + k, d |-> x.d, e |-> x.e]
    BY <1>2 DEF Voie, Pris, Boucles, Caracteres
  <2>. QED BY <2>6, <2>7 DEF k
<1>. QED BY <1>3, <1>4

\* A group notes its place, and a frame will take the mark back.
LEMMA Groupe ==
  ASSUME NEW c, NEW t, NEW b, NEW s0, Donnees(c, t, b, s0), NEW q, NEW x, EnMarche(c, t, b, s0, q, x),
         c[x.n].op \in {"OPEN", "CLOSE"}
  PROVE  EnMarche(c, t, b, s0, Append(q, [scan |-> x.n, save |-> x.i, no |-> 0]), Voie(c, t, x, 0))
<1>1. Voies(c, t, b, x) = {0}
  BY DEF Voies, Laisse, Boucles
<1>. QED BY <1>1, Empile

\* A choice goes on with the branch it is at; a frame keeps those that follow.
LEMMA Branche ==
  ASSUME NEW c, NEW t, NEW b, NEW s0, Donnees(c, t, b, s0), NEW q, NEW x, EnMarche(c, t, b, s0, q, x),
         c[x.n].op = "BRANCH"
  PROVE  LET y == [n |-> x.n + 1, i |-> x.i, d |-> x.d, e |-> x.e]
         IN  /\ EnMarche(c, t, b, s0, Append(q, [scan |-> x.n, save |-> x.i, no |-> 0]), y)
             /\ c[Regnext(c, x.n)].op # "BRANCH" => EnMarche(c, t, b, s0, q, y)
<1>. DEFINE y == [n |-> x.n + 1, i |-> x.i, d |-> x.d, e |-> x.e]
<1>1. Voies(c, t, b, x) = {k \in {-1, 0} : k = -1 => c[Regnext(c, x.n)].op = "BRANCH"}
  BY DEF Voies, Boucles
<1>2. t \in Seq(STRING) /\ BienForme(c) /\ SansBoucle(c) /\ x \in Points(c, t)
  BY DEF Donnees, EnMarche
<1>3. Voie(c, t, x, 0) = y
  <2>1. x.i \in Int /\ Pris(c, t, x, 0) = 0
    BY <1>2, PartsPoint DEF Pris, Boucles, Caracteres
  <2>. QED BY <2>1 DEF Voie
<1>4. 0 \in Voies(c, t, b, x) /\ ~ \E m \in Voies(c, t, b, x) : m > 0
  BY <1>1
<1>. HIDE DEF y
<1>5. EnMarche(c, t, b, s0, Append(q, [scan |-> x.n, save |-> x.i, no |-> 0]), y)
  BY <1>3, <1>4, Empile
<1>6. ASSUME c[Regnext(c, x.n)].op # "BRANCH" PROVE EnMarche(c, t, b, s0, q, y)
  <2>1. Voies(c, t, b, x) = {0}
    BY <1>1, <1>6
  <2>2. Sens(c, t, b)[x] = Sens(c, t, b)[Voie(c, t, x, 0)]
    BY <1>2, <2>1, SensPrefere
  <2>. QED BY <1>3, <2>1, <2>2, Avance
<1>. QED BY <1>5, <1>6 DEF y

\* A choice whose branch has failed goes on to the next one.
LEMMA Autre ==
  ASSUME NEW c, NEW t, NEW b, NEW s0, Donnees(c, t, b, s0), NEW q, NEW x, EnMarche(c, t, b, s0, q, x),
         c[x.n].op = "BRANCH", c[Regnext(c, x.n)].op = "BRANCH",
         0 \in Voies(c, t, b, x) => Sens(c, t, b)[Voie(c, t, x, 0)] = Rate
  PROVE  EnMarche(c, t, b, s0, q, [n |-> Regnext(c, x.n), i |-> x.i, d |-> x.d, e |-> x.e])
<1>1. Voies(c, t, b, x) = {-1, 0}
  BY DEF Voies, Boucles
<1>2. t \in Seq(STRING) /\ BienForme(c) /\ SansBoucle(c) /\ x \in Points(c, t)
  BY DEF Donnees, EnMarche
<1>3. Voie(c, t, x, -1) = [n |-> Regnext(c, x.n), i |-> x.i, d |-> x.d, e |-> x.e]
  <2>1. x.i \in Int /\ Pris(c, t, x, -1) = 0
    BY <1>2, PartsPoint DEF Pris, Boucles, Caracteres
  <2>. QED BY <2>1 DEF Voie
<1>4. Sens(c, t, b)[x] = Sens(c, t, b)[Voie(c, t, x, -1)]
  BY <1>1, <1>2, SensPrefere
<1>5. EnMarche(c, t, b, s0, q, Voie(c, t, x, -1))
  BY <1>1, <1>4, Avance
<1>. QED BY <1>3, <1>5

\* A match that reaches the END is the issue of the attempt.
LEMMA Termine ==
  ASSUME NEW c, NEW t, NEW b, NEW s0, Donnees(c, t, b, s0), NEW q, NEW x, EnMarche(c, t, b, s0, q, x),
         c[x.n].op = "END"
  PROVE  Sens(c, t, b)[Entree(s0)] = [f |-> x.i, d |-> x.d, e |-> x.e]
<1>1. t \in Seq(STRING) /\ BienForme(c) /\ SansBoucle(c) /\ x \in Points(c, t)
  BY DEF Donnees, EnMarche
<1>2. Sens(c, t, b)[x] = [f |-> x.i, d |-> x.d, e |-> x.e]
  BY <1>1, SensFin
<1>3. x.i # 0
  BY <1>1, PartsPoint
<1>4. [f |-> x.i, d |-> x.d, e |-> x.e] # Rate
  BY <1>3 DEF Rate
<1>. QED BY <1>2, <1>4, Remonte

-----------------------------------------------------------------------------
(* The state of regexec. *)

\* What regcomp owes to regexec: a program it gives without an error is
\* correct.
ProgrammesCorrects ==
  \A m \in DOMAIN Programmes : Programmes[m].err = "" => Correct(Programmes[m])

Code == prog.code
Courant == [n |-> scan, i |-> reginput, d |-> startp, e |-> endp]

\* The frames and the marks, which stay when the search is over.
Tenus ==
  /\ pile \in Seq(Cadres(Code, texte)) /\ Ordonnes(Code, pile)
  /\ startp = Notees(Code, pile, Len(pile), "OPEN")
  /\ endp = Notees(Code, pile, Len(pile), "CLOSE")

\* No match at the places from "bol" to the one before i.
RateAvant(i) == \A j \in bol .. i - 1 : Essai(j) = Rate

Reussi ==
  /\ Empilee(Code, texte, bol, s, pile, startp, endp)
  /\ Essai(s) = [f |-> reginput, d |-> startp, e |-> endp] /\ reginput \in s .. FinTexte

IInv ==
  /\ phase \in {"exec", "va", "echec", "trouve", "absent", "reste", "fini", "erreur", "plante"}
  /\ texte \in Seq(STRING) /\ bol \in 1 .. FinTexte
  /\ phase = "erreur" => pile = <<>> /\ startp = NULS /\ endp = NULS
  /\ phase # "erreur" => Correct(prog) /\ Tenus
  /\ EnCours => s \in bol .. FinTexte /\ RateAvant(s)
  /\ phase = "va" => EnMarche(Code, texte, bol, s, pile, Courant)
  /\ phase = "echec" => EnEchec(Code, texte, bol, s, pile, startp, endp)
  /\ phase = "trouve" => Reussi
  /\ phase = "absent" => RateAvant(FinTexte + 1)

\* It holds at first.
LEMMA InvInit ==
  ASSUME ProgrammesCorrects, Init
  PROVE  IInv
<1>1. texte \in Seq(STRING)
  BY TextesAssumption DEF Init
<1>2. Len(texte) \in Nat
  BY <1>1
<1>3. pile = <<>> /\ startp = NULS /\ endp = NULS /\ bol = 1
  BY DEF Init
<1>4. phase \in {"erreur", "reste", "exec"} /\ (phase # "erreur" => Correct(prog))
  BY DEF Init, ProgrammesCorrects
<1>5. Tenus
  <2>1. <<>> \in Seq(Cadres(Code, texte)) /\ Len(<<>>) = 0 /\ 1 .. 0 = {}
    OBVIOUS
  <2>2. Ordonnes(Code, <<>>)
    BY <2>1 DEF Ordonnes
  <2>. QED BY <1>3, <2>1, <2>2, NoteesRien DEF Tenus
<1>. QED BY <1>1, <1>2, <1>3, <1>4, <1>5 DEF IInv, EnCours, FinTexte

\* A step of regmatch, or the return of one of its calls.
LEMMA InvPas ==
  ASSUME IInv, EnCours, UNCHANGED <<donnees, prog, bol, s>>,
         \/ phase' = "va" /\ EnMarche(Code, texte, bol, s, pile', Courant')
         \/ phase' = "echec" /\ EnEchec(Code, texte, bol, s, pile', startp', endp')
         \/ phase' = "trouve" /\ Reussi'
  PROVE  IInv'
<1>1. texte' = texte /\ prog' = prog /\ bol' = bol /\ s' = s /\ Code' = Code /\ FinTexte' = FinTexte
  BY DEF donnees, Code, FinTexte
<1>2. phase # "erreur"
  BY DEF EnCours
<1>3. Correct(prog') /\ texte' \in Seq(STRING) /\ bol' \in 1 .. FinTexte'
  BY <1>1, <1>2 DEF IInv
<1>4. EnCours' /\ s' \in bol' .. FinTexte' /\ RateAvant(s)'
  <2>1. RateAvant(s)' = RateAvant(s)
    BY <1>1 DEF RateAvant, Essai
  <2>. QED BY <1>1, <2>1 DEF IInv, EnCours
<1>5. Empilee(Code, texte, bol, s, pile', startp', endp') => Tenus'
  BY <1>1 DEF Empilee, Tenus
<1>6. CASE phase' = "va" /\ EnMarche(Code, texte, bol, s, pile', Courant')
  <2>1. Empilee(Code, texte, bol, s, pile', startp', endp')
    BY <1>6 DEF EnMarche, Courant
  <2>2. EnMarche(Code, texte, bol, s, pile, Courant)'
    BY <1>1, <1>6
  <2>. QED BY <1>3, <1>4, <1>5, <1>6, <2>1, <2>2 DEF IInv
<1>7. CASE phase' = "echec" /\ EnEchec(Code, texte, bol, s, pile', startp', endp')
  <2>1. Empilee(Code, texte, bol, s, pile', startp', endp')
    BY <1>7 DEF EnEchec
  <2>2. EnEchec(Code, texte, bol, s, pile, startp, endp)'
    BY <1>1, <1>7
  <2>. QED BY <1>3, <1>4, <1>5, <1>7, <2>1, <2>2 DEF IInv
<1>8. CASE phase' = "trouve" /\ Reussi'
  <2>1. Empilee(Code, texte, bol, s, pile', startp', endp')
    BY <1>1, <1>8 DEF Reussi
  <2>. QED BY <1>3, <1>4, <1>5, <1>8, <2>1 DEF IInv
<1>. QED BY <1>6, <1>7, <1>8

\* What a program under way gives to the lemmas above.
LEMMA Prepare ==
  ASSUME IInv, EnCours
  PROVE  /\ Donnees(Code, texte, bol, s) /\ BienForme(Code) /\ SansBoucle(Code)
         /\ texte \in Seq(STRING) /\ Len(texte) \in Nat /\ bol \in Nat /\ bol >= 1 /\ s \in Nat
<1>1. Correct(prog)
  BY DEF IInv, EnCours
<1>2. texte \in Seq(STRING) /\ bol \in 1 .. FinTexte /\ s \in bol .. FinTexte
  BY DEF IInv
<1>3. Len(texte) \in Nat
  BY <1>2
<1>. QED BY <1>1, <1>2, <1>3 DEF Donnees, Correct, Code, FinTexte

-----------------------------------------------------------------------------
(* regmatch. *)

\* The hypotheses of a step of regmatch.
EnRoute == IInv /\ phase = "va" /\ UNCHANGED <<donnees, prog, bol, s>>

\* What they give.
LEMMA Route ==
  ASSUME EnRoute
  PROVE  /\ EnCours /\ IInv /\ UNCHANGED <<donnees, prog, bol, s>>
         /\ Donnees(Code, texte, bol, s) /\ EnMarche(Code, texte, bol, s, pile, Courant)
         /\ Courant.n = scan /\ Courant.i = reginput /\ Courant.d = startp /\ Courant.e = endp
         /\ Courant \in Points(Code, texte) /\ reginput >= s
         /\ scan \in Noeuds(Code) /\ reginput \in 1 .. FinTexte /\ reginput \in Int
         /\ startp \in Marques(texte) /\ endp \in Marques(texte)
         /\ Noeud = Code[scan] /\ \A p : Next1(p) = Regnext(Code, p)
<1>1. EnCours /\ IInv /\ UNCHANGED <<donnees, prog, bol, s>>
  BY DEF EnRoute, EnCours
<1>2. Donnees(Code, texte, bol, s) /\ texte \in Seq(STRING) /\ Len(texte) \in Nat
  BY <1>1, Prepare
<1>3. EnMarche(Code, texte, bol, s, pile, Courant)
  BY DEF EnRoute, IInv
<1>4. Courant.n = scan /\ Courant.i = reginput /\ Courant.d = startp /\ Courant.e = endp
  BY DEF Courant
<1>5. Courant \in Points(Code, texte) /\ Courant.i >= s
  BY <1>3 DEF EnMarche
<1>6. Noeud = Code[scan] /\ \A p : Next1(p) = Regnext(Code, p)
  BY DEF Noeud, Next1, Code
<1>. HIDE DEF Courant
<1>7. /\ scan \in Noeuds(Code) /\ reginput \in 1 .. FinTexte
      /\ startp \in Marques(texte) /\ endp \in Marques(texte)
  BY <1>2, <1>4, <1>5, PartsPoint DEF FinTexte
<1>8. reginput \in Int
  BY <1>2, <1>7 DEF FinTexte
<1>. QED BY <1>1, <1>2, <1>3, <1>4, <1>5, <1>6, <1>7, <1>8

\* The nodes that leave the frames and the marks.
LEMMA PasSimple ==
  ASSUME EnRoute, Noeud.op \notin Boucles \cup {"BRANCH", "END", "OPEN", "CLOSE"},
         UNCHANGED <<startp, endp, pile>>,
         \/ /\ Laisse(Code, texte, bol, Courant) /\ phase' = "va"
            /\ scan' = Next1(scan) /\ reginput' = reginput + Pris(Code, texte, Courant, 0)
         \/ ~ Laisse(Code, texte, bol, Courant) /\ phase' = "echec"
  PROVE  IInv'
<1>1. /\ EnCours /\ IInv /\ UNCHANGED <<donnees, prog, bol, s>>
      /\ Donnees(Code, texte, bol, s) /\ EnMarche(Code, texte, bol, s, pile, Courant)
      /\ Courant.n = scan /\ Courant.i = reginput /\ Courant.d = startp /\ Courant.e = endp
      /\ Noeud = Code[scan] /\ \A p : Next1(p) = Regnext(Code, p)
  BY Route
<1>2. Code[Courant.n].op \notin Boucles \cup {"BRANCH", "END", "OPEN", "CLOSE"}
  BY <1>1
<1>3. CASE /\ Laisse(Code, texte, bol, Courant) /\ phase' = "va"
           /\ scan' = Next1(scan) /\ reginput' = reginput + Pris(Code, texte, Courant, 0)
  <2>1. EnMarche(Code, texte, bol, s, pile, Voie(Code, texte, Courant, 0))
    BY <1>1, <1>2, <1>3, PasseOuEchoue
  <2>2. Voie(Code, texte, Courant, 0) = [n |-> scan', i |-> reginput', d |-> startp, e |-> endp]
    BY <1>1, <1>2, <1>3 DEF Voie
  <2>3. EnMarche(Code, texte, bol, s, pile', Courant')
    BY <2>1, <2>2 DEF Courant
  <2>. QED BY <1>1, <1>3, <2>3, InvPas
<1>4. CASE ~ Laisse(Code, texte, bol, Courant) /\ phase' = "echec"
  <2>1. EnEchec(Code, texte, bol, s, pile, startp, endp)
    BY <1>1, <1>2, <1>4, PasseOuEchoue
  <2>2. EnEchec(Code, texte, bol, s, pile', startp', endp')
    BY <2>1
  <2>. QED BY <1>1, <1>4, <2>2, InvPas
<1>. QED BY <1>3, <1>4

\* One lemma per kind of node: a character or a literal.
LEMMA InvCaractere == EnRoute /\ Caractere => IInv'
<1>. SUFFICES ASSUME EnRoute, Caractere PROVE IInv'
  OBVIOUS
<1>1. /\ Courant.n = scan /\ Courant.i = reginput /\ Noeud = Code[scan]
  BY Route
<1>2. Noeud.op \in Caracteres /\ Noeud.op \notin Boucles \cup {"BRANCH", "END", "OPEN", "CLOSE"}
  BY DEF Caractere, Caracteres, Boucles
<1>3. Laisse(Code, texte, bol, Courant) <=> Convient(Noeud, texte, reginput)
  BY <1>1, <1>2 DEF Laisse, Caracteres
<1>4. Pris(Code, texte, Courant, 0) = Largeur(Noeud)
  BY <1>1, <1>2 DEF Pris, Caracteres, Boucles
<1>5. UNCHANGED <<startp, endp, pile>>
  BY DEF Caractere, Echoue
<1>6. \/ /\ Convient(Noeud, texte, reginput) /\ phase' = "va"
         /\ scan' = Next1(scan) /\ reginput' = reginput + Largeur(Noeud)
      \/ ~ Convient(Noeud, texte, reginput) /\ phase' = "echec"
  BY DEF Caractere, Echoue, Avancer
<1>. QED BY <1>2, <1>3, <1>4, <1>5, <1>6, PasSimple

\* An anchor.
LEMMA InvAncre == EnRoute /\ Ancre => IInv'
<1>. SUFFICES ASSUME EnRoute, Ancre PROVE IInv'
  OBVIOUS
<1>1. /\ Courant.n = scan /\ Courant.i = reginput /\ Noeud = Code[scan] /\ reginput \in Int
  BY Route
<1>2. Noeud.op \in {"BOL", "EOL"} /\ Noeud.op \notin Boucles \cup {"BRANCH", "END", "OPEN", "CLOSE"}
  BY DEF Ancre, Boucles
<1>3. Laisse(Code, texte, bol, Courant) <=> reginput = (IF Noeud.op = "BOL" THEN bol ELSE FinTexte)
  BY <1>1, <1>2 DEF Laisse, Caracteres, FinTexte
<1>4. Pris(Code, texte, Courant, 0) = 0
  BY <1>1, <1>2 DEF Pris, Caracteres, Boucles
<1>5. UNCHANGED <<startp, endp, pile>>
  BY DEF Ancre, Echoue
<1>6. \/ /\ Laisse(Code, texte, bol, Courant) /\ phase' = "va"
         /\ scan' = Next1(scan) /\ reginput' = reginput
      \/ ~ Laisse(Code, texte, bol, Courant) /\ phase' = "echec"
  BY <1>3 DEF Ancre, Echoue, Avancer
<1>7. reginput = reginput + Pris(Code, texte, Courant, 0)
  BY <1>1, <1>4
<1>. QED BY <1>2, <1>5, <1>6, <1>7, PasSimple

\* A node that asks nothing.
LEMMA InvVide == EnRoute /\ Vide => IInv'
<1>. SUFFICES ASSUME EnRoute, Vide PROVE IInv'
  OBVIOUS
<1>1. /\ Courant.n = scan /\ Courant.i = reginput /\ Noeud = Code[scan] /\ reginput \in Int
  BY Route
<1>2. Noeud.op \in {"NOTHING", "BACK"} /\ Noeud.op \notin Boucles \cup {"BRANCH", "END", "OPEN", "CLOSE"}
  BY DEF Vide, Boucles
<1>3. Laisse(Code, texte, bol, Courant)
  BY <1>1, <1>2 DEF Laisse
<1>4. Pris(Code, texte, Courant, 0) = 0
  BY <1>1, <1>2 DEF Pris, Caracteres, Boucles
<1>5. /\ UNCHANGED <<startp, endp, pile>> /\ phase' = "va"
      /\ scan' = Next1(scan) /\ reginput' = reginput
  BY DEF Vide, Avancer
<1>6. reginput = reginput + Pris(Code, texte, Courant, 0)
  BY <1>1, <1>4
<1>. QED BY <1>2, <1>3, <1>5, <1>6, PasSimple

\* A recalled group.
LEMMA InvRappeler == EnRoute /\ Rappeler => IInv'
<1>. SUFFICES ASSUME EnRoute, Rappeler PROVE IInv'
  OBVIOUS
<1>1. /\ Courant.n = scan /\ Courant.i = reginput /\ Courant.d = startp /\ Courant.e = endp
      /\ Noeud = Code[scan]
  BY Route
<1>. DEFINE n == Noeud.arg
            vu == Morceau(texte, startp[n], endp[n])
<1>2. Noeud.op = "RAPPEL" /\ Noeud.op \notin Boucles \cup {"BRANCH", "END", "OPEN", "CLOSE"}
  BY DEF Rappeler, Boucles
<1>3. Laisse(Code, texte, bol, Courant) <=> startp[n] # 0 /\ endp[n] # 0 /\ Suit(vu, texte, reginput)
  BY <1>1, <1>2 DEF Laisse, Caracteres
<1>4. Pris(Code, texte, Courant, 0) = Len(vu)
  BY <1>1, <1>2 DEF Pris, Caracteres, Boucles
<1>5. UNCHANGED <<startp, endp, pile>>
  BY DEF Rappeler, Echoue
<1>6. \/ /\ Laisse(Code, texte, bol, Courant) /\ phase' = "va"
         /\ scan' = Next1(scan) /\ reginput' = reginput + Len(vu)
      \/ ~ Laisse(Code, texte, bol, Courant) /\ phase' = "echec"
  BY <1>3 DEF Rappeler, Echoue, Avancer
<1>. QED BY <1>2, <1>4, <1>5, <1>6, PasSimple

\* The beginning or the end of a group.
LEMMA InvGroupe == EnRoute /\ (Ouvrir \/ Fermer) => IInv'
<1>. SUFFICES ASSUME EnRoute, Ouvrir \/ Fermer PROVE IInv'
  OBVIOUS
<1>1. /\ EnCours /\ IInv /\ UNCHANGED <<donnees, prog, bol, s>>
      /\ Donnees(Code, texte, bol, s) /\ EnMarche(Code, texte, bol, s, pile, Courant)
      /\ Courant.n = scan /\ Courant.i = reginput /\ Courant.d = startp /\ Courant.e = endp
      /\ reginput \in Int
      /\ Noeud = Code[scan] /\ \A p : Next1(p) = Regnext(Code, p)
  BY Route
<1>2. Code[scan].op \in {"OPEN", "CLOSE"}
  BY <1>1 DEF Ouvrir, Fermer
<1>3. /\ phase' = "va" /\ scan' = Regnext(Code, scan) /\ reginput' = reginput
      /\ pile' = Append(pile, [scan |-> scan, save |-> reginput, no |-> 0])
      /\ startp' = IF Code[scan].op = "OPEN" THEN Noter(startp, Code[scan].arg, reginput) ELSE startp
      /\ endp' = IF Code[scan].op = "CLOSE" THEN Noter(endp, Code[scan].arg, reginput) ELSE endp
  BY <1>1 DEF Ouvrir, Fermer, Avancer, Empiler
<1>4. EnMarche(Code, texte, bol, s, pile', Voie(Code, texte, Courant, 0))
  <2>1. EnMarche(Code, texte, bol, s, Append(pile, [scan |-> Courant.n, save |-> Courant.i, no |-> 0]),
                 Voie(Code, texte, Courant, 0))
    BY <1>1, <1>2, Groupe
  <2>. QED BY <1>1, <1>3, <2>1
<1>5. Voie(Code, texte, Courant, 0) = [n |-> scan', i |-> reginput', d |-> startp', e |-> endp']
  <2>1. Pris(Code, texte, Courant, 0) = 0
    BY <1>1, <1>2 DEF Pris, Caracteres, Boucles
  <2>2. Voie(Code, texte, Courant, 0) =
          [n |-> Regnext(Code, scan), i |-> reginput + 0,
           d |-> IF Code[scan].op = "OPEN" THEN Noter(startp, Code[scan].arg, reginput) ELSE startp,
           e |-> IF Code[scan].op = "CLOSE" THEN Noter(endp, Code[scan].arg, reginput) ELSE endp]
    BY <1>1, <1>2, <2>1 DEF Voie
  <2>. QED BY <1>1, <1>3, <2>2
<1>6. EnMarche(Code, texte, bol, s, pile', Courant')
  BY <1>4, <1>5 DEF Courant
<1>. QED BY <1>1, <1>3, <1>6, InvPas

\* A choice.
LEMMA InvChoisir == EnRoute /\ Choisir => IInv'
<1>. SUFFICES ASSUME EnRoute, Choisir PROVE IInv'
  OBVIOUS
<1>1. /\ EnCours /\ IInv /\ UNCHANGED <<donnees, prog, bol, s>>
      /\ Donnees(Code, texte, bol, s) /\ EnMarche(Code, texte, bol, s, pile, Courant)
      /\ Courant.n = scan /\ Courant.i = reginput /\ Courant.d = startp /\ Courant.e = endp
      /\ Noeud = Code[scan] /\ \A p : Next1(p) = Regnext(Code, p)
  BY Route
<1>. DEFINE y == [n |-> scan + 1, i |-> reginput, d |-> startp, e |-> endp]
<1>2. Code[scan].op = "BRANCH"
  BY <1>1 DEF Choisir
<1>3. /\ phase' = "va" /\ Courant' = y
      /\ IF Code[Regnext(Code, scan)].op = "BRANCH"
         THEN pile' = Append(pile, [scan |-> scan, save |-> reginput, no |-> 0]) ELSE pile' = pile
  BY <1>1 DEF Choisir, Empiler, Courant, Code
<1>4. /\ EnMarche(Code, texte, bol, s, Append(pile, [scan |-> scan, save |-> reginput, no |-> 0]), y)
      /\ Code[Regnext(Code, scan)].op # "BRANCH" => EnMarche(Code, texte, bol, s, pile, y)
  <2>1. Code[Courant.n].op = "BRANCH"
    BY <1>1, <1>2
  <2>2. /\ EnMarche(Code, texte, bol, s, Append(pile, [scan |-> Courant.n, save |-> Courant.i, no |-> 0]),
                    [n |-> Courant.n + 1, i |-> Courant.i, d |-> Courant.d, e |-> Courant.e])
        /\ Code[Regnext(Code, Courant.n)].op # "BRANCH" =>
              EnMarche(Code, texte, bol, s, pile,
                       [n |-> Courant.n + 1, i |-> Courant.i, d |-> Courant.d, e |-> Courant.e])
    BY <1>1, <2>1, Branche
  <2>. QED BY <1>1, <2>2
<1>5. EnMarche(Code, texte, bol, s, pile', Courant')
  BY <1>3, <1>4
<1>. QED BY <1>1, <1>3, <1>5, InvPas

\* The END.
LEMMA InvReussir == EnRoute /\ Reussir => IInv'
<1>. SUFFICES ASSUME EnRoute, Reussir PROVE IInv'
  OBVIOUS
<1>1. /\ EnCours /\ IInv /\ UNCHANGED <<donnees, prog, bol, s>>
      /\ Donnees(Code, texte, bol, s) /\ EnMarche(Code, texte, bol, s, pile, Courant)
      /\ Courant.n = scan /\ Courant.i = reginput /\ Courant.d = startp /\ Courant.e = endp
      /\ Noeud = Code[scan] /\ reginput >= s /\ reginput \in 1 .. FinTexte
  BY Route
<1>2. Code[Courant.n].op = "END"
  BY <1>1 DEF Reussir
<1>3. Sens(Code, texte, bol)[Entree(s)] = [f |-> reginput, d |-> startp, e |-> endp]
  BY <1>1, <1>2, Termine
<1>4. Empilee(Code, texte, bol, s, pile, startp, endp)
  BY <1>1 DEF EnMarche
<1>5. reginput \in s .. FinTexte
  <2>1. s \in Nat /\ Len(texte) \in Nat
    BY <1>1, Prepare
  <2>. QED BY <1>1, <2>1 DEF FinTexte
<1>6. Reussi
  BY <1>3, <1>4, <1>5 DEF Reussi, Essai, Code
<1>7. Reussi'
  BY <1>1, <1>6 DEF Reussir, Reussi, Essai, Code, FinTexte, donnees
<1>. QED BY <1>1, <1>7, InvPas DEF Reussir

\* The numbers of repetitions that are not worth a try fail.
LEMMA PasPossible ==
  ASSUME BienForme(Code), SansBoucle(Code), texte \in Seq(STRING), NEW x \in Points(Code, texte),
         Code[x.n].op \in Boucles, NEW m \in Voies(Code, texte, bol, x), ~ Tentable(Next1(x.n), x.i + m)
  PROVE  Sens(Code, texte, bol)[Voie(Code, texte, x, m)] = Rate
<1>1. Next1(x.n) = Regnext(Code, x.n)
  BY DEF Next1, Code
<1>2. /\ Code[Regnext(Code, x.n)].op = "EXACTLY"
      /\ ~ (x.i + m <= Len(texte) /\ texte[x.i + m] = Code[Regnext(Code, x.n)].arg[1])
  BY <1>1 DEF Tentable, Code
<1>. HIDE DEF Code
<1>. QED BY <1>2, Regarde

\* A repetition.
LEMMA InvRepeter == EnRoute /\ Repeter => IInv'
<1>. SUFFICES ASSUME EnRoute, Repeter PROVE IInv'
  OBVIOUS
<1>1. /\ EnCours /\ IInv /\ UNCHANGED <<donnees, prog, bol, s>>
      /\ Donnees(Code, texte, bol, s) /\ EnMarche(Code, texte, bol, s, pile, Courant)
      /\ Courant.n = scan /\ Courant.i = reginput /\ Courant.d = startp /\ Courant.e = endp
      /\ Courant \in Points(Code, texte)
      /\ Noeud = Code[scan] /\ \A p : Next1(p) = Regnext(Code, p)
  BY Route
<1>2. BienForme(Code) /\ SansBoucle(Code) /\ texte \in Seq(STRING)
  BY <1>1, Prepare
<1>. DEFINE V == Voies(Code, texte, bol, Courant)
            ks == Possibles(scan, reginput, Regrepeat(prog.code[scan + 1], texte, reginput))
<1>3. Code[scan].op \in Boucles
  BY <1>1 DEF Repeter
<1>4. ks = {k \in V : Tentable(Next1(scan), reginput + k)}
  BY <1>1, <1>3 DEF Possibles, Voies, Code
<1>5. ks \in SUBSET V
  BY <1>4
<1>6. \A m \in V \ ks : Sens(Code, texte, bol)[Voie(Code, texte, Courant, m)] = Rate
  <2>. SUFFICES ASSUME NEW m \in V, m \notin ks
                PROVE  Sens(Code, texte, bol)[Voie(Code, texte, Courant, m)] = Rate
    OBVIOUS
  <2>1. ~ Tentable(Next1(Courant.n), Courant.i + m)
    BY <1>1, <1>4
  <2>. QED BY <1>1, <1>2, <1>3, <2>1, PasPossible
<1>. HIDE DEF ks
<1>7. /\ ks = {} => EnEchec(Code, texte, bol, s, pile, startp, endp)
      /\ ks # {} => EnMarche(Code, texte, bol, s, Append(pile, [scan |-> scan, save |-> reginput, no |-> Max(ks)]),
                             [n |-> Regnext(Code, scan), i |-> reginput + Max(ks), d |-> startp, e |-> endp])
  <2>1. Code[Courant.n].op \in Boucles
    BY <1>1, <1>3
  <2>2. /\ ks = {} => EnEchec(Code, texte, bol, s, pile, Courant.d, Courant.e)
        /\ ks # {} => EnMarche(Code, texte, bol, s,
                               Append(pile, [scan |-> Courant.n, save |-> Courant.i, no |-> Max(ks)]),
                               [n |-> Regnext(Code, Courant.n), i |-> Courant.i + Max(ks),
                                d |-> Courant.d, e |-> Courant.e])
    BY <1>1, <1>5, <1>6, <2>1, Repete
  <2>. QED BY <1>1, <2>2
<1>8. IF ks = {} THEN phase' = "echec" /\ UNCHANGED <<scan, reginput, startp, endp, pile>>
      ELSE /\ phase' = "va" /\ scan' = Next1(scan) /\ reginput' = reginput + Max(ks)
           /\ pile' = Append(pile, [scan |-> scan, save |-> reginput, no |-> Max(ks)])
           /\ UNCHANGED <<startp, endp>>
  BY DEF Repeter, ks, Echoue, Avancer, Empiler
<1>9. CASE ks = {}
  <2>1. phase' = "echec" /\ EnEchec(Code, texte, bol, s, pile', startp', endp')
    BY <1>7, <1>8, <1>9
  <2>. QED BY <1>1, <2>1, InvPas
<1>10. CASE ks # {}
  <2>1. phase' = "va"
    BY <1>8, <1>10
  <2>2. Courant' = [n |-> Regnext(Code, scan), i |-> reginput + Max(ks), d |-> startp, e |-> endp]
    BY <1>1, <1>8, <1>10 DEF Courant
  <2>3. EnMarche(Code, texte, bol, s, pile', Courant')
    BY <1>7, <1>8, <1>10, <2>2
  <2>. QED BY <1>1, <2>1, <2>3, InvPas
<1>. QED BY <1>9, <1>10

\* A step of regmatch, whatever its node.
LEMMA InvRegmatch == IInv /\ Regmatch => IInv'
<1>. SUFFICES ASSUME IInv, Regmatch PROVE IInv'
  OBVIOUS
<1>1. EnRoute
  BY DEF Regmatch, EnRoute, donnees
<1>. QED BY <1>1, InvCaractere, InvAncre, InvVide, InvRappeler, InvGroupe, InvChoisir, InvReussir,
            InvRepeter DEF Regmatch

-----------------------------------------------------------------------------
(* The return of a failed call. *)

\* The hypotheses of a return, to a frame whose node has the operator op.
AuRetour(op) ==
  /\ IInv /\ phase = "echec" /\ pile # <<>> /\ UNCHANGED <<donnees, prog, bol, s>>
  /\ Code[Last(pile).scan].op = op

\* The point of the call that is returned to.
Appelant == Point(Code, pile, Len(pile))

\* What they give: the match is back at that point, and the ways preferred to
\* the one that has just failed, and that one, are no use.
LEMMA Retrouve ==
  ASSUME NEW op, AuRetour(op)
  PROVE  /\ EnCours /\ IInv /\ UNCHANGED <<donnees, prog, bol, s>> /\ Donnees(Code, texte, bol, s)
         /\ BienForme(Code) /\ SansBoucle(Code) /\ texte \in Seq(STRING)
         /\ EnMarche(Code, texte, bol, s, Front(pile), Appelant) /\ Appelant \in Points(Code, texte)
         /\ Last(pile) = [scan |-> Appelant.n, save |-> Appelant.i, no |-> Last(pile).no]
         /\ Last(pile).scan = Appelant.n /\ Last(pile).save = Appelant.i /\ Code[Appelant.n].op = op
         /\ Last(pile).no \in Voies(Code, texte, bol, Appelant)
         /\ op = "BRANCH" => Last(pile).no = 0
         /\ \A m \in Voies(Code, texte, bol, Appelant) :
              m >= Last(pile).no => Sens(Code, texte, bol)[Voie(Code, texte, Appelant, m)] = Rate
         /\ Appelant.d = IF op = "OPEN" THEN Efface(startp, Code[Appelant.n].arg, Appelant.i) ELSE startp
         /\ Appelant.e = IF op = "CLOSE" THEN Efface(endp, Code[Appelant.n].arg, Appelant.i) ELSE endp
<1>. DEFINE f == Last(pile)
            x == Appelant
<1>1. EnCours /\ IInv /\ UNCHANGED <<donnees, prog, bol, s>> /\ pile # <<>> /\ Code[f.scan].op = op
  BY DEF AuRetour, EnCours
<1>2. Donnees(Code, texte, bol, s) /\ BienForme(Code) /\ SansBoucle(Code) /\ texte \in Seq(STRING)
  BY <1>1, Prepare
<1>3. EnEchec(Code, texte, bol, s, pile, startp, endp)
  BY DEF AuRetour, IInv
<1>4. pile \in Seq(Cadres(Code, texte))
  BY <1>3 DEF EnEchec, Empilee
<1>5. f = pile[Len(pile)]
  BY DEF Last
<1>6. /\ Len(pile) \in 1 .. Len(pile)
      /\ EnMarche(Code, texte, bol, s, Front(pile), x)
      /\ f.no \in Voies(Code, texte, bol, x)
      /\ \A m \in Voies(Code, texte, bol, x) :
           m >= f.no => Sens(Code, texte, bol)[Voie(Code, texte, x, m)] = Rate
  BY <1>1, <1>2, <1>3, <1>5, Sommet DEF Appelant
<1>7. /\ f = [scan |-> f.scan, save |-> f.save, no |-> f.no]
      /\ Code[f.scan].op = "BRANCH" => f.no = 0
  BY <1>2, <1>4, <1>5, <1>6, PartsCadre
<1>8. f.scan = x.n /\ f.save = x.i
  BY <1>5 DEF Appelant, Point
<1>9. /\ x.d = IF Code[f.scan].op = "OPEN" THEN Efface(startp, Code[f.scan].arg, f.save) ELSE startp
      /\ x.e = IF Code[f.scan].op = "CLOSE" THEN Efface(endp, Code[f.scan].arg, f.save) ELSE endp
  BY <1>1, <1>2, <1>3, <1>5, Reprend DEF Appelant
<1>10. x \in Points(Code, texte)
  BY <1>6 DEF EnMarche
<1>. HIDE DEF f, x
<1>. QED BY <1>1, <1>2, <1>6, <1>7, <1>8, <1>9, <1>10 DEF f, x

\* A group: its mark is taken back, and the call fails.
LEMMA InvRetourGroupe ==
  ASSUME NEW op \in {"OPEN", "CLOSE"}, AuRetour(op), RetourGroupe(Last(pile), prog.code[Last(pile).scan])
  PROVE  IInv'
<1>. DEFINE x == Appelant
            f == Last(pile)
<1>1. /\ EnCours /\ IInv /\ UNCHANGED <<donnees, prog, bol, s>> /\ Donnees(Code, texte, bol, s)
      /\ EnMarche(Code, texte, bol, s, Front(pile), x)
      /\ f.scan = x.n /\ f.save = x.i /\ Code[x.n].op = op
      /\ f.no \in Voies(Code, texte, bol, x)
      /\ \A m \in Voies(Code, texte, bol, x) :
           m >= f.no => Sens(Code, texte, bol)[Voie(Code, texte, x, m)] = Rate
      /\ x.d = IF op = "OPEN" THEN Efface(startp, Code[x.n].arg, x.i) ELSE startp
      /\ x.e = IF op = "CLOSE" THEN Efface(endp, Code[x.n].arg, x.i) ELSE endp
  BY Retrouve
<1>. HIDE DEF x, f
<1>2. Voies(Code, texte, bol, x) = {0}
  BY <1>1 DEF Voies, Laisse, Boucles
<1>3. EnEchec(Code, texte, bol, s, Front(pile), x.d, x.e)
  BY <1>1, <1>2, Manque
<1>4. /\ phase' = phase /\ pile' = Front(pile)
      /\ startp' = x.d /\ endp' = x.e
  BY <1>1 DEF RetourGroupe, Depiler, Code, f
<1>5. phase' = "echec" /\ EnEchec(Code, texte, bol, s, pile', startp', endp')
  BY <1>3, <1>4 DEF AuRetour
<1>. QED BY <1>1, <1>5, InvPas

\* A choice: the next branch, or the call fails.
LEMMA InvRetourChoix ==
  ASSUME AuRetour("BRANCH"), RetourChoix(Last(pile), prog.code[Last(pile).scan])
  PROVE  IInv'
<1>. DEFINE x == Appelant
            f == Last(pile)
            autre == Regnext(Code, x.n)
            y == [n |-> autre, i |-> x.i, d |-> x.d, e |-> x.e]
<1>1. /\ EnCours /\ IInv /\ UNCHANGED <<donnees, prog, bol, s>> /\ Donnees(Code, texte, bol, s)
      /\ BienForme(Code) /\ SansBoucle(Code) /\ texte \in Seq(STRING)
      /\ EnMarche(Code, texte, bol, s, Front(pile), x) /\ x \in Points(Code, texte)
      /\ f = [scan |-> x.n, save |-> x.i, no |-> f.no]
      /\ f.scan = x.n /\ f.save = x.i /\ Code[x.n].op = "BRANCH" /\ f.no = 0
      /\ \A m \in Voies(Code, texte, bol, x) :
           m >= 0 => Sens(Code, texte, bol)[Voie(Code, texte, x, m)] = Rate
      /\ x.d = startp /\ x.e = endp
  BY Retrouve
<1>. HIDE DEF x, f
<1>2. Voies(Code, texte, bol, x) = {k \in {-1, 0} : k = -1 => Code[autre].op = "BRANCH"}
  BY <1>1 DEF Voies, Boucles
<1>3. autre # 0
  <2>1. x.n \in Noeuds(Code)
    BY <1>1, PartsPoint
  <2>2. autre \in Noeuds(Code)
    BY <1>1, <2>1, BonNoeud
  <2>. HIDE DEF autre
  <2>3. autre \in 1 .. Len(Code)
    BY <1>1, <2>2, BonNoeud
  <2>. QED BY <2>3
<1>4. /\ reginput' = x.i /\ startp' = x.d /\ endp' = x.e
      /\ IF Code[autre].op = "BRANCH"
         THEN /\ phase' = "va" /\ scan' = autre + 1
              /\ pile' = Append(Front(pile), [f EXCEPT !.scan = autre])
         ELSE pile' = Front(pile) /\ phase' = phase
  BY <1>1, <1>3 DEF RetourChoix, Depiler, Next1, Code, f
<1>5. CASE Code[autre].op = "BRANCH"
  <2>1. EnMarche(Code, texte, bol, s, Front(pile), y)
    <3>1. 0 \in Voies(Code, texte, bol, x) => Sens(Code, texte, bol)[Voie(Code, texte, x, 0)] = Rate
      BY <1>1
    <3>. QED BY <1>1, <1>5, <3>1, Autre
  <2>2. y.n = autre /\ y.i = x.i /\ y.d = x.d /\ y.e = x.e
    OBVIOUS
  <2>. HIDE DEF y, autre
  <2>3. EnMarche(Code, texte, bol, s, Append(Front(pile), [scan |-> y.n, save |-> y.i, no |-> 0]),
                 [n |-> y.n + 1, i |-> y.i, d |-> y.d, e |-> y.e])
    BY <1>1, <1>5, <2>1, <2>2, Branche
  <2>4. [f EXCEPT !.scan = autre] = [scan |-> autre, save |-> x.i, no |-> 0]
    BY <1>1
  <2>5. Courant' = [n |-> autre + 1, i |-> x.i, d |-> x.d, e |-> x.e]
    BY <1>4, <1>5 DEF Courant
  <2>6. phase' = "va" /\ EnMarche(Code, texte, bol, s, pile', Courant')
    BY ZenonT(40), <1>4, <1>5, <2>2, <2>3, <2>4, <2>5
  <2>. QED BY <1>1, <2>6, InvPas
<1>6. CASE Code[autre].op # "BRANCH"
  <2>1. Voies(Code, texte, bol, x) = {0}
    BY <1>2, <1>6
  <2>2. EnEchec(Code, texte, bol, s, Front(pile), x.d, x.e)
    BY <1>1, <2>1, Manque
  <2>3. phase' = "echec" /\ EnEchec(Code, texte, bol, s, pile', startp', endp')
    BY <1>4, <1>6, <2>2 DEF AuRetour
  <2>. QED BY <1>1, <2>3, InvPas
<1>. QED BY <1>5, <1>6

\* A repetition: fewer of them, or the call fails.
LEMMA InvRetourRepetition ==
  ASSUME NEW op \in Boucles, AuRetour(op), RetourRepetition(Last(pile), prog.code[Last(pile).scan])
  PROVE  IInv'
<1>. DEFINE x == Appelant
            f == Last(pile)
            V == Voies(Code, texte, bol, x)
            ks == Possibles(f.scan, f.save, f.no - 1)
<1>1. /\ EnCours /\ IInv /\ UNCHANGED <<donnees, prog, bol, s>> /\ Donnees(Code, texte, bol, s)
      /\ BienForme(Code) /\ SansBoucle(Code) /\ texte \in Seq(STRING)
      /\ EnMarche(Code, texte, bol, s, Front(pile), x) /\ x \in Points(Code, texte)
      /\ f = [scan |-> x.n, save |-> x.i, no |-> f.no]
      /\ f.scan = x.n /\ f.save = x.i /\ Code[x.n].op = op
      /\ f.no \in V
      /\ \A m \in V : m >= f.no => Sens(Code, texte, bol)[Voie(Code, texte, x, m)] = Rate
      /\ x.d = IF op = "OPEN" THEN Efface(startp, Code[x.n].arg, x.i) ELSE startp
      /\ x.e = IF op = "CLOSE" THEN Efface(endp, Code[x.n].arg, x.i) ELSE endp
  BY Retrouve
<1>2. op \notin {"OPEN", "CLOSE", "BRANCH"}
  BY DEF Boucles
<1>. HIDE DEF x, f, ks
<1>3. /\ V = Minimum(Code[x.n]) .. Regrepeat(Code[x.n + 1], texte, x.i)
      /\ Minimum(Code[x.n]) \in Int /\ Regrepeat(Code[x.n + 1], texte, x.i) \in Int
  <2>1. x.i \in 1 .. Len(texte) + 1 /\ Len(texte) \in Nat
    BY <1>1, PartsPoint
  <2>. QED BY <1>1, <2>1, RegrepeatBorne DEF Voies, Minimum
<1>4. ks = {k \in V : k < f.no /\ Tentable(Next1(x.n), x.i + k)}
  <2>1. ks = {k \in Minimum(Code[x.n]) .. f.no - 1 : Tentable(Next1(x.n), x.i + k)}
    BY <1>1 DEF ks, Possibles, Code
  <2>2. \A k : k \in Minimum(Code[x.n]) .. f.no - 1 <=> k \in V /\ k < f.no
    <3>1. f.no \in Int /\ f.no <= Regrepeat(Code[x.n + 1], texte, x.i)
      BY <1>1, <1>3
    <3>. DEFINE lo == Minimum(Code[x.n])
                hi == Regrepeat(Code[x.n + 1], texte, x.i)
    <3>. HIDE DEF lo, hi
    <3>2. V = lo .. hi /\ lo \in Int /\ hi \in Int /\ f.no \in Int /\ f.no <= hi
      BY <1>3, <3>1 DEF lo, hi
    <3>. HIDE DEF V
    <3>3. \A k : k \in lo .. f.no - 1 <=> k \in V /\ k < f.no
      BY <3>2
    <3>. QED BY <3>3 DEF lo
  <2>. QED BY <2>1, <2>2
<1>5. ks \in SUBSET V
  BY <1>4
<1>6. \A m \in V \ ks : Sens(Code, texte, bol)[Voie(Code, texte, x, m)] = Rate
  <2>. SUFFICES ASSUME NEW m \in V, m \notin ks
                PROVE  Sens(Code, texte, bol)[Voie(Code, texte, x, m)] = Rate
    OBVIOUS
  <2>1. m \in Int /\ f.no \in Int
    BY <1>1, <1>3
  <2>2. CASE m >= f.no
    BY <1>1, <2>2
  <2>3. CASE m < f.no
    <3>1. ~ Tentable(Next1(x.n), x.i + m)
      BY <1>4, <2>3
    <3>. QED BY <1>1, <3>1, PasPossible
  <2>. QED BY <2>1, <2>2, <2>3
<1>7. /\ ks = {} => EnEchec(Code, texte, bol, s, Front(pile), x.d, x.e)
      /\ ks # {} => EnMarche(Code, texte, bol, s, Append(Front(pile), [scan |-> x.n, save |-> x.i, no |-> Max(ks)]),
                             [n |-> Regnext(Code, x.n), i |-> x.i + Max(ks), d |-> x.d, e |-> x.e])
  BY <1>1, <1>5, <1>6, Repete
<1>8. /\ startp' = x.d /\ endp' = x.e
      /\ IF ks = {} THEN pile' = Front(pile) /\ phase' = phase
         ELSE /\ phase' = "va" /\ scan' = Next1(x.n) /\ reginput' = x.i + Max(ks)
              /\ pile' = Append(Front(pile), [f EXCEPT !.no = Max(ks)])
  BY <1>1, <1>2 DEF RetourRepetition, Depiler, ks, f
<1>9. CASE ks = {}
  <2>1. phase' = "echec" /\ EnEchec(Code, texte, bol, s, pile', startp', endp')
    BY <1>7, <1>8, <1>9 DEF AuRetour
  <2>. QED BY <1>1, <2>1, InvPas
<1>10. CASE ks # {}
  <2>1. [f EXCEPT !.no = Max(ks)] = [scan |-> x.n, save |-> x.i, no |-> Max(ks)]
    BY <1>1
  <2>2. Courant' = [n |-> Regnext(Code, x.n), i |-> x.i + Max(ks), d |-> x.d, e |-> x.e]
    BY <1>8, <1>10 DEF Courant, Next1, Code
  <2>3. phase' = "va" /\ EnMarche(Code, texte, bol, s, pile', Courant')
    BY <1>7, <1>8, <1>10, <2>1, <2>2
  <2>. QED BY <1>1, <2>3, InvPas
<1>. QED BY <1>9, <1>10

\* The return of a failed call, whatever its node.
LEMMA InvRetour == IInv /\ Retour => IInv'
<1>. SUFFICES ASSUME IInv, Retour PROVE IInv'
  OBVIOUS
<1>. DEFINE f == Last(pile)
            n == prog.code[Last(pile).scan]
<1>1. /\ RetourGroupe(f, n) \/ RetourChoix(f, n) \/ RetourRepetition(f, n)
      /\ \A op : Code[f.scan].op = op => AuRetour(op)
  BY DEF Retour, AuRetour, donnees
<1>2. n = Code[f.scan]
  BY DEF Code
<1>3. CASE RetourGroupe(f, n)
  <2>1. Code[f.scan].op \in {"OPEN", "CLOSE"}
    BY <1>2, <1>3 DEF RetourGroupe
  <2>. QED BY <1>1, <1>3, <2>1, InvRetourGroupe
<1>4. CASE RetourChoix(f, n)
  <2>1. Code[f.scan].op = "BRANCH"
    BY <1>2, <1>4 DEF RetourChoix
  <2>. QED BY <1>1, <1>4, <2>1, InvRetourChoix
<1>5. CASE RetourRepetition(f, n)
  <2>1. Code[f.scan].op \in Boucles
    BY <1>2, <1>5 DEF RetourRepetition
  <2>. QED BY <1>1, <1>5, <2>1, InvRetourRepetition
<1>. QED BY <1>1, <1>3, <1>4, <1>5

-----------------------------------------------------------------------------
(* regexec: where the attempts begin. *)

\* No match at the places that Depart passes over.
LEMMA DepartJuste ==
  ASSUME texte \in Seq(STRING), bol \in 1 .. FinTexte, Correct(prog), NEW de \in bol .. FinTexte + 1
  PROVE  /\ Depart(de) = 0 => \A j \in de .. FinTexte : Essai(j) = Rate
         /\ Depart(de) # 0 => Depart(de) \in de .. FinTexte /\ \A j \in de .. Depart(de) - 1 : Essai(j) = Rate
<1>. DEFINE lieux == {i \in de .. FinTexte : prog.start = FIN \/ (i <= Len(texte) /\ texte[i] = prog.start)}
<1>1. Len(texte) \in Nat /\ FinTexte = Len(texte) + 1 /\ bol \in Nat /\ de \in Nat /\ bol <= de /\ bol >= 1
  BY DEF FinTexte
<1>2. \A j \in de .. FinTexte : j \notin lieux => Essai(j) = Rate
  <2>. SUFFICES ASSUME NEW j \in de .. FinTexte, j \notin lieux PROVE Essai(j) = Rate
    OBVIOUS
  <2>1. prog.start # FIN /\ ~ (j <= Len(texte) /\ texte[j] = prog.start) /\ j \in 1 .. Len(texte) + 1
    BY <1>1
  <2>. QED BY <2>1, PremierCaractere DEF Essai
<1>3. Depart(de) = IF lieux = {} THEN 0 ELSE Min(lieux)
  BY DEF Depart
<1>4. lieux \in SUBSET (de .. FinTexte) /\ lieux \in SUBSET Nat
  BY <1>1
<1>. HIDE DEF lieux
<1>5. ASSUME lieux # {} PROVE Min(lieux) \in lieux /\ \A j \in lieux : Min(lieux) <= j
  BY <1>4, <1>5, MinEst
<1>6. CASE lieux = {}
  BY <1>2, <1>3, <1>6
<1>7. CASE lieux # {}
  <2>. DEFINE d == Depart(de)
  <2>1. d \in lieux /\ d \in de .. FinTexte /\ \A j \in lieux : d <= j
    BY <1>3, <1>4, <1>5, <1>7
  <2>. HIDE DEF d
  <2>2. \A j \in de .. d - 1 : j \in de .. FinTexte /\ j \notin lieux
    <3>. SUFFICES ASSUME NEW j \in de .. d - 1 PROVE j \in de .. FinTexte /\ j \notin lieux
      OBVIOUS
    <3>1. j \in Int /\ d \in Int /\ j < d /\ j \in de .. FinTexte
      BY <1>1, <2>1
    <3>. QED BY <2>1, <3>1
  <2>3. d # 0
    BY <1>1, <2>1
  <2>. QED BY <1>2, <2>1, <2>2, <2>3 DEF d
<1>. QED BY <1>6, <1>7

\* An attempt begins at i, when there is no match before it.
LEMMA InvRegtry ==
  ASSUME IInv, phase \in {"exec", "echec"}, NEW i \in bol .. FinTexte, RateAvant(i), Regtry(i),
         UNCHANGED <<donnees, prog, bol>>
  PROVE  IInv'
<1>1. texte' = texte /\ prog' = prog /\ bol' = bol /\ s' = i /\ Code' = Code /\ FinTexte' = FinTexte
  BY DEF donnees, Code, FinTexte, Regtry
<1>2. /\ phase' = "va" /\ pile' = <<>> /\ startp' = NULS /\ endp' = NULS
      /\ Courant' = Entree(i)
  BY DEF Regtry, Courant, Entree
<1>3. Correct(prog) /\ texte \in Seq(STRING) /\ bol \in 1 .. FinTexte
  BY DEF IInv
<1>4. Donnees(Code, texte, bol, i)
  BY <1>3 DEF Donnees, Correct, Code, FinTexte
<1>5. EnMarche(Code, texte, bol, i, <<>>, Entree(i))
  BY <1>4, Commence
<1>6. EnMarche(Code, texte, bol, s, pile, Courant)'
  BY <1>1, <1>2, <1>5
<1>7. Tenus'
  <2>1. Empilee(Code, texte, bol, i, <<>>, NULS, NULS)
    BY <1>5 DEF EnMarche, Entree
  <2>. QED BY <1>1, <1>2, <2>1 DEF Empilee, Tenus
<1>8. s' \in bol' .. FinTexte' /\ RateAvant(s)'
  BY <1>1 DEF RateAvant, Essai
<1>. QED BY <1>1, <1>2, <1>3, <1>6, <1>7, <1>8 DEF IInv, EnCours

\* The search gives up, when there is no match at all.
LEMMA InvAbsent ==
  ASSUME IInv, phase \in {"exec", "echec"}, RateAvant(FinTexte + 1), Absent, UNCHANGED <<donnees, prog, bol>>
  PROVE  IInv'
<1>1. /\ texte' = texte /\ prog' = prog /\ bol' = bol /\ Code' = Code /\ FinTexte' = FinTexte
      /\ pile' = pile /\ startp' = startp /\ endp' = endp /\ phase' = "absent"
  BY DEF donnees, Code, FinTexte, Absent, place
<1>2. Correct(prog) /\ Tenus /\ texte \in Seq(STRING) /\ bol \in 1 .. FinTexte
  BY DEF IInv
<1>3. Tenus' /\ RateAvant(FinTexte + 1)'
  BY <1>1, <1>2 DEF Tenus, RateAvant, Essai
<1>. QED BY <1>1, <1>2, <1>3 DEF IInv, EnCours

\* The first attempt of a search.
LEMMA InvExecuter == IInv /\ Executer => IInv'
<1>. SUFFICES ASSUME IInv, Executer PROVE IInv'
  OBVIOUS
<1>1. phase = "exec" /\ UNCHANGED <<donnees, prog, bol>>
  BY DEF Executer
<1>2. Correct(prog) /\ Tenus /\ texte \in Seq(STRING) /\ bol \in 1 .. FinTexte
  BY <1>1 DEF IInv
<1>3. Len(texte) \in Nat /\ FinTexte = Len(texte) + 1 /\ bol \in Nat /\ bol >= 1
  BY <1>2 DEF FinTexte
<1>4. CASE phase' = "plante" /\ UNCHANGED <<s, place>>
  <2>1. /\ texte' = texte /\ prog' = prog /\ bol' = bol /\ Code' = Code /\ FinTexte' = FinTexte
        /\ pile' = pile /\ startp' = startp /\ endp' = endp
    BY <1>1, <1>4 DEF donnees, Code, FinTexte, place
  <2>2. Tenus'
    BY <1>2, <2>1 DEF Tenus
  <2>. QED BY <1>2, <1>4, <2>1, <2>2 DEF IInv, EnCours
<1>5. CASE prog.must > 0 /\ ~ Apparait(prog.code[prog.must].arg, bol) /\ Absent
  <2>1. prog.must \in Nat
    <3>1. BienForme(Code) /\ prog.must \in Noeuds(Code)
      BY <1>2, <1>5 DEF Correct, RaccourcisJustes, Code
    <3>2. prog.must \in 1 .. Len(Code) /\ Len(Code) \in Nat
      BY <3>1, BonNoeud
    <3>. QED BY <3>2
  <2>2. \A j \in bol .. FinTexte : Essai(j) = Rate
    BY <1>2, <1>3, <1>5, <2>1, Obligatoire DEF Apparait, Essai
  <2>3. RateAvant(FinTexte + 1)
    BY <1>3, <2>2 DEF RateAvant
  <2>. QED BY <1>1, <1>5, <2>3, InvAbsent
<1>6. CASE LET i == IF prog.anch THEN bol ELSE Depart(bol) IN IF i = 0 THEN Absent ELSE Regtry(i)
  <2>0. bol \in bol .. FinTexte + 1 /\ bol \in bol .. FinTexte
    BY <1>2, <1>3
  <2>1. /\ Depart(bol) = 0 => \A j \in bol .. FinTexte : Essai(j) = Rate
        /\ Depart(bol) # 0 => Depart(bol) \in bol .. FinTexte /\ \A j \in bol .. Depart(bol) - 1 : Essai(j) = Rate
    BY <1>2, <2>0, DepartJuste
  <2>2. CASE prog.anch
    <3>1. bol # 0 /\ RateAvant(bol)
      BY <1>3 DEF RateAvant
    <3>. QED BY <1>1, <1>6, <2>0, <2>2, <3>1, InvRegtry
  <2>3. CASE ~ prog.anch /\ Depart(bol) = 0
    <3>1. RateAvant(FinTexte + 1)
      BY <1>3, <2>1, <2>3 DEF RateAvant
    <3>. QED BY <1>1, <1>6, <2>3, <3>1, InvAbsent
  <2>4. CASE ~ prog.anch /\ Depart(bol) # 0
    <3>. DEFINE d == Depart(bol)
    <3>1. d \in bol .. FinTexte /\ RateAvant(d)
      BY <2>1, <2>4 DEF RateAvant
    <3>2. Regtry(d)
      BY <1>6, <2>4
    <3>. HIDE DEF d
    <3>. QED BY <1>1, <3>1, <3>2, InvRegtry
  <2>. QED BY <2>2, <2>3, <2>4
<1>. QED BY <1>4, <1>5, <1>6 DEF Executer

\* The next attempt, after one that failed.
LEMMA InvEssayerPlusLoin == IInv /\ EssayerPlusLoin => IInv'
<1>. SUFFICES ASSUME IInv, EssayerPlusLoin PROVE IInv'
  OBVIOUS
<1>1. phase = "echec" /\ pile = <<>> /\ EnCours /\ UNCHANGED <<donnees, prog, bol>>
  BY DEF EssayerPlusLoin, EnCours
<1>2. Correct(prog) /\ texte \in Seq(STRING) /\ bol \in 1 .. FinTexte /\ s \in bol .. FinTexte /\ RateAvant(s)
  BY <1>1 DEF IInv
<1>3. /\ Len(texte) \in Nat /\ FinTexte = Len(texte) + 1 /\ bol \in Nat /\ bol >= 1 /\ s \in Nat
      /\ bol <= s /\ s <= FinTexte
  BY <1>2 DEF FinTexte
<1>4. Essai(s) = Rate
  <2>1. EnEchec(Code, texte, bol, s, <<>>, startp, endp)
    BY <1>1 DEF IInv
  <2>2. Len(<<>>) = 0
    OBVIOUS
  <2>. QED BY <2>1, <2>2 DEF EnEchec, Tente, Essai, Code
<1>5. \A j \in bol .. s : Essai(j) = Rate
  <2>. SUFFICES ASSUME NEW j \in bol .. s PROVE Essai(j) = Rate
    OBVIOUS
  <2>1. j = s \/ j \in bol .. s - 1
    BY <1>3
  <2>. QED BY <1>2, <1>4, <2>1 DEF RateAvant
<1>6. \A j \in bol .. FinTexte : j \in bol .. s \/ j \in s + 1 .. FinTexte
  BY <1>3
<1>7. CASE prog.anch
  <2>1. \A j \in bol .. FinTexte : Essai(j) = Rate
    <3>. SUFFICES ASSUME NEW j \in bol .. FinTexte PROVE Essai(j) = Rate
      OBVIOUS
    <3>1. CASE j = bol
      <4>1. bol \in bol .. s
        BY <1>3
      <4>. QED BY <1>5, <3>1, <4>1
    <3>2. CASE j # bol
      <4>1. j \in 1 .. Len(texte) + 1
        BY <1>3
      <4>. QED BY <1>2, <1>7, <3>2, <4>1, Ancree DEF Essai
    <3>. QED BY <3>1, <3>2
  <2>2. RateAvant(FinTexte + 1)
    BY <1>3, <2>1 DEF RateAvant
  <2>3. Absent
    BY <1>7 DEF EssayerPlusLoin
  <2>. QED BY <1>1, <2>2, <2>3, InvAbsent
<1>8. CASE ~ prog.anch
  <2>. DEFINE d == Depart(s + 1)
  <2>1. s + 1 \in bol .. FinTexte + 1
    BY <1>3
  <2>2. /\ d = 0 => \A j \in s + 1 .. FinTexte : Essai(j) = Rate
        /\ d # 0 => d \in s + 1 .. FinTexte /\ \A j \in s + 1 .. d - 1 : Essai(j) = Rate
    BY <1>2, <2>1, DepartJuste
  <2>3. IF d = 0 THEN Absent ELSE Regtry(d)
    BY <1>8 DEF EssayerPlusLoin
  <2>. HIDE DEF d
  <2>4. CASE d = 0
    <3>1. \A j \in bol .. FinTexte : Essai(j) = Rate
      BY <1>5, <1>6, <2>2, <2>4
    <3>2. RateAvant(FinTexte + 1)
      BY <1>3, <3>1 DEF RateAvant
    <3>. QED BY <1>1, <2>3, <2>4, <3>2, InvAbsent
  <2>5. CASE d # 0
    <3>1. d \in bol .. FinTexte /\ \A j \in bol .. d - 1 : j \in bol .. s \/ j \in s + 1 .. d - 1
      BY <1>3, <2>2, <2>5
    <3>2. RateAvant(d)
      BY <1>5, <2>2, <2>5, <3>1 DEF RateAvant
    <3>. QED BY <1>1, <2>3, <2>5, <3>1, <3>2, InvRegtry
  <2>. QED BY <2>4, <2>5
<1>. QED BY <1>7, <1>8

-----------------------------------------------------------------------------
(* The callers of regexec. *)

\* Between two searches, the frames and the marks of the last one stay.
LEMMA InvAppelant ==
  ASSUME IInv, phase # "erreur", UNCHANGED <<donnees, prog, s, place>>, bol' \in 1 .. FinTexte,
         phase' \in {"exec", "reste", "fini"}
  PROVE  IInv'
<1>1. /\ texte' = texte /\ prog' = prog /\ Code' = Code /\ FinTexte' = FinTexte
      /\ pile' = pile /\ startp' = startp /\ endp' = endp
  BY DEF donnees, Code, FinTexte, place
<1>2. Correct(prog) /\ Tenus /\ texte \in Seq(STRING)
  BY DEF IInv
<1>3. Tenus'
  BY <1>1, <1>2 DEF Tenus
<1>. QED BY <1>1, <1>2, <1>3 DEF IInv, EnCours

\* A step of a caller of regexec.
LEMMA InvAppelants ==
  ASSUME IInv, Chercher \/ Couper \/ Remplacer \/ RienARemplacer \/ CopierReste
  PROVE  IInv'
<1>1. phase # "erreur" /\ UNCHANGED <<donnees, prog, s, place>>
  BY DEF Chercher, Couper, Remplacer, RienARemplacer, CopierReste
<1>2. phase' \in {"exec", "reste", "fini"}
  BY DEF Chercher, Couper, Remplacer, RienARemplacer, CopierReste
<1>3. bol \in 1 .. FinTexte /\ (phase = "trouve" => reginput \in 1 .. FinTexte)
  <2>1. bol \in 1 .. FinTexte /\ texte \in Seq(STRING)
    BY DEF IInv
  <2>2. Len(texte) \in Nat
    BY <2>1
  <2>3. phase = "trouve" => s \in bol .. FinTexte /\ reginput \in s .. FinTexte
    BY DEF IInv, EnCours, Reussi
  <2>. QED BY <2>1, <2>2, <2>3 DEF FinTexte
<1>4. bol' = bol \/ (phase = "trouve" /\ bol' = reginput)
  BY DEF Chercher, Couper, Remplacer, RienARemplacer, CopierReste
<1>. QED BY <1>1, <1>2, <1>3, <1>4, InvAppelant

\* Nothing of it changes when nothing changes.
LEMMA InvRien ==
  ASSUME IInv, UNCHANGED vars
  PROVE  IInv'
<1>1. /\ texte' = texte /\ prog' = prog /\ bol' = bol /\ s' = s /\ phase' = phase /\ scan' = scan
      /\ reginput' = reginput /\ startp' = startp /\ endp' = endp /\ pile' = pile
  BY DEF vars
<1>2. Code' = Code /\ FinTexte' = FinTexte /\ Courant' = Courant
  BY <1>1 DEF Code, FinTexte, Courant
<1>3. Tenus' = Tenus /\ RateAvant(s)' = RateAvant(s) /\ RateAvant(FinTexte + 1)' = RateAvant(FinTexte + 1)
      /\ EnCours' = EnCours /\ Reussi' = Reussi
  BY <1>1, <1>2 DEF Tenus, RateAvant, Essai, EnCours, Reussi
<1>. QED BY <1>1, <1>2, <1>3 DEF IInv

-----------------------------------------------------------------------------
(* The theorems, of every set of correct programs, of texts and of uses. *)

\* The invariant is inductive.
THEOREM Invariant == ProgrammesCorrects => (Spec => []IInv)
<1>. SUFFICES ASSUME ProgrammesCorrects PROVE Spec => []IInv
  OBVIOUS
<1>1. Init => IInv
  BY InvInit
<1>2. IInv /\ [Next]_vars => IInv'
  BY InvExecuter, InvEssayerPlusLoin, InvRegmatch, InvRetour, InvAppelants, InvRien DEF Next
<1>. QED BY <1>1, <1>2, PTL DEF Spec

\* regmatch reads no node that is not in the program and no place that is not
\* in the text.
THEOREM TypeCorrect == ProgrammesCorrects => (Spec => []TypeOK)
<1>. SUFFICES ASSUME ProgrammesCorrects PROVE Spec => []TypeOK
  OBVIOUS
<1>1. IInv => TypeOK
  <2>. SUFFICES ASSUME IInv PROVE TypeOK
    OBVIOUS
  <2>1. texte \in Seq(STRING) /\ bol \in 1 .. FinTexte
    BY DEF IInv
  <2>2. Len(texte) \in Nat /\ FinTexte = Len(texte) + 1
    BY <2>1 DEF FinTexte
  <2>3. startp \in [Groupes -> 0 .. FinTexte] /\ endp \in [Groupes -> 0 .. FinTexte]
    <3>1. CASE phase = "erreur"
      BY <2>2, <3>1 DEF IInv, NULS
    <3>2. CASE phase # "erreur"
      <4>1. Tenus /\ Len(pile) \in 0 .. Len(pile)
        BY <3>2 DEF IInv, Tenus
      <4>2. startp \in Marques(texte) /\ endp \in Marques(texte)
        BY <2>1, <4>1, NoteesType DEF Tenus
      <4>. QED BY <2>2, <4>2 DEF Marques
    <3>. QED BY <3>1, <3>2
  <2>4. ASSUME EnCours
        PROVE  \A k \in DOMAIN pile : pile[k].scan \in DOMAIN prog.code /\ pile[k].save \in s .. FinTexte
    <3>1. Donnees(Code, texte, bol, s) /\ BienForme(Code) /\ s \in Nat
      BY <2>4, Prepare
    <3>2. Empilee(Code, texte, bol, s, pile, startp, endp)
      BY <2>4 DEF IInv, EnCours, EnMarche, EnEchec, Reussi, Courant
    <3>3. pile \in Seq(Cadres(Code, texte)) /\ \A k \in 1 .. Len(pile) : pile[k].save >= s
      BY <3>2 DEF Empilee
    <3>. SUFFICES ASSUME NEW k \in DOMAIN pile
                  PROVE  pile[k].scan \in DOMAIN prog.code /\ pile[k].save \in s .. FinTexte
      OBVIOUS
    <3>4. k \in 1 .. Len(pile)
      BY <3>3
    <3>5. pile[k].scan \in Noeuds(Code) /\ pile[k].save \in 1 .. FinTexte /\ pile[k].save >= s
      BY <2>1, <2>2, <3>3, <3>4, PartsCadre
    <3>6. pile[k].scan \in DOMAIN Code
      BY <3>1, <3>5, BonNoeud
    <3>. QED BY <2>2, <3>1, <3>5, <3>6 DEF Code
  <2>5. ASSUME phase = "va" PROVE scan \in DOMAIN prog.code /\ reginput \in s .. FinTexte
    <3>1. EnCours
      BY <2>5 DEF EnCours
    <3>2. Donnees(Code, texte, bol, s) /\ BienForme(Code) /\ s \in Nat
      BY <3>1, Prepare
    <3>3. Courant \in Points(Code, texte) /\ Courant.n = scan /\ Courant.i = reginput /\ reginput >= s
      BY <2>5 DEF IInv, EnMarche, Courant
    <3>. HIDE DEF Courant
    <3>4. scan \in Noeuds(Code) /\ reginput \in 1 .. FinTexte
      BY <2>1, <2>2, <3>3, PartsPoint
    <3>5. scan \in DOMAIN Code
      BY <3>2, <3>4, BonNoeud
    <3>. QED BY <2>2, <3>2, <3>3, <3>4, <3>5 DEF Code
  <2>6. phase = "trouve" => reginput \in s .. FinTexte
    BY DEF IInv, Reussi
  <2>7. EnCours => s \in bol .. FinTexte
    BY DEF IInv
  <2>8. phase \in {"exec", "va", "echec", "trouve", "absent", "reste", "fini", "erreur", "plante"}
    BY DEF IInv
  <2>. QED BY <2>1, <2>3, <2>4, <2>5, <2>6, <2>7, <2>8 DEF TypeOK
<1>. QED BY <1>1, Invariant, PTL

\* A failed attempt leaves no group marked.
THEOREM MarquesEffacees == ProgrammesCorrects => (Spec => []MarquesRendues)
<1>. SUFFICES ASSUME ProgrammesCorrects PROVE Spec => []MarquesRendues
  OBVIOUS
<1>1. IInv => MarquesRendues
  <2>. SUFFICES ASSUME IInv, phase = "echec", pile = <<>> PROVE startp = NULS /\ endp = NULS
    BY DEF MarquesRendues
  <2>1. EnEchec(Code, texte, bol, s, <<>>, startp, endp) /\ Len(<<>>) = 0
    BY DEF IInv
  <2>. QED BY <2>1, NoteesRien DEF EnEchec, Empilee
<1>. QED BY <1>1, Invariant, PTL

\* No call of regmatch makes again the choice that one above it made at the
\* same place of the text: its recursion is bounded.
THEOREM RecursionBornee == ProgrammesCorrects => (Spec => []PasDeBoucle)
<1>. SUFFICES ASSUME ProgrammesCorrects PROVE Spec => []PasDeBoucle
  OBVIOUS
<1>1. IInv => PasDeBoucle
  <2>. SUFFICES ASSUME IInv, NEW j \in DOMAIN pile, NEW k \in DOMAIN pile, j < k, pile[j].scan = pile[k].scan
                PROVE  pile[j].save < pile[k].save
    BY DEF PasDeBoucle
  <2>1. CASE phase = "erreur"
    <3>1. DOMAIN pile = {}
      BY <2>1 DEF IInv
    <3>. QED BY <3>1
  <2>2. CASE phase # "erreur"
    <3>1. /\ texte \in Seq(STRING) /\ BienForme(Code) /\ SansBoucle(Code)
          /\ pile \in Seq(Cadres(Code, texte)) /\ Ordonnes(Code, pile)
      BY <2>2 DEF IInv, Tenus, Correct, Code
    <3>2. j \in 1 .. Len(pile) /\ k \in 1 .. Len(pile)
      BY <3>1
    <3>3. Apres(Code, pile[j].scan, pile[j].save, pile[k].scan, pile[k].save)
      BY <3>1, <3>2 DEF Ordonnes
    <3>4. LeRang(Code)[pile[k].scan] \in Int
      <4>1. pile[k].scan \in Noeuds(Code)
        BY <3>1, <3>2, PartsCadre
      <4>2. pile[k].scan \in DOMAIN Code /\ Len(Code) \in Nat
        BY <3>1, <4>1, BonNoeud
      <4>. QED BY <3>1, <4>2, RangExiste DEF EstRang
    <3>. QED BY <3>3, <3>4 DEF Apres
  <2>. QED BY <2>1, <2>2
<1>. QED BY <1>1, Invariant, PTL

\* A search finds what the program means: the first place where it matches
\* and the preferred match there, or none when there is none.
THEOREM RechercheJuste == ProgrammesCorrects => (Spec => []PremierTrouve)
<1>. SUFFICES ASSUME ProgrammesCorrects PROVE Spec => []PremierTrouve
  OBVIOUS
<1>1. IInv => PremierTrouve
  <2>. SUFFICES ASSUME IInv PROVE PremierTrouve
    OBVIOUS
  <2>1. phase = "trouve" => /\ Essai(s) = [f |-> reginput, d |-> startp, e |-> endp]
                            /\ \A i \in bol .. s - 1 : Essai(i) = Rate
    BY DEF IInv, EnCours, Reussi, RateAvant
  <2>2. phase = "absent" => \A i \in bol .. FinTexte : Essai(i) = Rate
    <3>1. texte \in Seq(STRING) /\ bol \in 1 .. FinTexte
      BY DEF IInv
    <3>2. FinTexte \in Int /\ FinTexte + 1 - 1 = FinTexte
      <4>1. Len(texte) \in Nat
        BY <3>1
      <4>. QED BY <4>1 DEF FinTexte
    <3>. QED BY <3>2 DEF IInv, RateAvant
  <2>. QED BY <2>1, <2>2 DEF PremierTrouve
<1>. QED BY <1>1, Invariant, PTL

=============================================================================
