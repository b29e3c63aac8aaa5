------------------------------ MODULE Cadres_proof ------------------------------
(***************************************************************************)
(* Appels implements Cadres, for every value of the constants: whatever    *)
(* is called, left, unwound or started, the frames a script may believe    *)
(* in are those that PileF, Pile and Appel hold.                           *)
(*                                                                         *)
(* Bon is not enough: Exception also needs that a call still finds its     *)
(* DEBUTPARAM in PileF, where the caller's expression was saved (Marques), *)
(* and a method that nothing above the current call keeps a This           *)
(* (SansThis).  As in Appels_proof all is stated of records s, as Etat.    *)
(***************************************************************************)
EXTENDS Appels_proof

\* The cell under the parameters of a call in progress is its DEBUTPARAM.
Marques(s) == \A k \in 1 .. s.n : s.PileF[D(s, k) - 1] = Marque

\* Only calls in progress keep a This.
SansThis(s) == \A a \in s.n .. NMAXAPPELS : s.Appel[a].This = Nul

Sain(s, b) == Bon(s, b) /\ Marques(s) /\ SansThis(s)

-----------------------------------------------------------------------------
(* The frames of a state. *)

\* A value as it is seen from frame k.
Vue(s, b, k, v) ==
  IF v \in Refs
  THEN IF v.adr < V(s, k, b)
       THEN [zone |-> "param", rang |-> v.adr - D(s, k) + 1]
       ELSE [zone |-> "locale", rang |-> v.adr - V(s, k, b)]
  ELSE v

\* An expression.
VueDe(s, b, k, p) == [i \in DOMAIN p |-> Vue(s, b, k, p[i])]

PileEn(s, k) ==
  IF k = s.n THEN s.Pile
  ELSE [i \in 1 .. s.Appel[k].lPile |-> s.PileF[s.Appel[k].PosPileF + i - 1]]

ParamsEn(s, b, k)  == [i \in 1 .. V(s, k, b) - D(s, k) |-> s.PileF[D(s, k) + i - 1]]
LocalesEn(s, b, k) ==
  [n \in Locales |-> IF V(s, k, b) + n < F(s, k) THEN s.PileF[V(s, k, b) + n] ELSE Inconnu]

ThisEn(s, k) ==
  LET gardes == {a \in k .. s.n - 1 : s.Appel[a].This # Nul}
  IN IF gardes = {} THEN s.This ELSE s.Appel[Min(gardes)].This

InsEn(s, k) == IF k = s.n THEN s.Ins ELSE s.Appel[k].Instruction

UnCadre(pile, params, locales, gest, this, ins) ==
  [pile |-> pile, params |-> params, locales |-> locales, gest |-> gest, this |-> this, ins |-> ins]

\* Frame k, if its "this" is h.
CadreAvec(s, b, k, h) ==
  UnCadre(VueDe(s, b, k, PileEn(s, k)), ParamsEn(s, b, k), LocalesEn(s, b, k), s.Appel[k].EnErreur, h, InsEn(s, k))

CadreEn(s, b, k) == CadreAvec(s, b, k, ThisEn(s, k))
CadresEn(s, b)   == [k \in 1 .. s.n + 1 |-> CadreEn(s, b, k - 1)]

\* These are the frames of Appels, before a step and after it.
LEMMA Image ==
  /\ CadresAbs = CadresEn(Etat, BasenParams)
  /\ CadresAbs' = CadresEn(Etat', BasenParams')
<1>1. /\ Etat.Pile = Pile /\ Etat.PileF = PileF /\ Etat.l = l /\ Etat.Appel = Appel
      /\ Etat.n = nAppels /\ Etat.Ins = Ins /\ Etat.This = This
  BY DEF Etat
<1>2. /\ Etat'.Pile = Pile' /\ Etat'.PileF = PileF' /\ Etat'.l = l' /\ Etat'.Appel = Appel'
      /\ Etat'.n = nAppels' /\ Etat'.Ins = Ins' /\ Etat'.This = This'
  BY DEF Etat
<1>. HIDE DEF Etat
<1>3. \A k : D(Etat, k) = Debut(k) /\ V(Etat, k, BasenParams) = Locs(k) /\ F(Etat, k) = FinDe(k)
  BY <1>1 DEF D, V, F, Debut, Locs, FinDe
<1>4. \A k : D(Etat', k) = Debut(k)' /\ V(Etat', k, BasenParams') = Locs(k)' /\ F(Etat', k) = FinDe(k)'
  BY <1>2 DEF D, V, F, Debut, Locs, FinDe
<1>5. \A k : PileEn(Etat, k) = PileDe(k) /\ ThisEn(Etat, k) = ThisDe(k)
  BY <1>1 DEF PileEn, PileDe, ThisEn, ThisDe
<1>6. \A k : PileEn(Etat', k) = PileDe(k)' /\ ThisEn(Etat', k) = ThisDe(k)'
  BY <1>2 DEF PileEn, PileDe, ThisEn, ThisDe
<1>7. \A k, v : Vue(Etat, BasenParams, k, v) = Relative(k, v)
  BY <1>3 DEF Vue, Relative
<1>8. \A k, v : Vue(Etat', BasenParams', k, v) = Relative(k, v)'
  BY <1>4 DEF Vue, Relative
<1>9. \A k : CadreEn(Etat, BasenParams, k) = Cadre(k)
  <2>. TAKE k
  <2>1. VueDe(Etat, BasenParams, k, PileEn(Etat, k)) = [i \in DOMAIN PileDe(k) |-> Relative(k, PileDe(k)[i])]
    BY <1>5, <1>7 DEF VueDe
  <2>2. ParamsEn(Etat, BasenParams, k) = [i \in 1 .. Locs(k) - Debut(k) |-> PileF[Debut(k) + i - 1]]
    BY <1>1, <1>3 DEF ParamsEn
  <2>3. LocalesEn(Etat, BasenParams, k)
        = [n \in Locales |-> IF Locs(k) + n < FinDe(k) THEN PileF[Locs(k) + n] ELSE Inconnu]
    BY <1>1, <1>3 DEF LocalesEn
  <2>4. Etat.Appel[k].EnErreur = Appel[k].EnErreur /\ ThisEn(Etat, k) = ThisDe(k)
        /\ InsEn(Etat, k) = IF k = nAppels THEN Ins ELSE Appel[k].Instruction
    BY <1>1, <1>5 DEF InsEn
  <2>. QED BY <2>1, <2>2, <2>3, <2>4 DEF CadreEn, CadreAvec, UnCadre, Cadre
<1>10. \A k : CadreEn(Etat', BasenParams', k) = Cadre(k)'
  <2>. TAKE k
  <2>1. VueDe(Etat', BasenParams', k, PileEn(Etat', k)) = ([i \in DOMAIN PileDe(k) |-> Relative(k, PileDe(k)[i])])'
    BY <1>6, <1>8 DEF VueDe
  <2>2. ParamsEn(Etat', BasenParams', k) = ([i \in 1 .. Locs(k) - Debut(k) |-> PileF[Debut(k) + i - 1]])'
    BY <1>2, <1>4 DEF ParamsEn
  <2>3. LocalesEn(Etat', BasenParams', k)
        = ([n \in Locales |-> IF Locs(k) + n < FinDe(k) THEN PileF[Locs(k) + n] ELSE Inconnu])'
    BY <1>2, <1>4 DEF LocalesEn
  <2>4. Etat'.Appel[k].EnErreur = Appel'[k].EnErreur /\ ThisEn(Etat', k) = ThisDe(k)'
        /\ InsEn(Etat', k) = IF k = nAppels' THEN Ins' ELSE Appel'[k].Instruction
    BY <1>2, <1>6 DEF InsEn
  <2>. QED BY <2>1, <2>2, <2>3, <2>4 DEF CadreEn, CadreAvec, UnCadre, Cadre
<1>. QED BY <1>1, <1>2, <1>9, <1>10 DEF CadresEn, CadresAbs

-----------------------------------------------------------------------------
(* The sequence of frames. *)

Tous(s, b) == {CadreEn(s, b, k) : k \in 0 .. s.n}

\* One frame for each call in progress, and one more.
LEMMA Longueur ==
  ASSUME NEW b, NEW s, s.n \in Nat
  PROVE  /\ CadresEn(s, b) \in Seq(Tous(s, b)) /\ Len(CadresEn(s, b)) = s.n + 1
         /\ DOMAIN CadresEn(s, b) = 1 .. s.n + 1
         /\ \A k \in 0 .. s.n : CadresEn(s, b)[k + 1] = CadreEn(s, b, k)
<1>. DEFINE C == CadresEn(s, b)
            m == s.n + 1
<1>1. m \in Nat /\ \A i \in 1 .. m : i - 1 \in 0 .. s.n
  OBVIOUS
<1>2. C = [k \in 1 .. m |-> CadreEn(s, b, k - 1)]
  BY DEF CadresEn
<1>3. C \in [1 .. m -> Tous(s, b)]
  BY <1>1, <1>2 DEF Tous
<1>4. ASSUME NEW k \in 0 .. s.n PROVE C[k + 1] = CadreEn(s, b, k)
  <2>1. k + 1 \in 1 .. m /\ (k + 1) - 1 = k
    OBVIOUS
  <2>. QED BY <1>2, <2>1
<1>. HIDE DEF C, m
<1>5. C \in Seq(Tous(s, b)) /\ Len(C) = m
  BY <1>1, <1>3, SeqDef
<1>. QED BY <1>3, <1>4, <1>5 DEF C, m

\* The current frame is the last one.
LEMMA Courant ==
  ASSUME NEW b, NEW s, s.n \in Nat
  PROVE  CadresEn(s, b)[Len(CadresEn(s, b))] = CadreEn(s, b, s.n)
BY Longueur

\* A step that changes the current frame only.
LEMMA Remplace ==
  ASSUME NEW b, NEW s, s.n \in Nat, NEW t, t.n = s.n, \A k \in 0 .. s.n - 1 : CadreEn(t, b, k) = CadreEn(s, b, k)
  PROVE  CadresEn(t, b) = [CadresEn(s, b) EXCEPT ![Len(CadresEn(s, b))] = CadreEn(t, b, t.n)]
<1>. DEFINE C == CadresEn(s, b)
            n == s.n
<1>1. /\ Len(C) = n + 1 /\ DOMAIN C = 1 .. n + 1 /\ n \in Nat
      /\ \A k \in 0 .. n : C[k + 1] = CadreEn(s, b, k)
  BY Longueur
<1>2. ASSUME NEW i \in 1 .. n + 1
      PROVE  CadreEn(t, b, i - 1) = [C EXCEPT ![n + 1] = CadreEn(t, b, n)][i]
  <2>1. i - 1 \in 0 .. n /\ (i - 1) + 1 = i /\ (i = n + 1 => i - 1 = n) /\ (i # n + 1 => i - 1 \in 0 .. n - 1)
    BY <1>1
  <2>2. C[i] = CadreEn(s, b, i - 1)
    BY <1>1, <2>1
  <2>. HIDE DEF C, n
  <2>3. CASE i = n + 1
    BY <1>1, <2>1, <2>3
  <2>4. CASE i # n + 1
    BY <1>1, <2>1, <2>2, <2>4 DEF n
  <2>. QED BY <2>3, <2>4
<1>3. DOMAIN [C EXCEPT ![n + 1] = CadreEn(t, b, n)] = 1 .. n + 1
  BY <1>1
<1>. QED BY <1>1, <1>2, <1>3 DEF CadresEn

\* Frame m becomes the current one, those under it do not change.
LEMMA Garde ==
  ASSUME NEW b, NEW s, s.n \in Nat, NEW t, t.n \in 0 .. s.n, \A k \in 0 .. t.n - 1 : CadreEn(t, b, k) = CadreEn(s, b, k)
  PROVE  CadresEn(t, b) = Append(SubSeq(CadresEn(s, b), 1, t.n), CadreEn(t, b, t.n))
<1>. DEFINE C == CadresEn(s, b)
            c == CadreEn(t, b, t.n)
            W == Tous(s, b) \cup {c}
            m == t.n
            q == SubSeq(C, 1, m)
<1>1. /\ C \in Seq(W) /\ Len(C) = s.n + 1 /\ m \in Nat /\ m \in 0 .. s.n
      /\ \A k \in 0 .. s.n : C[k + 1] = CadreEn(s, b, k)
  BY Longueur
<1>2. c \in W
  OBVIOUS
<1>. HIDE DEF C, W, c
<1>3. q \in Seq(W) /\ Len(q) = m /\ \A i \in 1 .. m : q[i] = C[i]
  BY <1>1
<1>. HIDE DEF q
<1>4. /\ Append(q, c) \in Seq(W) /\ Len(Append(q, c)) = m + 1 /\ Append(q, c)[m + 1] = c
      /\ \A i \in 1 .. m : Append(q, c)[i] = C[i]
  BY <1>1, <1>2, <1>3
<1>5. ASSUME NEW i \in 1 .. m + 1 PROVE CadreEn(t, b, i - 1) = Append(q, c)[i]
  <2>1. CASE i = m + 1
    <3>1. i - 1 = m
      BY <1>1, <2>1
    <3>. QED BY <1>4, <2>1, <3>1 DEF c
  <2>2. CASE i # m + 1
    <3>1. i - 1 \in 0 .. m - 1 /\ i - 1 \in 0 .. s.n /\ (i - 1) + 1 = i /\ i \in 1 .. m
      BY <1>1, <2>2
    <3>. QED BY <1>1, <1>4, <3>1
  <2>. QED BY <2>1, <2>2
<1>6. Append(q, c) = [i \in 1 .. m + 1 |-> Append(q, c)[i]]
  <2>. DEFINE r == Append(q, c)
  <2>1. r \in Seq(W) /\ Len(r) = m + 1
    BY <1>4
  <2>. HIDE DEF r
  <2>2. r = [i \in 1 .. m + 1 |-> r[i]]
    BY <2>1
  <2>. QED BY <2>2 DEF r
<1>. QED BY <1>5, <1>6 DEF CadresEn, q, c, C

\* A call, that changes the frames under the new one.
LEMMA AjouteA ==
  ASSUME NEW b, NEW s, s.n \in Nat, NEW t, t.n = s.n + 1, NEW G, DOMAIN G = 1 .. s.n + 1,
         G = [i \in 1 .. s.n + 1 |-> CadreEn(t, b, i - 1)]
  PROVE  CadresEn(t, b) = Append(G, CadreEn(t, b, t.n))
<1>. DEFINE m == s.n + 1
            c == CadreEn(t, b, m)
            W == Tous(t, b)
<1>1. m \in Nat /\ \A i \in 1 .. m : i - 1 \in 0 .. t.n
  OBVIOUS
<1>2. G \in [1 .. m -> W] /\ c \in W
  BY <1>1 DEF Tous
<1>3. \A i \in 1 .. m : G[i] = CadreEn(t, b, i - 1)
  OBVIOUS
<1>. HIDE DEF W, m
<1>4. G \in Seq(W) /\ Len(G) = m
  BY <1>1, <1>2, SeqDef
<1>5. /\ Append(G, c) \in Seq(W) /\ Len(Append(G, c)) = m + 1 /\ Append(G, c)[m + 1] = c
      /\ \A i \in 1 .. m : Append(G, c)[i] = G[i]
  BY <1>1, <1>2, <1>4
<1>6. ASSUME NEW i \in 1 .. m + 1 PROVE CadreEn(t, b, i - 1) = Append(G, c)[i]
  <2>1. CASE i = m + 1
    BY <1>1, <1>5, <2>1
  <2>2. CASE i # m + 1
    <3>1. i \in 1 .. m
      BY <1>1, <2>2
    <3>. QED BY <1>3, <1>5, <3>1
  <2>. QED BY <2>1, <2>2
<1>7. Append(G, c) = [i \in 1 .. m + 1 |-> Append(G, c)[i]]
  <2>. DEFINE r == Append(G, c)
  <2>1. r \in Seq(W) /\ Len(r) = m + 1
    BY <1>5
  <2>. HIDE DEF r
  <2>2. r = [i \in 1 .. m + 1 |-> r[i]]
    BY <2>1
  <2>. QED BY <2>2 DEF r
<1>. QED BY <1>6, <1>7 DEF CadresEn, c, m

\* A call that changes the frame of the caller only.
LEMMA Ajoute ==
  ASSUME NEW b, NEW s, s.n \in Nat, NEW t, t.n = s.n + 1, \A k \in 0 .. s.n - 1 : CadreEn(t, b, k) = CadreEn(s, b, k)
  PROVE  CadresEn(t, b) = SubSeq(CadresEn(s, b), 1, Len(CadresEn(s, b)) - 1)
                          \o <<CadreEn(t, b, s.n), CadreEn(t, b, t.n)>>
<1>. DEFINE C == CadresEn(s, b)
            n == s.n
            c == CadreEn(t, b, n)
            d == CadreEn(t, b, t.n)
            W == Tous(s, b) \cup {c, d}
            q == SubSeq(C, 1, n)
            r == q \o <<c, d>>
<1>1. /\ C \in Seq(W) /\ Len(C) = n + 1 /\ n \in Nat /\ Len(C) - 1 = n
      /\ \A k \in 0 .. n : C[k + 1] = CadreEn(s, b, k)
  BY Longueur
<1>2. c \in W /\ d \in W
  OBVIOUS
<1>. HIDE DEF C, W, c, d
<1>3. q \in Seq(W) /\ Len(q) = n /\ \A i \in 1 .. n : q[i] = C[i]
  BY <1>1
<1>. HIDE DEF q
<1>8. <<c, d>> \in Seq(W) /\ Len(<<c, d>>) = 2 /\ <<c, d>>[1] = c /\ <<c, d>>[2] = d
  BY <1>2
<1>4. /\ r \in Seq(W) /\ Len(r) = n + 2 /\ r[n + 1] = c /\ r[n + 2] = d
      /\ \A i \in 1 .. n : r[i] = C[i]
  <2>. DEFINE z == <<c, d>>
  <2>1. z \in Seq(W) /\ Len(z) = 2 /\ z[1] = c /\ z[2] = d
    BY <1>8
  <2>. HIDE DEF z
  <2>5. /\ q \o z \in Seq(W) /\ Len(q \o z) = Len(q) + Len(z)
        /\ \A i \in 1 .. Len(q) + Len(z) : (q \o z)[i] = IF i <= Len(q) THEN q[i] ELSE z[i - Len(q)]
    BY <1>3, <2>1, ConcatProperties
  <2>2. q \o z \in Seq(W) /\ Len(q \o z) = n + 2
        /\ \A i \in 1 .. n + 2 : (q \o z)[i] = IF i <= n THEN q[i] ELSE z[i - n]
    BY <1>3, <2>1, <2>5
  <2>3. \A i \in 1 .. n : i \in 1 .. n + 2 /\ i <= n
    BY <1>1
  <2>4. n + 1 \in 1 .. n + 2 /\ n + 2 \in 1 .. n + 2 /\ ~ (n + 1 <= n) /\ ~ (n + 2 <= n)
        /\ (n + 1) - n = 1 /\ (n + 2) - n = 2
    BY <1>1
  <2>. QED BY <1>3, <2>1, <2>2, <2>3, <2>4, SMTT(20) DEF z
<1>. HIDE DEF r
<1>5. ASSUME NEW i \in 1 .. n + 2 PROVE CadreEn(t, b, i - 1) = r[i]
  <2>1. CASE i = n + 1
    <3>1. i - 1 = n
      BY <1>1, <2>1
    <3>. QED BY <1>4, <2>1, <3>1 DEF c
  <2>2. CASE i = n + 2
    <3>1. i - 1 = t.n
      BY <1>1, <2>2
    <3>. QED BY <1>4, <2>2, <3>1 DEF d
  <2>3. CASE i \in 1 .. n
    <3>1. i - 1 \in 0 .. n - 1 /\ i - 1 \in 0 .. n /\ (i - 1) + 1 = i
      BY <1>1, <2>3
    <3>. QED BY <1>1, <1>4, <2>3, <3>1
  <2>. QED BY <1>1, <2>1, <2>2, <2>3
<1>6. r = [i \in 1 .. n + 2 |-> r[i]]
  BY <1>1, <1>4
<1>7. t.n + 1 = n + 2
  BY <1>1
<1>. QED BY <1>1, <1>5, <1>6, <1>7 DEF CadresEn, r, q, c, d, C
-----------------------------------------------------------------------------
(* Expressions as a script sees them. *)

\* What a script sees is a value or a reference on a variable of its frame.
Vues == Simples \cup [zone : {"param", "locale"}, rang : Int]

\* An expression is seen value by value.
LEMMA VueSuite ==
  ASSUME NEW b, NEW s, NEW k, D(s, k) \in Nat, V(s, k, b) \in Nat, NEW p \in Seq(Vals)
  PROVE  /\ VueDe(s, b, k, p) \in Seq(Vues) /\ Len(VueDe(s, b, k, p)) = Len(p)
         /\ DOMAIN VueDe(s, b, k, p) = 1 .. Len(p)
         /\ \A i \in 1 .. Len(p) : VueDe(s, b, k, p)[i] = Vue(s, b, k, p[i])
         /\ \A v \in Vals : Vue(s, b, k, v) \in Vues
<1>. DEFINE q == VueDe(s, b, k, p)
            m == Len(p)
<1>1. \A v \in Vals : Vue(s, b, k, v) \in Vues
  <2>. SUFFICES ASSUME NEW v \in Vals PROVE Vue(s, b, k, v) \in Vues
    OBVIOUS
  <2>1. CASE v \in Refs
    <3>1. v.adr \in Nat
      BY <2>1, AppelsAssumption DEF Refs, Cellules
    <3>2. v.adr - D(s, k) + 1 \in Int /\ v.adr - V(s, k, b) \in Int
      BY <3>1
    <3>. QED BY <2>1, <3>2 DEF Vue, Vues
  <2>2. CASE v \notin Refs
    BY <2>2 DEF Vue, Vues, Vals
  <2>. QED BY <2>1, <2>2
<1>2. m \in Nat /\ DOMAIN p = 1 .. m /\ \A i \in 1 .. m : p[i] \in Vals
  OBVIOUS
<1>3. q = [i \in 1 .. m |-> Vue(s, b, k, p[i])]
  BY <1>2 DEF VueDe
<1>4. q \in [1 .. m -> Vues] /\ \A i \in 1 .. m : q[i] = Vue(s, b, k, p[i])
  BY <1>1, <1>2, <1>3
<1>. HIDE DEF q, m
<1>5. q \in Seq(Vues) /\ Len(q) = m
  BY <1>2, <1>4, SeqDef
<1>. QED BY <1>1, <1>4, <1>5 DEF q, m

\* One value more.
LEMMA VueAjout ==
  ASSUME NEW b, NEW s, NEW k, D(s, k) \in Nat, V(s, k, b) \in Nat, NEW p \in Seq(Vals), NEW v \in Vals
  PROVE  VueDe(s, b, k, Append(p, v)) = Append(VueDe(s, b, k, p), Vue(s, b, k, v))
<1>. DEFINE p2 == Append(p, v)
            q == VueDe(s, b, k, p)
            q2 == VueDe(s, b, k, p2)
            w == Vue(s, b, k, v)
<1>1. p2 \in Seq(Vals) /\ Len(p2) = Len(p) + 1 /\ p2[Len(p) + 1] = v /\ \A i \in 1 .. Len(p) : p2[i] = p[i]
      /\ Len(p) \in Nat
  OBVIOUS
<1>. HIDE DEF p2
<1>2. /\ q \in Seq(Vues) /\ Len(q) = Len(p) /\ \A i \in 1 .. Len(p) : q[i] = Vue(s, b, k, p[i])
      /\ w \in Vues
  BY VueSuite
<1>3. /\ q2 \in Seq(Vues) /\ Len(q2) = Len(p) + 1
      /\ \A i \in 1 .. Len(p) + 1 : q2[i] = Vue(s, b, k, p2[i])
  BY <1>1, VueSuite
<1>. HIDE DEF q, q2
<1>4. \A i \in 1 .. Len(p) : q2[i] = q[i]
  <2>. TAKE i \in 1 .. Len(p)
  <2>1. i \in 1 .. Len(p) + 1
    BY <1>1
  <2>. QED BY <1>1, <1>2, <1>3, <2>1
<1>5. q2[Len(p) + 1] = w
  BY <1>1, <1>3
<1>. HIDE DEF w
<1>6. q2 = Append(q, w)
  BY <1>1, <1>2, <1>3, <1>4, <1>5
<1>. QED BY <1>6 DEF q, q2, p2, w

\* The first values.
LEMMA VueDebut ==
  ASSUME NEW b, NEW s, NEW k, D(s, k) \in Nat, V(s, k, b) \in Nat, NEW p \in Seq(Vals), NEW j \in 0 .. Len(p)
  PROVE  VueDe(s, b, k, SubSeq(p, 1, j)) = SubSeq(VueDe(s, b, k, p), 1, j)
<1>. DEFINE p2 == SubSeq(p, 1, j)
            q == VueDe(s, b, k, p)
            q2 == VueDe(s, b, k, p2)
            q3 == SubSeq(q, 1, j)
<1>1. p2 \in Seq(Vals) /\ Len(p2) = j /\ \A i \in 1 .. j : p2[i] = p[i]
  OBVIOUS
<1>0. Len(p) \in Nat /\ j \in Nat /\ j <= Len(p)
  OBVIOUS
<1>. HIDE DEF p2
<1>2. q \in Seq(Vues) /\ Len(q) = Len(p) /\ \A i \in 1 .. Len(p) : q[i] = Vue(s, b, k, p[i])
  BY VueSuite
<1>3. q2 \in Seq(Vues) /\ Len(q2) = j /\ \A i \in 1 .. j : q2[i] = Vue(s, b, k, p2[i])
  BY <1>1, VueSuite
<1>. HIDE DEF q, q2
<1>4. q3 \in Seq(Vues) /\ Len(q3) = j /\ \A i \in 1 .. j : q3[i] = q[i]
  BY <1>0, <1>2
<1>. HIDE DEF q3
<1>5. \A i \in 1 .. j : i \in 1 .. Len(p)
  BY <1>0
<1>6. \A i \in 1 .. j : q2[i] = q3[i]
  BY <1>1, <1>2, <1>3, <1>4, <1>5
<1>7. q2 = q3
  BY <1>0, <1>3, <1>4, <1>6
<1>. QED BY <1>7 DEF q, q2, q3, p2

-----------------------------------------------------------------------------
(* Frames under the current one. *)

\* Frames are in order in PileF.
LEMMA Croissant ==
  ASSUME NEW b, NEW s, Bon(s, b), NEW k \in 0 .. s.n, NEW j \in 0 .. k
  PROVE  j \in 0 .. s.n /\ D(s, j) <= D(s, k)
<1>1. j \in 0 .. s.n /\ D(s, j) \in Nat /\ D(s, k) \in Nat /\ F(s, j) \in Nat /\ V(s, j, b) \in Nat
  BY Bornes
<1>2. CASE j = k
  BY <1>1, <1>2
<1>3. CASE j # k
  <2>1. j < k
    BY <1>1, <1>3
  <2>2. F(s, j) < D(s, k) /\ D(s, j) <= V(s, j, b) /\ V(s, j, b) <= F(s, j)
    BY <1>1, <2>1 DEF Bon, Ordonne
  <2>. QED BY <1>1, <2>2
<1>. QED BY <1>2, <1>3

\* The elements of Appel under m are the same, but for their This.
MemesAppels(s, t, m) ==
  \A k \in 0 .. m - 1 : /\ t.Appel[k].Instruction = s.Appel[k].Instruction
                        /\ t.Appel[k].lPile = s.Appel[k].lPile
                        /\ t.Appel[k].PosPileF = s.Appel[k].PosPileF
                        /\ t.Appel[k].nParams = s.Appel[k].nParams
                        /\ t.Appel[k].EnErreur = s.Appel[k].EnErreur

\* And the cells of PileF under frame m.
MemesCellules(s, t, m) == \A i \in Cellules : i < D(s, m) => t.PileF[i] = s.PileF[i]

\* Then the frames under m are the same, but for their "this".
LEMMA Dessous ==
  ASSUME NEW b, NEW s, Bon(s, b), NEW t, NEW m \in 0 .. s.n, t.n \in Nat, m <= t.n,
         MemesAppels(s, t, m), MemesCellules(s, t, m)
  PROVE  /\ \A k \in 0 .. m : D(t, k) = D(s, k) /\ V(t, k, b) = V(s, k, b)
         /\ \A k \in 0 .. m - 1 : F(t, k) = F(s, k)
         /\ \A k \in 0 .. m - 1 : \A h : CadreAvec(t, b, k, h) = CadreAvec(s, b, k, h)
<1>0. /\ s.n \in Nat /\ m \in Nat /\ Memoire \in Nat /\ m \in 0 .. s.n
      /\ D(s, m) \in Nat /\ D(s, m) <= Memoire
  <2>1. s.n \in Nat /\ Memoire \in Nat /\ s.l <= Memoire /\ s.l \in Nat /\ D(s, m) <= s.l /\ D(s, m) \in Nat
    BY Bornes
  <2>. QED BY <2>1
<1>1. \A k \in 0 .. m : D(t, k) = D(s, k) /\ V(t, k, b) = V(s, k, b)
  <2>. TAKE k \in 0 .. m
  <2>1. k # 0 => k - 1 \in 0 .. m - 1
    BY <1>0
  <2>. QED BY <2>1 DEF MemesAppels, D, V
<1>2. \A k \in 0 .. m - 1 : F(t, k) = F(s, k)
  <2>. TAKE k \in 0 .. m - 1
  <2>1. k # s.n /\ k # t.n
    BY <1>0
  <2>. QED BY <2>1 DEF MemesAppels, F
<1>3. ASSUME NEW k \in 0 .. m - 1, NEW h PROVE CadreAvec(t, b, k, h) = CadreAvec(s, b, k, h)
  <2>. DEFINE a == s.Appel[k]
  <2>1. /\ k \in 0 .. m /\ k \in 0 .. s.n /\ k < m /\ k # s.n /\ k # t.n /\ k + 1 \in 0 .. m /\ k + 1 # 0
        /\ (k + 1) - 1 = k /\ m \in 0 .. s.n
    BY <1>0
  <2>2. /\ D(s, k) \in Nat /\ V(s, k, b) \in Nat /\ F(s, k) \in Nat /\ F(s, k) < D(s, m)
        /\ V(s, k, b) <= F(s, k) /\ D(s, k) <= V(s, k, b)
    BY <2>1, Bornes DEF Bon, Ordonne
  <2>3. a.PosPileF + a.lPile <= D(s, m) /\ a.PosPileF \in Nat /\ a.lPile \in Nat
    <3>1. D(s, k + 1) <= D(s, m)
      BY <2>1, Croissant
    <3>2. D(s, k + 1) = a.PosPileF + a.lPile
      BY <2>1 DEF D
    <3>5. s \in Etats /\ s.n \in 0 .. NMAXAPPELS
      BY DEF Bon, Etats
    <3>3. k \in 0 .. NMAXAPPELS /\ s \in Etats
      BY <1>0, <2>1, <3>5, Bornes
    <3>4. a \in Elements
      BY <3>3 DEF Etats
    <3>. QED BY <3>1, <3>2, <3>4 DEF Elements
  <2>4. /\ t.Appel[k].Instruction = a.Instruction /\ t.Appel[k].lPile = a.lPile
        /\ t.Appel[k].PosPileF = a.PosPileF /\ t.Appel[k].EnErreur = a.EnErreur
    BY DEF MemesAppels
  <2>. HIDE DEF a
  <2>5. PileEn(t, k) = PileEn(s, k)
    <3>1. ASSUME NEW i \in 1 .. a.lPile PROVE t.PileF[a.PosPileF + i - 1] = s.PileF[a.PosPileF + i - 1]
      <4>1. a.PosPileF + i - 1 \in Cellules /\ a.PosPileF + i - 1 < D(s, m)
        BY <1>0, <2>3 DEF Cellules
      <4>. QED BY <4>1 DEF MemesCellules
    <3>. QED BY <2>1, <2>4, <3>1 DEF PileEn, a
  <2>6. VueDe(t, b, k, PileEn(t, k)) = VueDe(s, b, k, PileEn(s, k))
    BY <1>1, <2>1, <2>5 DEF VueDe, Vue
  <2>7. ParamsEn(t, b, k) = ParamsEn(s, b, k)
    <3>1. ASSUME NEW i \in 1 .. V(s, k, b) - D(s, k) PROVE t.PileF[D(s, k) + i - 1] = s.PileF[D(s, k) + i - 1]
      <4>1. D(s, k) + i - 1 \in Cellules /\ D(s, k) + i - 1 < D(s, m)
        BY <1>0, <2>2 DEF Cellules
      <4>. QED BY <4>1 DEF MemesCellules
    <3>. QED BY <1>1, <2>1, <3>1 DEF ParamsEn
  <2>8. LocalesEn(t, b, k) = LocalesEn(s, b, k)
    <3>1. ASSUME NEW n \in Locales, V(s, k, b) + n < F(s, k) PROVE t.PileF[V(s, k, b) + n] = s.PileF[V(s, k, b) + n]
      <4>0. n \in Nat
        BY AppelsAssumption
      <4>1. V(s, k, b) + n \in Cellules /\ V(s, k, b) + n < D(s, m)
        BY <1>0, <2>2, <3>1, <4>0 DEF Cellules
      <4>. QED BY <4>1 DEF MemesCellules
    <3>. QED BY <1>1, <1>2, <2>1, <3>1 DEF LocalesEn
  <2>9. InsEn(t, k) = InsEn(s, k) /\ t.Appel[k].EnErreur = s.Appel[k].EnErreur
    BY <2>1, <2>4 DEF InsEn, a
  <2>. QED BY <2>6, <2>7, <2>8, <2>9 DEF CadreAvec
<1>. QED BY <1>1, <1>2, <1>3
-----------------------------------------------------------------------------
(* The current frame. *)

AvecPile(c, q)       == [c EXCEPT !.pile = q]
AvecSuite(c, q, j)   == [c EXCEPT !.pile = q, !.ins = j]
AvecParams(c, q, f)  == [c EXCEPT !.pile = q, !.params = f]
AvecLocales(c, q, f) == [c EXCEPT !.pile = q, !.locales = f]
AvecThis(c, q, j)    == [c EXCEPT !.this = j, !.pile = q]
AvecGest(c, j)       == [c EXCEPT !.gest = j]

\* What is in a frame, and what it becomes.
LEMMA Champs ==
  ASSUME NEW p, NEW a, NEW o, NEW g, NEW h, NEW i, NEW c, c = UnCadre(p, a, o, g, h, i)
  PROVE  /\ c.pile = p /\ c.params = a /\ c.locales = o /\ c.gest = g /\ c.this = h /\ c.ins = i
         /\ \A q : AvecPile(c, q) = UnCadre(q, a, o, g, h, i)
         /\ \A q, j : AvecSuite(c, q, j) = UnCadre(q, a, o, g, h, j)
         /\ \A q, f : AvecParams(c, q, f) = UnCadre(q, f, o, g, h, i)
         /\ \A q, f : AvecLocales(c, q, f) = UnCadre(q, a, f, g, h, i)
         /\ \A q, j : AvecThis(c, q, j) = UnCadre(q, a, o, g, j, i)
         /\ \A j : AvecGest(c, j) = UnCadre(p, a, o, j, h, i)
<1>1. c.pile = p /\ c.params = a /\ c.locales = o /\ c.gest = g /\ c.this = h /\ c.ins = i
  BY DEF UnCadre
<1>2. \A q : AvecPile(c, q) = UnCadre(q, a, o, g, h, i)
  BY DEF UnCadre, AvecPile
<1>3. \A j : AvecGest(c, j) = UnCadre(p, a, o, j, h, i)
  BY DEF UnCadre, AvecGest
<1>4. \A q, j : AvecSuite(c, q, j) = UnCadre(q, a, o, g, h, j)
  <2>. TAKE q, j
  <2>. DEFINE d == [c EXCEPT !.pile = q]
  <2>1. d = UnCadre(q, a, o, g, h, i)
    BY DEF UnCadre
  <2>2. AvecSuite(c, q, j) = [d EXCEPT !.ins = j]
    BY DEF AvecSuite
  <2>. HIDE DEF d
  <2>3. [d EXCEPT !.ins = j] = UnCadre(q, a, o, g, h, j)
    BY <2>1 DEF UnCadre
  <2>. QED BY <2>2, <2>3
<1>5. \A q, f : AvecParams(c, q, f) = UnCadre(q, f, o, g, h, i)
  <2>. TAKE q, f
  <2>. DEFINE d == [c EXCEPT !.pile = q]
  <2>1. d = UnCadre(q, a, o, g, h, i)
    BY DEF UnCadre
  <2>2. AvecParams(c, q, f) = [d EXCEPT !.params = f]
    BY DEF AvecParams
  <2>. HIDE DEF d
  <2>3. [d EXCEPT !.params = f] = UnCadre(q, f, o, g, h, i)
    BY <2>1 DEF UnCadre
  <2>. QED BY <2>2, <2>3
<1>6. \A q, f : AvecLocales(c, q, f) = UnCadre(q, a, f, g, h, i)
  <2>. TAKE q, f
  <2>. DEFINE d == [c EXCEPT !.pile = q]
  <2>1. d = UnCadre(q, a, o, g, h, i)
    BY DEF UnCadre
  <2>2. AvecLocales(c, q, f) = [d EXCEPT !.locales = f]
    BY DEF AvecLocales
  <2>. HIDE DEF d
  <2>3. [d EXCEPT !.locales = f] = UnCadre(q, a, f, g, h, i)
    BY <2>1 DEF UnCadre
  <2>. QED BY <2>2, <2>3
<1>7. \A q, j : AvecThis(c, q, j) = UnCadre(q, a, o, g, j, i)
  <2>. TAKE q, j
  <2>. DEFINE d == [c EXCEPT !.this = j]
  <2>1. d = UnCadre(p, a, o, g, j, i)
    BY DEF UnCadre
  <2>2. AvecThis(c, q, j) = [d EXCEPT !.pile = q]
    BY DEF AvecThis
  <2>. HIDE DEF d
  <2>3. [d EXCEPT !.pile = q] = UnCadre(q, a, o, g, j, i)
    BY <2>1 DEF UnCadre
  <2>. QED BY <2>2, <2>3
<1>. QED BY <1>1, <1>2, <1>3, <1>4, <1>5, <1>6, <1>7

\* Its "this" is This, its expression Pile.
LEMMA Actuel ==
  ASSUME NEW b, NEW s, s.n \in Nat
  PROVE  /\ ThisEn(s, s.n) = s.This
         /\ CadreEn(s, b, s.n) = UnCadre(VueDe(s, b, s.n, s.Pile), ParamsEn(s, b, s.n), LocalesEn(s, b, s.n),
                                         s.Appel[s.n].EnErreur, s.This, s.Ins)
<1>1. ThisEn(s, s.n) = s.This
  <2>1. s.n .. s.n - 1 = {}
    OBVIOUS
  <2>. QED BY <2>1 DEF ThisEn
<1>2. PileEn(s, s.n) = s.Pile /\ InsEn(s, s.n) = s.Ins
  BY DEF PileEn, InsEn
<1>. QED BY <1>1, <1>2 DEF CadreEn, CadreAvec

\* A step that leaves the calls in progress as they are.
LEMMA SurPlace ==
  ASSUME NEW b, NEW s, Bon(s, b), NEW t, t.n = s.n, t.This = s.This,
         \A k \in 0 .. s.n - 1 : t.Appel[k] = s.Appel[k], MemesCellules(s, t, s.n)
  PROVE  /\ CadresEn(t, b) = [CadresEn(s, b) EXCEPT ![Len(CadresEn(s, b))] = CadreEn(t, b, s.n)]
         /\ D(t, s.n) = D(s, s.n) /\ V(t, s.n, b) = V(s, s.n, b)
         /\ \A p : VueDe(t, b, s.n, p) = VueDe(s, b, s.n, p)
<1>1. s.n \in Nat /\ s.n \in 0 .. s.n
  BY Bornes
<1>2. MemesAppels(s, t, s.n)
  BY DEF MemesAppels
<1>3. /\ D(t, s.n) = D(s, s.n) /\ V(t, s.n, b) = V(s, s.n, b)
      /\ \A k \in 0 .. s.n - 1 : \A h : CadreAvec(t, b, k, h) = CadreAvec(s, b, k, h)
  <2>. DEFINE m == s.n
  <2>1. m \in 0 .. s.n /\ t.n \in Nat /\ m <= t.n /\ MemesAppels(s, t, m) /\ MemesCellules(s, t, m) /\ m \in 0 .. m
    BY <1>1, <1>2
  <2>. HIDE DEF m
  <2>2. /\ \A k \in 0 .. m : D(t, k) = D(s, k) /\ V(t, k, b) = V(s, k, b)
        /\ \A k \in 0 .. m - 1 : \A h : CadreAvec(t, b, k, h) = CadreAvec(s, b, k, h)
    BY <2>1, Dessous
  <2>. QED BY <2>1, <2>2 DEF m
<1>4. ASSUME NEW k \in 0 .. s.n - 1 PROVE ThisEn(t, k) = ThisEn(s, k)
  <2>1. \A a \in k .. s.n - 1 : a \in 0 .. s.n - 1
    BY <1>1
  <2>2. {a \in k .. t.n - 1 : t.Appel[a].This # Nul} = {a \in k .. s.n - 1 : s.Appel[a].This # Nul}
    BY <2>1
  <2>. DEFINE g == {a \in k .. s.n - 1 : s.Appel[a].This # Nul}
  <2>3. CASE g = {}
    BY <2>2, <2>3 DEF ThisEn
  <2>4. CASE g # {}
    <3>1. g \in SUBSET (0 .. s.n) /\ g \in SUBSET (0 .. s.n - 1) /\ g \in SUBSET Nat
      BY <1>1, <2>1
    <3>2. \E x \in g : \A y \in g : x <= y
      <4>. HIDE DEF g
      <4>. QED BY <2>4, <3>1, PlusPetit
    <3>3. Min(g) \in g
      BY <3>2 DEF Min
    <3>4. t.Appel[Min(g)] = s.Appel[Min(g)]
      <4>. HIDE DEF g
      <4>. QED BY <3>1, <3>3
    <3>. QED BY <2>2, <2>4, <3>4 DEF ThisEn
  <2>. QED BY <2>3, <2>4
<1>5. \A k \in 0 .. s.n - 1 : CadreEn(t, b, k) = CadreEn(s, b, k)
  BY <1>3, <1>4 DEF CadreEn
<1>6. CadresEn(t, b) = [CadresEn(s, b) EXCEPT ![Len(CadresEn(s, b))] = CadreEn(t, b, t.n)]
  BY <1>1, <1>5, Remplace
<1>. QED BY <1>3, <1>6 DEF VueDe, Vue

\* PileF up to m: the new variables are INCONNU, as those that had no cell.
LEMMA VariablesAgrandies ==
  ASSUME NEW b, NEW s, Bon(s, b), NEW m \in s.l .. Memoire, NEW t, t.n = s.n, t.PileF = s.PileF, t.l = m,
         D(t, s.n) = D(s, s.n), V(t, s.n, b) = V(s, s.n, b)
  PROVE  ParamsEn(t, b, s.n) = ParamsEn(s, b, s.n) /\ LocalesEn(t, b, s.n) = LocalesEn(s, b, s.n)
<1>1. /\ s.l \in Nat /\ Memoire \in Nat /\ m \in Nat /\ s.l <= m /\ m <= Memoire
      /\ V(s, s.n, b) \in Nat /\ F(s, s.n) = s.l /\ F(t, s.n) = m
  <2>1. s.n \in 0 .. s.n /\ s.l \in Nat /\ Memoire \in Nat
    BY Bornes
  <2>. QED BY <2>1, Bornes DEF F
<1>2. ASSUME NEW n \in Locales
      PROVE  (IF V(s, s.n, b) + n < m THEN s.PileF[V(s, s.n, b) + n] ELSE Inconnu)
             = IF V(s, s.n, b) + n < s.l THEN s.PileF[V(s, s.n, b) + n] ELSE Inconnu
  <2>0. n \in Nat
    BY AppelsAssumption
  <2>1. CASE V(s, s.n, b) + n >= s.l /\ V(s, s.n, b) + n < m
    <3>1. V(s, s.n, b) + n \in Cellules
      BY <1>1, <2>0, <2>1 DEF Cellules
    <3>2. s.PileF[V(s, s.n, b) + n] = Inconnu
      BY <2>1, <3>1 DEF Bon, Propre
    <3>. QED BY <1>1, <2>0, <2>1, <3>2
  <2>. QED BY <1>1, <2>0, <2>1
<1>3. LocalesEn(t, b, s.n) = LocalesEn(s, b, s.n)
  BY <1>1, <1>2 DEF LocalesEn
<1>. QED BY <1>3 DEF ParamsEn

\* A value more on the expression, and PileF up to m.
LEMMA CadreEmpile ==
  ASSUME NEW b, NEW s, Bon(s, b), NEW m \in s.l .. Memoire, NEW v \in Vals
  PROVE  CadresEn(Empilee(s, v, m), b)
         = [CadresEn(s, b) EXCEPT ![Len(CadresEn(s, b))] =
              AvecPile(CadreEn(s, b, s.n), Append(CadreEn(s, b, s.n).pile, Vue(s, b, s.n, v)))]
<1>. DEFINE t == Empilee(s, v, m)
            n == s.n
            q == VueDe(s, b, n, s.Pile)
<1>1. /\ t.n = n /\ t.This = s.This /\ t.Appel = s.Appel /\ t.PileF = s.PileF /\ t.l = m /\ t.Ins = s.Ins
      /\ t.Pile = Append(s.Pile, v)
  BY DEF Empilee
<1>. HIDE DEF t
<1>2. /\ CadresEn(t, b) = [CadresEn(s, b) EXCEPT ![Len(CadresEn(s, b))] = CadreEn(t, b, n)]
      /\ D(t, n) = D(s, n) /\ V(t, n, b) = V(s, n, b)
      /\ VueDe(t, b, n, t.Pile) = VueDe(s, b, n, t.Pile)
  <2>1. MemesCellules(s, t, s.n) /\ \A k \in 0 .. s.n - 1 : t.Appel[k] = s.Appel[k]
    BY <1>1 DEF MemesCellules
  <2>. QED BY <1>1, <2>1, SurPlace, SMTT(20)
<1>3. ParamsEn(t, b, n) = ParamsEn(s, b, n) /\ LocalesEn(t, b, n) = LocalesEn(s, b, n)
  BY <1>1, <1>2, VariablesAgrandies
<1>4. n \in Nat /\ n \in 0 .. s.n /\ D(s, n) \in Nat /\ V(s, n, b) \in Nat /\ s.Pile \in Seq(Vals)
  BY Bornes DEF Bon, Etats
<1>5. VueDe(s, b, n, t.Pile) = Append(q, Vue(s, b, n, v))
  BY <1>1, <1>4, VueAjout
<1>6. CadreEn(s, b, n) = UnCadre(q, ParamsEn(s, b, n), LocalesEn(s, b, n), s.Appel[n].EnErreur, s.This, s.Ins)
  BY <1>4, Actuel
<1>7. CadreEn(t, b, n) = UnCadre(Append(q, Vue(s, b, n, v)), ParamsEn(s, b, n), LocalesEn(s, b, n),
                                 s.Appel[n].EnErreur, s.This, s.Ins)
  BY <1>1, <1>2, <1>3, <1>4, <1>5, Actuel, ZenonT(40)
<1>. HIDE DEF q, n
<1>8. CadreEn(t, b, n) = AvecPile(CadreEn(s, b, n), Append(CadreEn(s, b, n).pile, Vue(s, b, n, v)))
  BY <1>6, <1>7, Champs
<1>. QED BY <1>2, <1>8 DEF t, n

\* Another expression, and another place in the code.
LEMMA CadreSuite ==
  ASSUME NEW b, NEW s, Bon(s, b), NEW p, NEW c
  PROVE  CadresEn(Suite(s, p, c), b)
         = [CadresEn(s, b) EXCEPT ![Len(CadresEn(s, b))] =
              AvecSuite(CadreEn(s, b, s.n), VueDe(s, b, s.n, p), c)]
<1>. DEFINE t == Suite(s, p, c)
            n == s.n
<1>1. /\ t.n = n /\ t.This = s.This /\ t.Appel = s.Appel /\ t.PileF = s.PileF /\ t.l = s.l /\ t.Ins = c
      /\ t.Pile = p
  BY DEF Suite
<1>. HIDE DEF t
<1>2. /\ CadresEn(t, b) = [CadresEn(s, b) EXCEPT ![Len(CadresEn(s, b))] = CadreEn(t, b, n)]
      /\ D(t, n) = D(s, n) /\ V(t, n, b) = V(s, n, b)
      /\ VueDe(t, b, n, p) = VueDe(s, b, n, p)
  <2>1. MemesCellules(s, t, s.n) /\ \A k \in 0 .. s.n - 1 : t.Appel[k] = s.Appel[k]
    BY <1>1 DEF MemesCellules
  <2>. QED BY <1>1, <2>1, SurPlace
<1>4. n \in Nat /\ s.l \in s.l .. Memoire
  BY Bornes
<1>3. ParamsEn(t, b, n) = ParamsEn(s, b, n) /\ LocalesEn(t, b, n) = LocalesEn(s, b, n)
  BY <1>1, <1>2, <1>4, VariablesAgrandies
<1>6. CadreEn(s, b, n) = UnCadre(VueDe(s, b, n, s.Pile), ParamsEn(s, b, n), LocalesEn(s, b, n),
                                 s.Appel[n].EnErreur, s.This, s.Ins)
  BY <1>4, Actuel
<1>7. CadreEn(t, b, n) = UnCadre(VueDe(s, b, n, p), ParamsEn(s, b, n), LocalesEn(s, b, n),
                                 s.Appel[n].EnErreur, s.This, c)
  <2>1. CadreEn(t, b, t.n) = UnCadre(VueDe(t, b, t.n, t.Pile), ParamsEn(t, b, t.n), LocalesEn(t, b, t.n),
                                     t.Appel[t.n].EnErreur, t.This, t.Ins)
    BY <1>1, <1>4, Actuel
  <2>. QED BY <1>1, <1>2, <1>3, <2>1
<1>. HIDE DEF n
<1>8. CadreEn(t, b, n) = AvecSuite(CadreEn(s, b, n), VueDe(s, b, n, p), c)
  BY <1>6, <1>7, Champs
<1>. QED BY <1>2, <1>8 DEF t, n

\* A handler.
LEMMA CadreGestion ==
  ASSUME NEW b, NEW s, Bon(s, b), NEW h, NEW t, t.n = s.n, t.This = s.This, t.PileF = s.PileF, t.l = s.l,
         t.Ins = s.Ins, t.Pile = s.Pile, t.Appel[s.n].EnErreur = h,
         \A k \in 0 .. s.n - 1 : t.Appel[k] = s.Appel[k]
  PROVE  CadresEn(t, b) = [CadresEn(s, b) EXCEPT ![Len(CadresEn(s, b))] = AvecGest(CadreEn(s, b, s.n), h)]
<1>. DEFINE n == s.n
<1>1. n \in Nat
  BY Bornes
<1>6. /\ CadresEn(t, b) = [CadresEn(s, b) EXCEPT ![Len(CadresEn(s, b))] = CadreEn(t, b, n)]
      /\ D(t, n) = D(s, n) /\ V(t, n, b) = V(s, n, b)
      /\ VueDe(t, b, n, t.Pile) = VueDe(s, b, n, t.Pile)
  <2>1. MemesCellules(s, t, s.n)
    BY DEF MemesCellules
  <2>. QED BY <2>1, SurPlace
<1>7. ParamsEn(t, b, n) = ParamsEn(s, b, n) /\ LocalesEn(t, b, n) = LocalesEn(s, b, n)
  <2>1. s.l \in s.l .. Memoire
    BY Bornes
  <2>. QED BY <1>6, <2>1, VariablesAgrandies
<1>8. CadreEn(s, b, n) = UnCadre(VueDe(s, b, n, s.Pile), ParamsEn(s, b, n), LocalesEn(s, b, n),
                                 s.Appel[n].EnErreur, s.This, s.Ins)
  BY <1>1, Actuel
<1>9. CadreEn(t, b, n) = UnCadre(VueDe(s, b, n, s.Pile), ParamsEn(s, b, n), LocalesEn(s, b, n), h, s.This, s.Ins)
  <2>1. CadreEn(t, b, t.n) = UnCadre(VueDe(t, b, t.n, t.Pile), ParamsEn(t, b, t.n), LocalesEn(t, b, t.n),
                                     t.Appel[t.n].EnErreur, t.This, t.Ins)
    BY <1>1, Actuel
  <2>. QED BY <1>6, <1>7, <2>1
<1>. HIDE DEF n
<1>10. CadreEn(t, b, n) = AvecGest(CadreEn(s, b, n), h)
  BY <1>8, <1>9, Champs
<1>. QED BY <1>6, <1>10 DEF n

\* The current frame with v in the variable at a, and another expression.
Affecte(s, b, a, v, p) ==
  IF a < V(s, s.n, b)
  THEN AvecParams(CadreEn(s, b, s.n), VueDe(s, b, s.n, p), [CadreEn(s, b, s.n).params EXCEPT ![a - D(s, s.n) + 1] = v])
  ELSE AvecLocales(CadreEn(s, b, s.n), VueDe(s, b, s.n, p),
                   [CadreEn(s, b, s.n).locales EXCEPT ![a - V(s, s.n, b)] = v])

\* The cell at a is written.
Ecrite(s, t, a, v) == t.PileF = [s.PileF EXCEPT ![a] = v]

\* A value in a variable of the current frame.
LEMMA CadreAffecte ==
  ASSUME NEW b, NEW s, Bon(s, b), NEW a \in D(s, s.n) .. s.l - 1, NEW v, NEW p, NEW t, t.n = s.n, t.This = s.This,
         t.Appel = s.Appel, t.l = s.l, Ecrite(s, t, a, v), t.Ins = s.Ins, t.Pile = p
  PROVE  CadresEn(t, b) = [CadresEn(s, b) EXCEPT ![Len(CadresEn(s, b))] = Affecte(s, b, a, v, p)]
<1>. DEFINE n == s.n
            Dn == D(s, n)
            Vn == V(s, n, b)
<1>1. /\ n \in Nat /\ Dn \in Nat /\ Vn \in Nat /\ Dn <= Vn /\ Vn <= s.l /\ s.l \in Nat /\ s.l <= Memoire
      /\ Memoire \in Nat /\ a \in Nat /\ Dn <= a /\ a < s.l /\ s.PileF \in [Cellules -> Vals]
      /\ F(s, n) = s.l /\ F(t, n) = s.l
  <2>1. n \in 0 .. s.n /\ n \in Nat
    BY Bornes
  <2>2. F(s, n) = s.l /\ F(t, n) = s.l /\ s.PileF \in [Cellules -> Vals]
    BY DEF F, Bon, Etats
  <2>3. Dn \in Nat /\ Vn \in Nat /\ s.l \in Nat /\ s.l <= Memoire /\ Memoire \in Nat /\ Dn <= Vn /\ Vn <= F(s, n)
    BY <2>1, Bornes DEF Bon, Ordonne
  <2>. QED BY <2>1, <2>2, <2>3
<1>2. \A i \in Cellules : t.PileF[i] = IF i = a THEN v ELSE s.PileF[i]
  BY <1>1 DEF Ecrite
<1>3. /\ CadresEn(t, b) = [CadresEn(s, b) EXCEPT ![Len(CadresEn(s, b))] = CadreEn(t, b, n)]
      /\ D(t, n) = Dn /\ V(t, n, b) = Vn
      /\ VueDe(t, b, n, t.Pile) = VueDe(s, b, n, t.Pile)
  <2>1. MemesCellules(s, t, s.n) /\ \A k \in 0 .. s.n - 1 : t.Appel[k] = s.Appel[k]
    BY <1>1, <1>2 DEF MemesCellules, Cellules
  <2>. HIDE DEF n
  <2>3. /\ CadresEn(t, b) = [CadresEn(s, b) EXCEPT ![Len(CadresEn(s, b))] = CadreEn(t, b, s.n)]
        /\ D(t, s.n) = D(s, s.n) /\ V(t, s.n, b) = V(s, s.n, b)
        /\ \A q : VueDe(t, b, s.n, q) = VueDe(s, b, s.n, q)
    BY <2>1, SurPlace
  <2>. QED BY <2>3 DEF n
<1>4. CadreEn(s, b, n) = UnCadre(VueDe(s, b, n, s.Pile), ParamsEn(s, b, n), LocalesEn(s, b, n),
                                 s.Appel[n].EnErreur, s.This, s.Ins)
  BY <1>1, Actuel
<1>5. CadreEn(t, b, n) = UnCadre(VueDe(s, b, n, p), ParamsEn(t, b, n), LocalesEn(t, b, n),
                                 s.Appel[n].EnErreur, s.This, s.Ins)
  <2>1. CadreEn(t, b, t.n) = UnCadre(VueDe(t, b, t.n, t.Pile), ParamsEn(t, b, t.n), LocalesEn(t, b, t.n),
                                     t.Appel[t.n].EnErreur, t.This, t.Ins)
    BY <1>1, Actuel
  <2>. QED BY <1>3, <2>1
<1>6. /\ CadreEn(s, b, n).params = ParamsEn(s, b, n) /\ CadreEn(s, b, n).locales = LocalesEn(s, b, n)
      /\ \A q, f : AvecParams(CadreEn(s, b, n), q, f)
                   = UnCadre(q, f, LocalesEn(s, b, n), s.Appel[n].EnErreur, s.This, s.Ins)
      /\ \A q, f : AvecLocales(CadreEn(s, b, n), q, f)
                   = UnCadre(q, ParamsEn(s, b, n), f, s.Appel[n].EnErreur, s.This, s.Ins)
  BY <1>4, Champs
<1>7. /\ ParamsEn(s, b, n) = [i \in 1 .. Vn - Dn |-> s.PileF[Dn + i - 1]]
      /\ ParamsEn(t, b, n) = [i \in 1 .. Vn - Dn |-> t.PileF[Dn + i - 1]]
      /\ LocalesEn(s, b, n) = [j \in Locales |-> IF Vn + j < s.l THEN s.PileF[Vn + j] ELSE Inconnu]
      /\ LocalesEn(t, b, n) = [j \in Locales |-> IF Vn + j < s.l THEN t.PileF[Vn + j] ELSE Inconnu]
  BY <1>1, <1>3 DEF ParamsEn, LocalesEn
<1>. HIDE DEF n, Dn, Vn
<1>8. CASE a < Vn
  <2>1. LocalesEn(t, b, n) = LocalesEn(s, b, n)
    <3>1. ASSUME NEW j \in Locales, Vn + j < s.l PROVE t.PileF[Vn + j] = s.PileF[Vn + j]
      <4>1. j \in Nat
        BY AppelsAssumption
      <4>2. Vn + j \in Cellules /\ Vn + j # a
        BY <1>1, <1>8, <3>1, <4>1 DEF Cellules
      <4>. QED BY <1>2, <4>2
    <3>. QED BY <1>7, <3>1
  <2>2. ParamsEn(t, b, n) = [ParamsEn(s, b, n) EXCEPT ![a - Dn + 1] = v]
    <3>1. ASSUME NEW i \in 1 .. Vn - Dn
          PROVE  t.PileF[Dn + i - 1] = IF i = a - Dn + 1 THEN v ELSE s.PileF[Dn + i - 1]
      <4>1. Dn + i - 1 \in Cellules /\ (Dn + i - 1 = a <=> i = a - Dn + 1)
        BY <1>1 DEF Cellules
      <4>. QED BY <1>2, <4>1
    <3>. DEFINE f == ParamsEn(s, b, n)
                g == [f EXCEPT ![a - Dn + 1] = v]
    <3>2. DOMAIN f = 1 .. Vn - Dn /\ \A i \in 1 .. Vn - Dn : f[i] = s.PileF[Dn + i - 1]
      BY <1>7
    <3>. HIDE DEF f
    <3>3. g = [i \in 1 .. Vn - Dn |-> IF i = a - Dn + 1 THEN v ELSE f[i]]
      BY <3>2
    <3>. HIDE DEF g
    <3>4. g = ParamsEn(t, b, n)
      BY <1>7, <3>1, <3>2, <3>3
    <3>. QED BY <3>4 DEF f, g
  <2>3. CadreEn(t, b, n) = AvecParams(CadreEn(s, b, n), VueDe(s, b, n, p),
                             [CadreEn(s, b, n).params EXCEPT ![a - Dn + 1] = v])
    BY <1>5, <1>6, <2>1, <2>2
  <2>. QED BY <1>3, <1>8, <2>3 DEF n, Dn, Vn, Affecte
<1>9. CASE ~ (a < Vn)
  <2>1. ParamsEn(t, b, n) = ParamsEn(s, b, n)
    <3>1. ASSUME NEW i \in 1 .. Vn - Dn PROVE t.PileF[Dn + i - 1] = s.PileF[Dn + i - 1]
      <4>1. Dn + i - 1 \in Cellules /\ Dn + i - 1 # a
        BY <1>1, <1>9 DEF Cellules
      <4>. QED BY <1>2, <4>1
    <3>. QED BY <1>7, <3>1
  <2>2. LocalesEn(t, b, n) = [LocalesEn(s, b, n) EXCEPT ![a - Vn] = v]
    <3>1. ASSUME NEW j \in Locales
          PROVE  (IF Vn + j < s.l THEN t.PileF[Vn + j] ELSE Inconnu)
                 = IF j = a - Vn THEN v ELSE IF Vn + j < s.l THEN s.PileF[Vn + j] ELSE Inconnu
      <4>1. j \in Nat /\ (j = a - Vn <=> Vn + j = a) /\ (Vn + j < s.l => Vn + j \in Cellules)
        BY <1>1, AppelsAssumption DEF Cellules
      <4>. QED BY <1>1, <1>2, <4>1
    <3>. DEFINE f == LocalesEn(s, b, n)
                g == [f EXCEPT ![a - Vn] = v]
    <3>2. DOMAIN f = Locales /\ \A j \in Locales : f[j] = IF Vn + j < s.l THEN s.PileF[Vn + j] ELSE Inconnu
      BY <1>7
    <3>. HIDE DEF f
    <3>3. g = [j \in Locales |-> IF j = a - Vn THEN v ELSE f[j]]
      BY <3>2
    <3>. HIDE DEF g
    <3>4. g = LocalesEn(t, b, n)
      BY <1>7, <3>1, <3>2, <3>3
    <3>. QED BY <3>4 DEF f, g
  <2>3. CadreEn(t, b, n) = AvecLocales(CadreEn(s, b, n), VueDe(s, b, n, p),
                             [CadreEn(s, b, n).locales EXCEPT ![a - Vn] = v])
    BY <1>5, <1>6, <2>1, <2>2
  <2>. QED BY <1>3, <1>9, <2>3 DEF n, Dn, Vn, Affecte
<1>. QED BY <1>8, <1>9

-----------------------------------------------------------------------------
(* The instructions that stay in the current function, seen by a script. *)

\* The current frame of Cadres.
LEMMA Devant ==
  ASSUME Inv
  PROVE  /\ nAppels \in Nat /\ nAppels \in 0 .. nAppels /\ Etat.n = nAppels /\ Bon(Etat, BasenParams)
         /\ AbsCadres!cadre = CadreEn(Etat, BasenParams, nAppels)
         /\ CadresAbs = CadresEn(Etat, BasenParams)
         /\ AbsCadres!cadre = UnCadre(VueDe(Etat, BasenParams, nAppels, Pile), ParamsEn(Etat, BasenParams, nAppels),
                                      LocalesEn(Etat, BasenParams, nAppels), Appel[nAppels].EnErreur, This, Ins)
<1>1. /\ nAppels \in Nat /\ nAppels \in 0 .. nAppels /\ Etat.n = nAppels /\ Bon(Etat, BasenParams)
      /\ Etat.Pile = Pile /\ Etat.Appel = Appel /\ Etat.This = This /\ Etat.Ins = Ins
  BY Lecture DEF Inv
<1>2. CadresAbs = CadresEn(Etat, BasenParams)
  BY Image
<1>3. AbsCadres!cadre = CadreEn(Etat, BasenParams, Etat.n)
  BY <1>1, <1>2, Courant DEF AbsCadres!cadre
<1>. HIDE DEF Etat
<1>4. CadreEn(Etat, BasenParams, Etat.n)
      = UnCadre(VueDe(Etat, BasenParams, Etat.n, Etat.Pile), ParamsEn(Etat, BasenParams, Etat.n),
                LocalesEn(Etat, BasenParams, Etat.n), Etat.Appel[Etat.n].EnErreur, Etat.This, Etat.Ins)
  BY <1>1, Actuel
<1>. QED BY <1>1, <1>2, <1>3, <1>4

\* A value that is no reference is seen as it is.
LEMMA VueSimple ==
  ASSUME NEW b, NEW s, NEW k, NEW v \in Simples
  PROVE  Vue(s, b, k, v) = v
BY AppelsAssumption DEF Vue

\* One value more.
LEMMA EmpileAbstrait ==
  ASSUME Inv, NEW v \in Vals, Empiler(v), UNCHANGED <<PileF, appels, Ins>>, l' \in l .. Memoire
  PROVE  AbsCadres!Empiler(Vue(Etat, BasenParams, nAppels, v))
<1>1. Etat' = Empilee(Etat, v, l') /\ BasenParams' = BasenParams
  <2>1. /\ Pile' = Append(Pile, v) /\ PileF' = PileF /\ Appel' = Appel /\ nAppels' = nAppels
        /\ DebutParam' = DebutParam /\ DebutVarLoc' = DebutVarLoc /\ BasenParams' = BasenParams
        /\ Ins' = Ins /\ This' = This
    BY DEF Empiler, appels
  <2>. QED BY <2>1 DEF Etat, Empilee
<1>2. Etat.n = nAppels /\ Etat.l = l /\ Bon(Etat, BasenParams)
  BY Lecture DEF Inv
<1>3. CadresAbs' = CadresEn(Empilee(Etat, v, l'), BasenParams)
  BY <1>1, Image
<1>. HIDE DEF Etat
<1>. DEFINE C == CadresEn(Etat, BasenParams)
            c == CadreEn(Etat, BasenParams, nAppels)
            w == Append(c.pile, Vue(Etat, BasenParams, nAppels, v))
<1>4. CadresEn(Empilee(Etat, v, l'), BasenParams) = [C EXCEPT ![Len(C)] = AvecPile(c, w)]
  BY <1>2, CadreEmpile
<1>5. CadresAbs = C /\ AbsCadres!cadre = c
  BY Devant
<1>. HIDE DEF C, c
<1>. QED BY <1>3, <1>4, <1>5 DEF AbsCadres!Empiler, AbsCadres!Remplacer, AvecPile

\* A constant is on top of the expression.
LEMMA ConstanteAbstraite == ASSUME Inv, Constante PROVE AbsCadres!Calculer
<1>1. PICK v \in Valeurs \cup Objets \cup {Marque} : Empiler(v) /\ UNCHANGED <<memoire, appels, Ins>>
  BY DEF Constante
<1>2. v \in Simples /\ v \in Vals
  BY DEF Simples, Vals
<1>3. l' \in l .. Memoire /\ UNCHANGED <<PileF, appels, Ins>>
  BY <1>1, Lecture, AppelsAssumption DEF memoire
<1>4. AbsCadres!Empiler(v)
  BY <1>1, <1>2, <1>3, EmpileAbstrait, VueSimple
<1>. QED BY <1>4 DEF AbsCadres!Calculer

\* A variable as the script names it is that of the frame, that may have no
\* cell yet.
LEMMA LuLocale ==
  ASSUME Inv, NEW n \in Locales, DebutVarLoc + n < Memoire
  PROVE  /\ AbsCadres!cadre.locales[n] = PileF[DebutVarLoc + n]
         /\ PileF[DebutVarLoc + n] \in Simples
<1>1. n \in Nat /\ DebutVarLoc \in Nat /\ DebutParam \in Nat /\ DebutParam <= DebutVarLoc /\ Memoire \in Nat /\ l \in Nat
  BY Lecture, AppelsAssumption
<1>2. AbsCadres!cadre.locales = LocalesEn(Etat, BasenParams, nAppels)
  BY Devant, Champs
<1>3. V(Etat, nAppels, BasenParams) = DebutVarLoc /\ F(Etat, nAppels) = l /\ Etat.PileF = PileF
      /\ Etat.n = nAppels /\ Etat.l = l
  BY Lecture DEF F
<1>4. LocalesEn(Etat, BasenParams, nAppels)[n] = IF DebutVarLoc + n < l THEN PileF[DebutVarLoc + n] ELSE Inconnu
  BY <1>3 DEF LocalesEn
<1>5. CASE DebutVarLoc + n < l
  <2>1. DebutVarLoc + n \in DebutParam .. l - 1
    BY <1>1, <1>5
  <2>. QED BY <1>2, <1>4, <1>5, <2>1, Lecture
<1>6. CASE ~ (DebutVarLoc + n < l)
  <2>1. DebutVarLoc + n \in Cellules /\ DebutVarLoc + n >= l
    BY <1>1, <1>6 DEF Cellules
  <2>2. PileF[DebutVarLoc + n] = Inconnu
    BY <1>3, <2>1 DEF Inv, Bon, Propre
  <2>. QED BY <1>2, <1>4, <1>6, <2>2 DEF Simples
<1>. QED BY <1>5, <1>6

\* I_VALEURVARLOC.
LEMMA ValeurVarLocAbstraite == ASSUME Inv, ValeurVarLoc PROVE AbsCadres!Lire
<1>1. PICK n \in Locales : /\ RedimMin(DebutVarLoc + n + 1)
                           /\ Empiler(PileF[DebutVarLoc + n])
                           /\ UNCHANGED <<PileF, appels, Ins>>
  BY DEF ValeurVarLoc
<1>2. n \in Nat /\ DebutVarLoc \in Nat /\ Memoire \in Nat /\ DebutVarLoc + n + 1 \in Nat
  BY Lecture, AppelsAssumption
<1>3. l' \in l .. Memoire /\ DebutVarLoc + n < Memoire
  <2>. DEFINE m == DebutVarLoc + n + 1
  <2>1. m \in Nat /\ RedimMin(m)
    BY <1>1, <1>2
  <2>2. m <= Memoire /\ DebutVarLoc + n < m
    BY <1>2, <2>1 DEF RedimMin
  <2>. HIDE DEF m
  <2>3. l' \in l .. Memoire
    BY <2>1, Etendue
  <2>. QED BY <1>2, <2>1, <2>2, <2>3
<1>. DEFINE v == PileF[DebutVarLoc + n]
<1>4. AbsCadres!cadre.locales[n] = v /\ v \in Simples
  BY <1>3, LuLocale
<1>5. v \in Vals
  BY <1>4 DEF Vals
<1>6. Empiler(v) /\ UNCHANGED <<PileF, appels, Ins>>
  BY <1>1
<1>. HIDE DEF v
<1>7. AbsCadres!Empiler(v)
  BY <1>3, <1>4, <1>5, <1>6, EmpileAbstrait, VueSimple
<1>. QED BY <1>4, <1>7 DEF AbsCadres!Lire

\* I_PARAMVAL.
LEMMA ParamValAbstraite == ASSUME Inv, ParamVal PROVE AbsCadres!Lire
<1>1. PICK n \in Nommes : Empiler(PileF[DebutParam + n]) /\ UNCHANGED <<memoire, appels, Ins>>
  BY DEF ParamVal
<1>2. n \in Nat /\ DebutVarLoc \in Nat /\ DebutParam \in Nat /\ DebutParam + n < DebutVarLoc /\ l \in Nat
      /\ DebutVarLoc <= l
  BY Lecture, AppelsAssumption DEF Nommes
<1>. DEFINE v == PileF[DebutParam + n]
<1>3. v \in Simples /\ v \in Vals
  <2>1. DebutParam + n \in DebutParam .. l - 1
    BY <1>2
  <2>. QED BY <2>1, Lecture DEF Vals
<1>4. l' \in l .. Memoire /\ UNCHANGED <<PileF, appels, Ins>> /\ Empiler(v)
  BY <1>1, Lecture, AppelsAssumption DEF memoire
<1>5. AbsCadres!cadre.params = ParamsEn(Etat, BasenParams, nAppels)
  BY Devant, Champs
<1>6. n + 1 \in DOMAIN AbsCadres!cadre.params /\ AbsCadres!cadre.params[n + 1] = v
  <2>1. V(Etat, nAppels, BasenParams) = DebutVarLoc /\ D(Etat, nAppels) = DebutParam /\ Etat.PileF = PileF
    BY Lecture
  <2>2. ParamsEn(Etat, BasenParams, nAppels) = [i \in 1 .. DebutVarLoc - DebutParam |-> PileF[DebutParam + i - 1]]
    BY <2>1 DEF ParamsEn
  <2>3. n + 1 \in 1 .. DebutVarLoc - DebutParam /\ DebutParam + (n + 1) - 1 = DebutParam + n
    BY <1>2
  <2>. QED BY <1>5, <2>2, <2>3
<1>. HIDE DEF v
<1>7. AbsCadres!Empiler(v)
  BY <1>3, <1>4, EmpileAbstrait, VueSimple
<1>. QED BY <1>6, <1>7 DEF AbsCadres!Lire

\* I_VARIABLELOC.
LEMMA VariableLocAbstraite == ASSUME Inv, VariableLoc PROVE AbsCadres!Designer
<1>1. PICK n \in Locales : /\ Empiler([adr |-> DebutVarLoc + n])
                           /\ RedimMin(DebutVarLoc + n + 1)
                           /\ UNCHANGED <<PileF, appels, Ins>>
  BY DEF VariableLoc
<1>. DEFINE a == DebutVarLoc + n
            v == [adr |-> a]
<1>2. /\ n \in Nat /\ a \in Nat /\ a + 1 \in Nat /\ Memoire \in Nat /\ RedimMin(a + 1) /\ DebutVarLoc \in Nat
      /\ DebutVarLoc <= a /\ a - DebutVarLoc = n
  BY <1>1, Lecture, AppelsAssumption
<1>3. l' \in l .. Memoire /\ a < Memoire
  BY <1>2, Etendue DEF RedimMin
<1>4. v \in Refs /\ v \in Vals /\ v.adr = a
  BY <1>2, <1>3 DEF Refs, Vals, Cellules
<1>5. Vue(Etat, BasenParams, nAppels, v) = AbsCadres!Ref("locale", n)
  <2>1. V(Etat, nAppels, BasenParams) = DebutVarLoc
    BY Lecture
  <2>. HIDE DEF a, v
  <2>. QED BY <1>2, <1>4, <2>1 DEF Vue, AbsCadres!Ref
<1>6. Empiler(v) /\ UNCHANGED <<PileF, appels, Ins>>
  BY <1>1
<1>. HIDE DEF v
<1>7. AbsCadres!Empiler(AbsCadres!Ref("locale", n))
  BY <1>3, <1>4, <1>5, <1>6, EmpileAbstrait
<1>. QED BY <1>7 DEF AbsCadres!Designer

\* I_PARAMREF.
LEMMA ParamRefAbstraite == ASSUME Inv, ParamRef PROVE AbsCadres!Designer
<1>1. PICK n \in Nommes : /\ Empiler([adr |-> DebutParam + n])
                          /\ RedimMin(DebutParam + n + 1)
                          /\ UNCHANGED <<PileF, appels, Ins>>
  BY DEF ParamRef
<1>. DEFINE a == DebutParam + n
            v == [adr |-> a]
<1>2. /\ n \in Nat /\ a \in Nat /\ a + 1 \in Nat /\ Memoire \in Nat /\ RedimMin(a + 1) /\ DebutVarLoc \in Nat
      /\ DebutParam \in Nat /\ a < DebutVarLoc /\ a - DebutParam + 1 = n + 1
  BY <1>1, Lecture, AppelsAssumption DEF Nommes
<1>3. l' \in l .. Memoire /\ a < Memoire
  BY <1>2, Etendue DEF RedimMin
<1>4. v \in Refs /\ v \in Vals /\ v.adr = a
  BY <1>2, <1>3 DEF Refs, Vals, Cellules
<1>5. V(Etat, nAppels, BasenParams) = DebutVarLoc /\ D(Etat, nAppels) = DebutParam
  BY Lecture
<1>6. Empiler(v) /\ UNCHANGED <<PileF, appels, Ins>>
  BY <1>1
<1>8. n + 1 \in DOMAIN AbsCadres!cadre.params
  <2>1. AbsCadres!cadre.params = ParamsEn(Etat, BasenParams, nAppels)
    BY Devant, Champs
  <2>2. n + 1 \in 1 .. DebutVarLoc - DebutParam
    BY <1>2
  <2>. QED BY <1>5, <2>1, <2>2 DEF ParamsEn
<1>. HIDE DEF a, v
<1>9. Vue(Etat, BasenParams, nAppels, v) = AbsCadres!Ref("param", n + 1)
  BY <1>2, <1>4, <1>5 DEF Vue, AbsCadres!Ref
<1>7. AbsCadres!Empiler(AbsCadres!Ref("param", n + 1))
  BY <1>3, <1>4, <1>6, <1>9, EmpileAbstrait
<1>. QED BY <1>7, <1>8 DEF AbsCadres!Designer

\* I_DEBUTLIGNE.
LEMMA LigneAbstraite == ASSUME Inv, DebutLigne PROVE AbsCadres!Ligne
<1>1. /\ Pile' = <<>> /\ Ins' \in Lieux /\ PileF' = PileF /\ l' = l /\ Appel' = Appel /\ nAppels' = nAppels
      /\ DebutParam' = DebutParam /\ DebutVarLoc' = DebutVarLoc /\ BasenParams' = BasenParams /\ This' = This
  BY DEF DebutLigne, memoire, appels
<1>2. Etat' = Suite(Etat, <<>>, Ins') /\ BasenParams' = BasenParams
  BY <1>1 DEF Etat, Suite
<1>3. CadresAbs' = CadresEn(Suite(Etat, <<>>, Ins'), BasenParams)
  BY <1>2, Image
<1>. DEFINE C == CadresEn(Etat, BasenParams)
            c == CadreEn(Etat, BasenParams, nAppels)
            p == <<>>
            i == Ins'
<1>4. CadresEn(Suite(Etat, p, i), BasenParams) = [C EXCEPT ![Len(C)] = AvecSuite(c, VueDe(Etat, BasenParams, nAppels, p), i)]
  <2>1. Etat.n = nAppels /\ Bon(Etat, BasenParams)
    BY Devant
  <2>. HIDE DEF p, i, Etat
  <2>. QED BY <2>1, CadreSuite
<1>5. VueDe(Etat, BasenParams, nAppels, p) = <<>>
  BY DEF VueDe
<1>6. CadresAbs = C /\ AbsCadres!cadre = c
  BY Devant
<1>. HIDE DEF C, c, Etat
<1>7. AbsCadres!Remplacer(AvecSuite(AbsCadres!cadre, <<>>, i))
  BY <1>3, <1>4, <1>5, <1>6 DEF AbsCadres!Remplacer
<1>. QED BY <1>1, <1>7 DEF AbsCadres!Ligne, AvecSuite

\* I_ENERREUR.
LEMMA GererAbstrait == ASSUME Inv, EnErreur PROVE AbsCadres!Gerer
<1>1. PICK h \in Lieux : Appel' = [Appel EXCEPT ![nAppels].EnErreur = h]
  BY DEF EnErreur
<1>2. /\ Etat'.n = nAppels /\ Etat'.This = This /\ Etat'.PileF = PileF /\ Etat'.l = l /\ Etat'.Ins = Ins
      /\ Etat'.Pile = Pile /\ Etat'.Appel = Appel' /\ BasenParams' = BasenParams
  BY DEF EnErreur, Etat, memoire
<1>3. /\ Etat.n = nAppels /\ Etat.This = This /\ Etat.PileF = PileF /\ Etat.l = l /\ Etat.Ins = Ins
      /\ Etat.Pile = Pile /\ Etat.Appel = Appel
  BY DEF Etat
<1>4. Appel'[nAppels].EnErreur = h /\ \A k \in 0 .. nAppels - 1 : Appel'[k] = Appel[k]
  <2>1. Appel \in [0 .. NMAXAPPELS -> Elements] /\ nAppels \in 0 .. NMAXAPPELS /\ nAppels \in Nat
    BY Lecture, AppelsAssumption
  <2>2. Appel[nAppels] \in Elements
    BY <2>1
  <2>. DEFINE e == [Appel[nAppels] EXCEPT !.EnErreur = h]
  <2>3. e.EnErreur = h
    BY <2>2 DEF Elements
  <2>4. Appel' = [Appel EXCEPT ![nAppels] = e]
    BY <1>1
  <2>. HIDE DEF e
  <2>. QED BY <2>1, <2>3, <2>4
<1>. DEFINE C == CadresEn(Etat, BasenParams)
            c == CadreEn(Etat, BasenParams, nAppels)
            t == Etat'
<1>5. CadresEn(t, BasenParams) = [C EXCEPT ![Len(C)] = AvecGest(c, h)]
  <2>1. /\ t.n = nAppels /\ t.This = This /\ t.PileF = PileF /\ t.l = l /\ t.Ins = Ins
        /\ t.Pile = Pile /\ t.Appel = Appel'
    BY <1>2
  <2>2. Bon(Etat, BasenParams)
    BY Devant
  <2>. HIDE DEF t, Etat
  <2>. QED BY <1>3, <1>4, <2>1, <2>2, CadreGestion
<1>6. CadresAbs' = CadresEn(t, BasenParams)
  BY <1>2, Image
<1>7. CadresAbs = C /\ AbsCadres!cadre = c
  BY Devant
<1>. HIDE DEF C, c, t
<1>8. AbsCadres!Remplacer(AvecGest(AbsCadres!cadre, h))
  BY <1>5, <1>6, <1>7 DEF AbsCadres!Remplacer
<1>. QED BY <1>8 DEF AbsCadres!Gerer, AvecGest

\* I_DEFINIR.
LEMMA DefinirAbstrait == ASSUME Inv, Definir PROVE AbsCadres!Definir
<1>. DEFINE k == Len(Pile)
            a == Pile[k - 1].adr
            v == Pile[k]
            p == SubSeq(Pile, 1, k - 2)
            b == BasenParams
            n == nAppels
            c == CadreEn(Etat, b, n)
            C == CadresEn(Etat, b)
            q == VueDe(Etat, b, n, Pile)
            reste == SubSeq(q, 1, k - 2)
            r == q[k - 1]
<1>1. /\ k >= 2 /\ v \in Simples /\ Pile[k - 1] \in Refs
      /\ PileF' = [PileF EXCEPT ![a] = v] /\ Pile' = p /\ UNCHANGED <<l, appels, Ins>>
  BY DEF Definir
<1>2. Pile \in Seq(Vals) /\ k \in Nat /\ k - 2 \in 0 .. Len(Pile) /\ k - 1 \in DOMAIN Pile /\ k - 1 \in 1 .. k
      /\ k \in 1 .. k /\ Pile[k - 1] \in Vals
  BY <1>1, Lecture
<1>3. /\ a \in DebutParam .. l - 1 /\ DebutParam \in Nat /\ DebutVarLoc \in Nat /\ DebutParam <= DebutVarLoc
      /\ l \in Nat /\ D(Etat, n) = DebutParam /\ V(Etat, n, b) = DebutVarLoc
  BY <1>1, <1>2, Lecture
<1>4. /\ Etat.n = n /\ Etat.l = l /\ Etat.PileF = PileF /\ Etat.Appel = Appel /\ Etat.This = This /\ Etat.Ins = Ins
      /\ Bon(Etat, b)
  BY Lecture DEF Inv
<1>5. /\ Etat'.n = n /\ Etat'.l = l /\ Etat'.PileF = [PileF EXCEPT ![a] = v] /\ Etat'.Appel = Appel
      /\ Etat'.This = This /\ Etat'.Ins = Ins /\ Etat'.Pile = p /\ BasenParams' = b
  BY <1>1 DEF Etat, appels
<1>6. /\ AbsCadres!cadre = c /\ CadresAbs = C /\ c.pile = q
  BY Devant, Champs
<1>7. q \in Seq(Vues) /\ Len(q) = k /\ \A i \in 1 .. k : q[i] = Vue(Etat, b, n, Pile[i])
  BY <1>2, <1>3, VueSuite
<1>8. q[k] = v /\ r = Vue(Etat, b, n, Pile[k - 1])
  <2>1. Vue(Etat, b, n, v) = v
    BY <1>1, VueSimple
  <2>. HIDE DEF q
  <2>. QED BY <1>2, <1>7, <2>1
<1>9. VueDe(Etat, b, n, p) = reste
  BY <1>2, <1>3, VueDebut, SMTT(20)
<1>10. CadresAbs' = CadresEn(Etat', b)
  BY <1>5, Image
<1>. HIDE DEF a, v, p, q, n, b, Etat
<1>11. r = IF a < DebutVarLoc THEN [zone |-> "param", rang |-> a - DebutParam + 1]
           ELSE [zone |-> "locale", rang |-> a - DebutVarLoc]
  BY <1>1, <1>3, <1>8 DEF Vue, a
<1>12. AbsCadres!EstRef(r) /\ ~AbsCadres!EstRef(v)
  <2>1. r \in [zone : {"param", "locale"}, rang : Nat]
    <3>. HIDE DEF r
    <3>1. CASE a < DebutVarLoc
      <4>1. a - DebutParam + 1 \in Nat
        BY <1>3
      <4>. QED BY <1>11, <3>1, <4>1
    <3>2. CASE ~ (a < DebutVarLoc)
      <4>1. a - DebutVarLoc \in Nat
        BY <1>3, <3>2
      <4>. QED BY <1>11, <3>2, <4>1
    <3>. QED BY <3>1, <3>2
  <2>2. r \notin Simples
    BY <2>1, CadresAssumption
  <2>. HIDE DEF r
  <2>. QED BY <1>1, <2>2 DEF AbsCadres!EstRef, Simples
<1>13. CadresAbs' = [C EXCEPT ![Len(C)] =
                       IF a < DebutVarLoc
                       THEN AvecParams(c, reste, [c.params EXCEPT ![a - DebutParam + 1] = v])
                       ELSE AvecLocales(c, reste, [c.locales EXCEPT ![a - DebutVarLoc] = v])]
  <2>. DEFINE t == Etat'
  <2>1. /\ t.n = n /\ t.l = l /\ t.PileF = [PileF EXCEPT ![a] = v] /\ t.Appel = Appel
        /\ t.This = This /\ t.Ins = Ins /\ t.Pile = p
    BY <1>5
  <2>. HIDE DEF t, c, C, reste
  <2>2. a \in D(Etat, Etat.n) .. Etat.l - 1 /\ t.n = Etat.n /\ t.This = Etat.This /\ t.Appel = Etat.Appel
        /\ t.l = Etat.l /\ Ecrite(Etat, t, a, v) /\ t.Ins = Etat.Ins /\ t.Pile = p
    BY <1>3, <1>4, <2>1 DEF Ecrite
  <2>3. CadresEn(t, b) = [CadresEn(Etat, b) EXCEPT ![Len(CadresEn(Etat, b))] = Affecte(Etat, b, a, v, p)]
    BY <1>4, <2>2, CadreAffecte
  <2>4. CadresAbs' = CadresEn(t, b)
    BY <1>10 DEF t
  <2>. QED BY <1>3, <1>4, <1>9, <2>3, <2>4 DEF c, C, Affecte
<1>. HIDE DEF c, C, reste, k
<1>14. CASE a < DebutVarLoc
  <2>1. r.zone # "locale" /\ r.rang = a - DebutParam + 1
    BY <1>11, <1>14
  <2>2. CadresAbs' = [C EXCEPT ![Len(C)] = AvecParams(c, reste, [c.params EXCEPT ![r.rang] = v])]
    BY <1>13, <1>14, <2>1
  <2>3. AvecParams(c, reste, [c.params EXCEPT ![r.rang] = v]) = [c EXCEPT !.pile = reste, !.params[r.rang] = v]
    BY DEF AvecParams
  <2>4. AbsCadres!Remplacer([c EXCEPT !.pile = reste, !.params[r.rang] = v])
    BY <1>6, <2>2, <2>3 DEF AbsCadres!Remplacer
  <2>. QED BY <1>1, <1>6, <1>7, <1>8, <1>12, <2>1, <2>4 DEF AbsCadres!Definir, reste
<1>15. CASE ~ (a < DebutVarLoc)
  <2>1. r.zone = "locale" /\ r.rang = a - DebutVarLoc
    BY <1>11, <1>15
  <2>2. CadresAbs' = [C EXCEPT ![Len(C)] = AvecLocales(c, reste, [c.locales EXCEPT ![r.rang] = v])]
    BY <1>13, <1>15, <2>1
  <2>3. AvecLocales(c, reste, [c.locales EXCEPT ![r.rang] = v]) = [c EXCEPT !.pile = reste, !.locales[r.rang] = v]
    BY DEF AvecLocales
  <2>4. AbsCadres!Remplacer([c EXCEPT !.pile = reste, !.locales[r.rang] = v])
    BY <1>6, <2>2, <2>3 DEF AbsCadres!Remplacer
  <2>. QED BY <1>1, <1>6, <1>7, <1>8, <1>12, <2>1, <2>4 DEF AbsCadres!Definir, reste
<1>. QED BY <1>14, <1>15

-----------------------------------------------------------------------------
(* The "this" of the frames. *)

\* The least element of a set of numbers.
LEMMA LePlusPetit ==
  ASSUME NEW S \in SUBSET Nat, S # {}
  PROVE  Min(S) \in S /\ \A y \in S : Min(S) <= y
<1>1. \E x \in S : \A y \in S : x <= y
  BY PlusPetit
<1>. QED BY <1>1 DEF Min

\* The calls from k on that keep a This.
Gardes(s, k) == {a \in k .. s.n - 1 : s.Appel[a].This # Nul}

\* The "this" of a frame is that the first of them keeps.
LEMMA ThisGarde ==
  ASSUME NEW s, s.n \in Nat, NEW k \in 0 .. s.n
  PROVE  /\ Gardes(s, k) = {} => ThisEn(s, k) = s.This
         /\ \A a \in Gardes(s, k) : (\A j \in Gardes(s, k) : a <= j) => ThisEn(s, k) = s.Appel[a].This
         /\ Gardes(s, k) # {} => /\ ThisEn(s, k) # Nul
                                 /\ \E a \in Gardes(s, k) : \A j \in Gardes(s, k) : a <= j
<1>. DEFINE g == Gardes(s, k)
<1>1. g \in SUBSET Nat /\ \A a \in g : s.Appel[a].This # Nul
  BY DEF Gardes
<1>2. ThisEn(s, k) = IF g = {} THEN s.This ELSE s.Appel[Min(g)].This
  BY DEF ThisEn, Gardes
<1>. HIDE DEF g
<1>3. ASSUME g # {} PROVE Min(g) \in g /\ \A y \in g : Min(g) <= y
  BY <1>1, <1>3, LePlusPetit
<1>4. ASSUME NEW a \in g, \A j \in g : a <= j PROVE ThisEn(s, k) = s.Appel[a].This
  <2>1. Min(g) \in g /\ Min(g) <= a /\ a <= Min(g) /\ Min(g) \in Nat /\ a \in Nat
    BY <1>1, <1>3, <1>4
  <2>2. Min(g) = a
    BY <2>1
  <2>. QED BY <1>2, <2>2
<1>5. ASSUME g # {} PROVE ThisEn(s, k) # Nul /\ \E a \in g : \A j \in g : a <= j
  BY <1>1, <1>2, <1>3, <1>5
<1>. QED BY <1>2, <1>4, <1>5 DEF g

\* A call: the first element that keeps a This stays the first, and if there
\* was none it is that of the caller, if it keeps one.
LEMMA ThisAppele ==
  ASSUME NEW s, s.n \in Nat, NEW t, t.n = s.n + 1, \A k \in 0 .. s.n - 1 : t.Appel[k].This = s.Appel[k].This,
         NEW k \in 0 .. s.n
  PROVE  /\ Gardes(s, k) # {} => ThisEn(t, k) = ThisEn(s, k)
         /\ Gardes(s, k) = {} => ThisEn(t, k) = IF t.Appel[s.n].This # Nul THEN t.Appel[s.n].This ELSE t.This
<1>1. \A a \in k .. s.n - 1 : a \in 0 .. s.n - 1 /\ a \in k .. t.n - 1 /\ a < s.n /\ a \in Nat
  OBVIOUS
<1>2. \A a \in k .. t.n - 1 : a \in k .. s.n - 1 \/ a = s.n
  OBVIOUS
<1>3. k \in 0 .. t.n /\ t.n \in Nat /\ s.n \in k .. t.n - 1
  OBVIOUS
<1>4. \A a \in Gardes(s, k) : a \in Gardes(t, k) /\ a < s.n /\ a \in Nat /\ t.Appel[a].This = s.Appel[a].This
  BY <1>1 DEF Gardes
<1>5. \A a \in Gardes(t, k) : a \in Gardes(s, k) \/ (a = s.n /\ t.Appel[s.n].This # Nul)
  BY <1>1, <1>2 DEF Gardes
<1>6. ASSUME Gardes(s, k) # {} PROVE ThisEn(t, k) = ThisEn(s, k)
  <2>1. PICK a \in Gardes(s, k) : \A j \in Gardes(s, k) : a <= j
    BY <1>6, ThisGarde
  <2>2. ThisEn(s, k) = s.Appel[a].This
    BY <2>1, ThisGarde
  <2>3. a \in Gardes(t, k) /\ \A j \in Gardes(t, k) : a <= j
    BY <1>4, <1>5, <2>1
  <2>4. ThisEn(t, k) = t.Appel[a].This
    BY <1>3, <2>3, ThisGarde
  <2>. QED BY <1>4, <2>1, <2>2, <2>4
<1>7. ASSUME Gardes(s, k) = {}
      PROVE  ThisEn(t, k) = IF t.Appel[s.n].This # Nul THEN t.Appel[s.n].This ELSE t.This
  <2>1. CASE t.Appel[s.n].This # Nul
    <3>1. s.n \in Gardes(t, k) /\ \A j \in Gardes(t, k) : s.n <= j
      BY <1>3, <1>5, <1>7, <2>1 DEF Gardes
    <3>2. ThisEn(t, k) = t.Appel[s.n].This
      BY <1>3, <3>1, ThisGarde
    <3>. QED BY <2>1, <3>2
  <2>2. CASE ~ (t.Appel[s.n].This # Nul)
    <3>1. Gardes(t, k) = {}
      BY <1>5, <1>7, <2>2
    <3>2. ThisEn(t, k) = t.This
      BY <1>3, <3>1, ThisGarde
    <3>. QED BY <2>2, <3>2
  <2>. QED BY <2>1, <2>2
<1>. QED BY <1>6, <1>7

\* A return: what the last call kept is in This.
LEMMA ThisRevenu ==
  ASSUME NEW s, s.n \in Nat, NEW t, s.n = t.n + 1, t.n \in Nat,
         \A k \in 0 .. t.n - 1 : t.Appel[k].This = s.Appel[k].This,
         t.This = IF s.Appel[t.n].This # Nul THEN s.Appel[t.n].This ELSE s.This,
         NEW k \in 0 .. t.n
  PROVE  ThisEn(t, k) = ThisEn(s, k)
<1>1. Gardes(t, k) # {} => ThisEn(s, k) = ThisEn(t, k)
  BY ThisAppele
<1>2. Gardes(t, k) = {} => ThisEn(s, k) = t.This
  BY ThisAppele
<1>3. Gardes(t, k) = {} => ThisEn(t, k) = t.This
  BY ThisGarde
<1>. QED BY <1>1, <1>2, <1>3

-----------------------------------------------------------------------------
(* Calls, seen by a script. *)

\* The parameters are what is after the last DEBUTPARAM.
Parametres(p, q, param) == [i \in 1 .. q - param |-> p[param + i]]

Vides == [n \in Locales |-> Inconnu]

\* Cell i of a stack saved at x.
LEMMA Position ==
  ASSUME NEW x \in Nat, NEW y \in Nat, x + y <= Memoire, NEW i \in 1 .. y
  PROVE  x + i - 1 \in Cellules /\ x + i - 1 \in x .. (x + y) - 1 /\ (x + i - 1) - x + 1 = i
<1>1. Memoire \in Nat
  BY AppelsAssumption
<1>. QED BY <1>1 DEF Cellules

\* Cell i after the first z of them.
LEMMA PositionApres ==
  ASSUME NEW x \in Nat, NEW y \in Nat, x + y <= Memoire, NEW z \in 1 .. y, NEW i \in 1 .. y - z
  PROVE  x + z + i - 1 \in Cellules /\ x + z + i - 1 \in x .. (x + y) - 1 /\ (x + z + i - 1) - x + 1 = z + i
<1>1. Memoire \in Nat
  BY AppelsAssumption
<1>. QED BY <1>1 DEF Cellules

\* Cell i of the parameters, that are at d.
LEMMA Rang ==
  ASSUME NEW d \in Nat, NEW e \in Nat, NEW x \in Nat, e <= x, NEW i \in 1 .. e - d
  PROVE  d + i - 1 \in Nat /\ d + i - 1 < x
OBVIOUS

\* A cell of a variable is under what is saved at x.
LEMMA SousPile ==
  ASSUME NEW x \in Nat, NEW y \in Nat, x <= Memoire, NEW z \in Nat, z < x
  PROVE  z \in Cellules /\ z \notin x .. y - 1
<1>1. Memoire \in Nat
  BY AppelsAssumption
<1>. QED BY <1>1 DEF Cellules

\* t is s after the call of v, when the q elements of p were on the stack.
ApresAppel(s, t, b, p, q, param, v, garde) ==
  /\ Bon(s, b) /\ p \in Seq(Vals) /\ q \in 0 .. Len(p) /\ param \in 1 .. q
  /\ s.l + q <= Memoire /\ t.PileF \in [Cellules -> Vals] /\ Appele(s, t, p, q, param)
  /\ Suspend(s, t, v, garde)

\* The caller keeps the start of its expression, the frame of the function has
\* the parameters and no other variable.
LEMMA CadreAppele ==
  ASSUME NEW b, NEW s, NEW t, NEW p, NEW q, NEW param, NEW v, NEW garde, ApresAppel(s, t, b, p, q, param, v, garde)
  PROVE  /\ \A k \in 0 .. s.n - 1 : \A h : CadreAvec(t, b, k, h) = CadreAvec(s, b, k, h)
         /\ \A h : CadreAvec(t, b, s.n, h)
                   = UnCadre(VueDe(s, b, s.n, SubSeq(p, 1, param)), ParamsEn(s, b, s.n), LocalesEn(s, b, s.n),
                             s.Appel[s.n].EnErreur, h, s.Ins)
         /\ \A h : CadreAvec(t, b, t.n, h)
                   = UnCadre(VueDe(t, b, t.n, t.Pile), Parametres(p, q, param), Vides, Nul, h, v)
<1>0. /\ Bon(s, b) /\ p \in Seq(Vals) /\ q \in 0 .. Len(p) /\ param \in 1 .. q
      /\ s.l + q <= Memoire /\ t.PileF \in [Cellules -> Vals] /\ Appele(s, t, p, q, param)
      /\ Suspend(s, t, v, garde)
  BY DEF ApresAppel
<1>. DEFINE n == s.n
            fin == s.l + q
<1>1. /\ n \in Nat /\ n \in 0 .. n /\ t.n = n + 1 /\ t.n \in Nat /\ t.n # n /\ n <= t.n /\ t.l = fin /\ s.l \in Nat /\ q \in Nat
      /\ s.l <= Memoire /\ Memoire \in Nat /\ param \in Nat /\ 1 <= param /\ param <= q /\ fin \in Nat /\ fin <= Memoire
      /\ D(s, n) \in Nat /\ D(s, n) <= s.l /\ V(s, n, b) \in Nat /\ F(s, n) = s.l
      /\ D(s, n) <= V(s, n, b) /\ V(s, n, b) <= s.l /\ t.n # 0 /\ t.n - 1 = n
  <2>1. n \in 0 .. s.n /\ n \in Nat /\ t.n = n + 1 /\ t.l = fin
    BY <1>0, Bornes DEF Appele
  <2>0. q \in Nat
    BY <1>0
  <2>2. /\ s.l \in Nat /\ s.l <= Memoire /\ Memoire \in Nat /\ D(s, n) \in Nat /\ V(s, n, b) \in Nat
        /\ D(s, n) <= s.l /\ F(s, n) = s.l
        /\ D(s, n) <= V(s, n, b) /\ V(s, n, b) <= F(s, n)
    BY <1>0, <2>1, Bornes DEF F, Bon, Ordonne
  <2>. QED BY <1>0, <2>0, <2>1, <2>2, SMTT(20)
<1>2. /\ \A i \in Cellules : i \notin s.l .. fin - 1 => t.PileF[i] = s.PileF[i]
      /\ \A i \in Cellules : i \in s.l .. fin - 1 => t.PileF[i] = p[i - s.l + 1]
  <2>1. Recopie(s, t, p, fin)
    BY <1>0 DEF Appele
  <2>. HIDE DEF fin
  <2>. QED BY <2>1 DEF Recopie
<1>3. /\ t.Appel[n].PosPileF = s.l /\ t.Appel[n].lPile = param /\ t.Appel[n].nParams = q - param
      /\ t.Appel[n].Instruction = s.Ins /\ t.Appel[n].EnErreur = s.Appel[n].EnErreur
      /\ t.Appel[t.n].EnErreur = Nul /\ t.Ins = v
      /\ \A k \in 0 .. n - 1 : t.Appel[k] = s.Appel[k]
  BY <1>0, <1>1 DEF Appele, Suspend
<1>4. /\ D(t, n) = D(s, n) /\ V(t, n, b) = V(s, n, b)
      /\ \A k \in 0 .. n - 1 : \A h : CadreAvec(t, b, k, h) = CadreAvec(s, b, k, h)
  <2>1. MemesAppels(s, t, n)
    BY <1>3 DEF MemesAppels
  <2>2. MemesCellules(s, t, n)
    <3>1. ASSUME NEW i \in Cellules, i < D(s, n) PROVE i \notin s.l .. fin - 1
      <4>1. i \in Nat
        BY <1>1 DEF Cellules
      <4>. QED BY <1>1, <3>1, <4>1
    <3>. QED BY <1>2, <3>1 DEF MemesCellules
  <2>3. n \in 0 .. s.n /\ n \in 0 .. n
    BY <1>1
  <2>. HIDE DEF n
  <2>. QED BY <1>0, <1>1, <2>1, <2>2, <2>3, Dessous
<1>5. F(t, n) = s.l /\ D(t, t.n) = s.l + param /\ V(t, t.n, b) = fin /\ F(t, t.n) = fin
  <2>1. F(t, n) = s.l /\ D(t, t.n) = s.l + param /\ F(t, t.n) = fin
    BY <1>1, <1>3 DEF F, D
  <2>2. V(t, t.n, b) = D(t, t.n) + (q - param)
    BY <1>1, <1>3 DEF V
  <2>. QED BY <1>1, <2>1, <2>2
<1>. HIDE DEF n
<1>15. /\ s.l \in Nat /\ s.l <= Memoire /\ s.l + q <= Memoire /\ q \in Nat /\ param \in 1 .. q
       /\ param \in Nat /\ 1 <= param /\ param <= q /\ fin = s.l + q
       /\ fin \in Nat /\ fin <= Memoire /\ Memoire \in Nat /\ D(s, n) \in Nat /\ V(s, n, b) \in Nat
       /\ D(s, n) <= V(s, n, b) /\ V(s, n, b) <= s.l
  BY <1>1
<1>16. \A i \in Cellules : i \in s.l .. (s.l + q) - 1 => t.PileF[i] = p[i - s.l + 1]
  <2>1. Recopie(s, t, p, s.l + q)
    BY <1>0 DEF Appele
  <2>. QED BY <2>1 DEF Recopie
<1>. HIDE DEF fin
<1>6. PileEn(t, n) = SubSeq(p, 1, param)
  <2>. DEFINE f == [i \in 1 .. param |-> p[i]]
              r == SubSeq(p, 1, param)
  <2>1. ASSUME NEW i \in 1 .. param PROVE t.PileF[s.l + i - 1] = p[i]
    <3>1. s.l + i - 1 \in Cellules /\ s.l + i - 1 \in s.l .. fin - 1 /\ (s.l + i - 1) - s.l + 1 = i
      <4>1. i \in 1 .. q /\ s.l + q <= Memoire
        BY <1>15
      <4>2. s.l + i - 1 \in Cellules /\ s.l + i - 1 \in s.l .. (s.l + q) - 1 /\ (s.l + i - 1) - s.l + 1 = i
        BY <1>15, <4>1, Position
      <4>. QED BY <1>15, <4>2
    <3>2. t.PileF[s.l + i - 1] = p[(s.l + i - 1) - s.l + 1]
      BY <1>2, <3>1
    <3>. QED BY <3>1, <3>2
  <2>2. PileEn(t, n) = f
    BY <1>1, <1>3, <2>1, ZenonT(40) DEF PileEn
  <2>3. r \in Seq(Vals) /\ Len(r) = param /\ \A i \in 1 .. param : r[i] = p[i]
    BY <1>0, <1>1
  <2>. HIDE DEF r
  <2>4. r = [i \in 1 .. param |-> r[i]]
    BY <2>3
  <2>. QED BY <2>2, <2>3, <2>4 DEF r
<1>7. VueDe(t, b, n, PileEn(t, n)) = VueDe(s, b, n, SubSeq(p, 1, param))
  BY <1>4, <1>6 DEF VueDe, Vue
<1>8. ParamsEn(t, b, n) = ParamsEn(s, b, n)
  <2>1. ASSUME NEW i \in 1 .. V(s, n, b) - D(s, n) PROVE t.PileF[D(s, n) + i - 1] = s.PileF[D(s, n) + i - 1]
    <3>1. D(s, n) + i - 1 \in Cellules /\ D(s, n) + i - 1 \notin s.l .. fin - 1
      <4>1. D(s, n) + i - 1 \in Nat /\ D(s, n) + i - 1 < s.l /\ s.l <= Memoire
        BY <1>15, Rang
      <4>. QED BY <1>15, <4>1, SousPile
    <3>. QED BY <1>2, <3>1
  <2>. QED BY <1>4, <2>1 DEF ParamsEn
<1>9. LocalesEn(t, b, n) = LocalesEn(s, b, n)
  <2>1. ASSUME NEW j \in Locales, V(s, n, b) + j < s.l PROVE t.PileF[V(s, n, b) + j] = s.PileF[V(s, n, b) + j]
    <3>0. j \in Nat
      BY AppelsAssumption
    <3>1. V(s, n, b) + j \in Cellules /\ V(s, n, b) + j \notin s.l .. fin - 1
      <4>1. V(s, n, b) + j \in Nat /\ s.l <= Memoire
        BY <1>15, <3>0
      <4>. QED BY <1>15, <2>1, <4>1, SousPile
    <3>. QED BY <1>2, <3>1
  <2>. QED BY <1>1, <1>4, <1>5, <2>1 DEF LocalesEn
<1>10. InsEn(t, n) = s.Ins /\ InsEn(t, t.n) = v /\ PileEn(t, t.n) = t.Pile
  BY <1>1, <1>3 DEF InsEn, PileEn
<1>11. ParamsEn(t, b, t.n) = Parametres(p, q, param)
  <2>1. ASSUME NEW i \in 1 .. q - param PROVE t.PileF[s.l + param + i - 1] = p[param + i]
    <3>1. /\ s.l + param + i - 1 \in Cellules /\ s.l + param + i - 1 \in s.l .. (s.l + q) - 1
          /\ (s.l + param + i - 1) - s.l + 1 = param + i
      BY <1>15, PositionApres, ZenonT(40)
    <3>2. t.PileF[s.l + param + i - 1] = p[(s.l + param + i - 1) - s.l + 1]
      BY <1>16, <3>1
    <3>. QED BY <3>1, <3>2
  <2>2. V(t, t.n, b) - D(t, t.n) = q - param
    BY <1>5, <1>15
  <2>. QED BY <1>5, <2>1, <2>2 DEF ParamsEn, Parametres
<1>12. LocalesEn(t, b, t.n) = Vides
  <2>1. \A j \in Locales : ~ (fin + j < fin)
    BY <1>15, AppelsAssumption
  <2>. QED BY <1>5, <2>1 DEF LocalesEn, Vides
<1>13. \A h : CadreAvec(t, b, n, h)
              = UnCadre(VueDe(s, b, n, SubSeq(p, 1, param)), ParamsEn(s, b, n), LocalesEn(s, b, n),
                        s.Appel[n].EnErreur, h, s.Ins)
  BY <1>3, <1>7, <1>8, <1>9, <1>10 DEF CadreAvec
<1>14. \A h : CadreAvec(t, b, t.n, h)
              = UnCadre(VueDe(t, b, t.n, t.Pile), Parametres(p, q, param), Vides, Nul, h, v)
  BY <1>3, <1>10, <1>11, <1>12 DEF CadreAvec
<1>. QED BY <1>4, <1>13, <1>14 DEF n

\* What a script sees of an expression it hands over: its last DEBUTPARAM is
\* where it is, and what is after it are values.
LEMMA MarqueVue ==
  ASSUME NEW b, NEW s, Bon(s, b), NEW p \in Seq(Vals),
         \A i \in DOMAIN p : p[i] \in Refs => p[i].adr \in D(s, s.n) .. s.l - 1
  PROVE  /\ AbsCadres!DerniereMarque(VueDe(s, b, s.n, p)) = DerniereMarque(p)
         /\ \A i \in 1 .. Len(p) : p[i] \in Simples => VueDe(s, b, s.n, p)[i] = p[i]
         /\ \A i \in 1 .. Len(p) : p[i] \notin Simples => VueDe(s, b, s.n, p)[i] \notin Simples
<1>. DEFINE n == s.n
            q == VueDe(s, b, n, p)
            m == Len(p)
<1>1. /\ n \in 0 .. n /\ n \in 0 .. s.n /\ D(s, n) \in Nat /\ V(s, n, b) \in Nat /\ s.l \in Nat /\ D(s, n) <= V(s, n, b)
  <2>1. n \in 0 .. n /\ n \in 0 .. s.n
    BY Bornes
  <2>. QED BY <2>1, Bornes DEF Bon, Ordonne
<1>2. q \in Seq(Vues) /\ Len(q) = m /\ \A i \in 1 .. m : q[i] = Vue(s, b, n, p[i])
  BY <1>1, VueSuite
<1>3. m \in Nat /\ DOMAIN p = 1 .. m /\ \A i \in 1 .. m : p[i] \in Vals
  OBVIOUS
<1>. HIDE DEF q, n, m
<1>4. ASSUME NEW i \in 1 .. m, p[i] \in Simples PROVE q[i] = p[i]
  BY <1>2, <1>4, VueSimple
<1>5. ASSUME NEW i \in 1 .. m, p[i] \notin Simples PROVE q[i] \notin Simples
  <2>1. p[i] \in Refs /\ p[i].adr \in D(s, n) .. s.l - 1
    BY <1>3, <1>5 DEF Vals, n
  <2>. DEFINE a == p[i].adr
  <2>2. q[i] = IF a < V(s, n, b) THEN [zone |-> "param", rang |-> a - D(s, n) + 1]
               ELSE [zone |-> "locale", rang |-> a - V(s, n, b)]
    BY <1>2, <2>1 DEF Vue
  <2>3. a \in Int /\ D(s, n) <= a
    BY <1>1, <2>1
  <2>. HIDE DEF a
  <2>4. q[i] \in [zone : {"param", "locale"}, rang : Nat]
    <3>1. CASE a < V(s, n, b)
      <4>1. a - D(s, n) + 1 \in Nat
        BY <1>1, <2>3
      <4>. QED BY <2>2, <3>1, <4>1
    <3>2. CASE ~ (a < V(s, n, b))
      <4>1. a - V(s, n, b) \in Nat
        BY <1>1, <2>3, <3>2
      <4>. QED BY <2>2, <3>2, <4>1
    <3>. QED BY <3>1, <3>2
  <2>. QED BY <2>4, CadresAssumption
<1>6. \A i \in 1 .. m : q[i] = Marque <=> p[i] = Marque
  BY <1>4, <1>5 DEF Simples
<1>7. AbsCadres!DerniereMarque(q) = DerniereMarque(p)
  <2>. DEFINE I == {i \in 1 .. Len(q) : q[i] = Marque}
              J == {i \in 1 .. Len(p) : p[i] = Marque}
  <2>1. I = J
    BY <1>2, <1>6 DEF m
  <2>2. DerniereMarque(p) = IF J # {} THEN CHOOSE x \in J : \A y \in J : x >= y ELSE 0
    BY DEF DerniereMarque, SelectLastInSubSeq, Max
  <2>3. AbsCadres!DerniereMarque(q) = IF I # {} THEN CHOOSE x \in I : \A y \in I : x >= y ELSE 0
    BY DEF AbsCadres!DerniereMarque, AbsCadres!SelectLastInSubSeq, AbsCadres!Max
  <2>. HIDE DEF I, J
  <2>. QED BY <2>1, <2>2, <2>3
<1>. QED BY <1>4, <1>5, <1>7 DEF q, n, m
\* What a script sees of a call: its expression up to the DEBUTPARAM stays in
\* the frame of the caller, what is after it is the parameters.
Attente(q) == SubSeq(q, 1, AbsCadres!DerniereMarque(q))
Passees(q) == SubSeq(q, AbsCadres!DerniereMarque(q) + 1, Len(q))

\* They are those of PileF, and no reference is among them.
LEMMA CoupeVue ==
  ASSUME NEW b, NEW s, Bon(s, b), NEW p \in Seq(Vals),
         \A i \in DOMAIN p : p[i] \in Refs => p[i].adr \in D(s, s.n) .. s.l - 1,
         DerniereMarque(p) \in 1 .. Len(p), \A i \in DerniereMarque(p) .. Len(p) : p[i] \in Simples
  PROVE  /\ AbsCadres!DerniereMarque(VueDe(s, b, s.n, p)) > 0
         /\ VueDe(s, b, s.n, SubSeq(p, 1, DerniereMarque(p))) = Attente(VueDe(s, b, s.n, p))
         /\ Parametres(p, Len(p), DerniereMarque(p)) = Passees(VueDe(s, b, s.n, p))
         /\ \A i \in DOMAIN Passees(VueDe(s, b, s.n, p)) : ~AbsCadres!EstRef(Passees(VueDe(s, b, s.n, p))[i])
<1>. DEFINE n == s.n
            q == VueDe(s, b, n, p)
            m == DerniereMarque(p)
            k == Len(p)
<1>1. /\ n \in 0 .. s.n /\ D(s, n) \in Nat /\ V(s, n, b) \in Nat
  <2>1. n \in 0 .. s.n
    BY Bornes
  <2>. QED BY <2>1, Bornes
<1>2. /\ AbsCadres!DerniereMarque(q) = m
      /\ \A i \in 1 .. k : p[i] \in Simples => q[i] = p[i]
  BY MarqueVue
<1>3. q \in Seq(Vues) /\ Len(q) = k
  BY <1>1, VueSuite
<1>4. VueDe(s, b, n, SubSeq(p, 1, m)) = SubSeq(q, 1, m)
  <2>1. m \in 0 .. Len(p)
    OBVIOUS
  <2>. HIDE DEF m
  <2>. QED BY <1>1, <2>1, VueDebut
<1>5. m \in 1 .. k /\ k \in Nat /\ m \in Nat /\ \A i \in m .. k : p[i] \in Simples
  OBVIOUS
<1>. HIDE DEF q, m, k
<1>6. ASSUME NEW i \in 1 .. k - m PROVE q[m + i] = p[m + i] /\ p[m + i] \in Simples
  <2>1. m + i \in 1 .. k /\ m + i \in m .. k
    BY <1>5
  <2>. QED BY <1>2, <1>5, <2>1
<1>. DEFINE r == SubSeq(q, m + 1, Len(q))
<1>7. r \in Seq(Vues) /\ Len(r) = k - m /\ \A i \in 1 .. k - m : r[i] = q[m + i]
  BY <1>3, <1>5, SMTT(20)
<1>8. r = Passees(q)
  BY <1>2 DEF Passees
<1>. HIDE DEF r
<1>9. r = [i \in 1 .. k - m |-> r[i]] /\ DOMAIN r = 1 .. k - m
  BY <1>5, <1>7
<1>10. r = Parametres(p, k, m)
  <2>1. \A i \in 1 .. k - m : r[i] = p[m + i]
    BY <1>6, <1>7
  <2>. QED BY <1>9, <2>1 DEF Parametres
<1>11. \A i \in DOMAIN r : ~AbsCadres!EstRef(r[i])
  <2>1. \A i \in 1 .. k - m : r[i] \in Simples
    BY <1>6, <1>7
  <2>. QED BY <1>9, <2>1 DEF AbsCadres!EstRef, Simples
<1>12. AbsCadres!DerniereMarque(q) > 0
  BY <1>2, <1>5
<1>. QED BY <1>2, <1>4, <1>8, <1>10, <1>11, <1>12 DEF q, m, k, Attente

\* The values of an expression without references are seen as they are.
LEMMA VuesSimples ==
  ASSUME NEW b, NEW s, NEW k, NEW p \in Seq(Simples)
  PROVE  VueDe(s, b, k, p) = p
<1>. DEFINE m == Len(p)
<1>1. DOMAIN p = 1 .. m /\ p = [i \in 1 .. m |-> p[i]] /\ \A i \in 1 .. m : p[i] \in Simples
  OBVIOUS
<1>2. \A i \in 1 .. m : Vue(s, b, k, p[i]) = p[i]
  BY <1>1, VueSimple
<1>. HIDE DEF m
<1>. QED BY <1>1, <1>2 DEF VueDe

\* A call of v, seen by a script: q is the expression of the caller.
VuAppeler(s, t, b, q, v, garde) ==
  /\ AbsCadres!DerniereMarque(q) > 0
  /\ \A i \in DOMAIN Passees(q) : ~AbsCadres!EstRef(Passees(q)[i])
  /\ t.n = s.n + 1
  /\ \A k \in 0 .. s.n - 1 : \A h : CadreAvec(t, b, k, h) = CadreAvec(s, b, k, h)
  /\ \A h : CadreAvec(t, b, s.n, h)
            = UnCadre(Attente(q), ParamsEn(s, b, s.n), LocalesEn(s, b, s.n), s.Appel[s.n].EnErreur, h, s.Ins)
  /\ CadreEn(t, b, t.n) = UnCadre(t.Pile, Passees(q), Vides, Nul, t.This, v)
  /\ \A k \in 0 .. s.n : /\ Gardes(s, k) # {} => ThisEn(t, k) = ThisEn(s, k)
                         /\ Gardes(s, k) = {} => ThisEn(t, k) = IF garde # Nul THEN garde ELSE t.This

\* AppelerEtiquette, without a reference among the parameters, is seen so.
LEMMA AppelVu ==
  ASSUME NEW b, NEW s, NEW t, NEW p, NEW v, NEW garde,
         ApresAppel(s, t, b, p, Len(p), DerniereMarque(p), v, garde),
         \A i \in DOMAIN p : p[i] \in Refs => p[i].adr \in D(s, s.n) .. s.l - 1,
         \A i \in DerniereMarque(p) .. Len(p) : p[i] \in Simples, t.Pile \in Seq(Simples)
  PROVE  VuAppeler(s, t, b, VueDe(s, b, s.n, p), v, garde)
<1>. DEFINE q == VueDe(s, b, s.n, p)
            m == DerniereMarque(p)
            k == Len(p)
<1>1. /\ Bon(s, b) /\ p \in Seq(Vals) /\ m \in 1 .. k /\ Appele(s, t, p, k, m) /\ Suspend(s, t, v, garde)
      /\ s.n \in Nat
  BY Bornes DEF ApresAppel
<1>2. ApresAppel(s, t, b, p, k, m, v, garde)
  OBVIOUS
<1>4. /\ AbsCadres!DerniereMarque(q) > 0
      /\ VueDe(s, b, s.n, SubSeq(p, 1, m)) = Attente(q)
      /\ Parametres(p, k, m) = Passees(q)
      /\ \A i \in DOMAIN Passees(q) : ~AbsCadres!EstRef(Passees(q)[i])
  BY <1>1, CoupeVue
<1>. HIDE DEF q, k, m
<1>5. t.n = s.n + 1 /\ t.n \in Nat
  BY <1>1 DEF Appele
<1>6. \A j \in 0 .. s.n - 1 : \A h : CadreAvec(t, b, j, h) = CadreAvec(s, b, j, h)
  BY <1>2, CadreAppele
<1>12. \A h : CadreAvec(t, b, s.n, h)
             = UnCadre(VueDe(s, b, s.n, SubSeq(p, 1, m)), ParamsEn(s, b, s.n), LocalesEn(s, b, s.n),
                       s.Appel[s.n].EnErreur, h, s.Ins)
  BY <1>2, CadreAppele
<1>13. \A h : CadreAvec(t, b, t.n, h) = UnCadre(VueDe(t, b, t.n, t.Pile), Parametres(p, k, m), Vides, Nul, h, v)
  BY <1>2, CadreAppele
<1>7. VueDe(t, b, t.n, t.Pile) = t.Pile
  BY VuesSimples
<1>8. ThisEn(t, t.n) = t.This
  BY <1>5, Actuel
<1>9. CadreEn(t, b, t.n) = UnCadre(t.Pile, Passees(q), Vides, Nul, t.This, v)
  BY <1>4, <1>7, <1>8, <1>13 DEF CadreEn
<1>10. \A j \in 0 .. s.n : /\ Gardes(s, j) # {} => ThisEn(t, j) = ThisEn(s, j)
                           /\ Gardes(s, j) = {} => ThisEn(t, j) = IF garde # Nul THEN garde ELSE t.This
  <2>1. t.Appel[s.n].This = garde /\ \A j \in 0 .. s.n - 1 : t.Appel[j].This = s.Appel[j].This
    BY <1>1 DEF Suspend
  <2>. QED BY <1>1, <1>5, <2>1, ThisAppele, SMTT(20)
<1>11. VuAppeler(s, t, b, q, v, garde)
  BY <1>4, <1>5, <1>6, <1>9, <1>10, <1>12 DEF VuAppeler
<1>. QED BY <1>11 DEF q

\* An instruction that calls.
LEMMA AppelAbstrait ==
  ASSUME Inv, NEW p \in Seq(Vals), \A i \in DOMAIN p : p[i] \in Refs => p[i].adr \in DebutParam .. l - 1,
         NEW v \in Lieux, NEW garde \in Objets \cup {Nul}, AppelerEtiquette(p, v, garde),
         Pile' \in Seq(Simples), This' \in Objets \cup {Nul}
  PROVE  /\ VuAppeler(Etat, Etat', BasenParams, VueDe(Etat, BasenParams, nAppels, p), v, garde)
         /\ BasenParams' = BasenParams
<1>. DEFINE t == Etat'
            b == BasenParams
            m == DerniereMarque(p)
            k == Len(p)
<1>1. /\ t \in Etats /\ BasenParams' = b /\ Etat.l + k <= Memoire
      /\ m \in 1 .. k /\ \A i \in m .. k : p[i] \in Simples
      /\ Appele(Etat, t, p, k, m)
      /\ Suspend(Etat, t, v, garde)
  BY AppelFait
<1>2. Etat.n = nAppels /\ Bon(Etat, b) /\ D(Etat, nAppels) = DebutParam /\ Etat.l = l
  BY Lecture DEF Inv
<1>3. t.Pile = Pile'
  BY DEF Etat
<1>4. k \in Nat
  OBVIOUS
<1>. HIDE DEF t, Etat, m, k
<1>5. k \in 0 .. k
  BY <1>4
<1>6. ApresAppel(Etat, t, b, p, Len(p), DerniereMarque(p), v, garde)
  BY <1>1, <1>2, <1>5 DEF ApresAppel, Etats, k, m
<1>7. VuAppeler(Etat, t, b, VueDe(Etat, b, nAppels, p), v, garde)
  <2>1. /\ \A i \in DOMAIN p : p[i] \in Refs => p[i].adr \in D(Etat, Etat.n) .. Etat.l - 1
        /\ \A i \in DerniereMarque(p) .. Len(p) : p[i] \in Simples /\ t.Pile \in Seq(Simples)
    BY <1>1, <1>2, <1>3 DEF k, m
  <2>2. t.Pile \in Seq(Simples)
    BY <1>3
  <2>. QED BY <1>2, <1>6, <2>1, <2>2, AppelVu
<1>. QED BY <1>1, <1>7 DEF t

\* A call of a function, seen by a script.
LEMMA FonctionVue ==
  ASSUME NEW b, NEW s, s.n \in Nat, NEW t, NEW q, NEW v, VuAppeler(s, t, b, q, v, Nul), t.This = s.This
  PROVE  CadresEn(t, b) = SubSeq(CadresEn(s, b), 1, Len(CadresEn(s, b)) - 1)
                          \o <<AvecPile(CadreEn(s, b, s.n), Attente(q)),
                               UnCadre(t.Pile, Passees(q), Vides, Nul, s.This, v)>>
<1>. DEFINE n == s.n
            c == CadreEn(s, b, n)
            d == UnCadre(t.Pile, Passees(q), Vides, Nul, s.This, v)
<1>1. \A k \in 0 .. n : ThisEn(t, k) = ThisEn(s, k)
  <2>. TAKE k \in 0 .. n
  <2>1. CASE Gardes(s, k) = {}
    <3>1. ThisEn(t, k) = s.This
      BY <2>1 DEF VuAppeler
    <3>. QED BY <2>1, <3>1, ThisGarde
  <2>2. CASE Gardes(s, k) # {}
    BY <2>2 DEF VuAppeler
  <2>. QED BY <2>1, <2>2
<1>2. t.n = n + 1 /\ CadreEn(t, b, t.n) = d /\ n \in Nat /\ n \in 0 .. n
  BY DEF VuAppeler
<1>3. \A k \in 0 .. n - 1 : CadreEn(t, b, k) = CadreEn(s, b, k)
  <2>. TAKE k \in 0 .. n - 1
  <2>1. k \in 0 .. n
    OBVIOUS
  <2>2. CadreAvec(t, b, k, ThisEn(s, k)) = CadreAvec(s, b, k, ThisEn(s, k))
    BY DEF VuAppeler
  <2>. QED BY <1>1, <2>1, <2>2 DEF CadreEn
<1>4. CadreEn(t, b, n) = AvecPile(c, Attente(q))
  <2>1. c = UnCadre(VueDe(s, b, n, s.Pile), ParamsEn(s, b, n), LocalesEn(s, b, n), s.Appel[n].EnErreur, s.This, s.Ins)
    BY Actuel
  <2>2. AvecPile(c, Attente(q))
        = UnCadre(Attente(q), ParamsEn(s, b, n), LocalesEn(s, b, n), s.Appel[n].EnErreur, s.This, s.Ins)
    <3>. HIDE DEF c
    <3>. QED BY <2>1, Champs
  <2>3. CadreAvec(t, b, n, s.This)
        = UnCadre(Attente(q), ParamsEn(s, b, n), LocalesEn(s, b, n), s.Appel[n].EnErreur, s.This, s.Ins)
    BY DEF VuAppeler
  <2>4. ThisEn(t, n) = s.This
    BY <1>1, <1>2, Actuel
  <2>. QED BY <2>2, <2>3, <2>4 DEF CadreEn
<1>. HIDE DEF c, d
<1>. QED BY <1>2, <1>3, <1>4, Ajoute DEF c, d, n

\* The frames of the callers of a method on o: a frame that has no "this" gets
\* this one, the last has the expression q.
Appelants(C, q, o) ==
  [i \in DOMAIN C |-> AvecThis(C[i], IF i = Len(C) THEN q ELSE C[i].pile, IF C[i].this = Nul THEN o ELSE C[i].this)]

\* The call of a method, that keeps the This of its caller.
VuMethode(s, t, b, q, v) == VuAppeler(s, t, b, q, v, s.This)

\* A call of a method, seen by a script.
LEMMA MethodeVue ==
  ASSUME NEW b, NEW s, s.n \in Nat, NEW t, NEW q, NEW v, VuMethode(s, t, b, q, v)
  PROVE  CadresEn(t, b) = Append(Appelants(CadresEn(s, b), Attente(q), t.This),
                                 UnCadre(t.Pile, Passees(q), Vides, Nul, t.This, v))
<1>. DEFINE n == s.n
            C == CadresEn(s, b)
            G == Appelants(C, Attente(q), t.This)
            d == UnCadre(t.Pile, Passees(q), Vides, Nul, t.This, v)
<1>1. ASSUME NEW k \in 0 .. n PROVE ThisEn(t, k) = IF ThisEn(s, k) = Nul THEN t.This ELSE ThisEn(s, k)
  <2>1. CASE Gardes(s, k) = {}
    <3>1. ThisEn(t, k) = IF s.This # Nul THEN s.This ELSE t.This
      BY <2>1 DEF VuMethode, VuAppeler
    <3>. QED BY <2>1, <3>1, ThisGarde
  <2>2. CASE Gardes(s, k) # {}
    <3>1. ThisEn(t, k) = ThisEn(s, k)
      BY <2>2 DEF VuMethode, VuAppeler
    <3>2. ThisEn(s, k) # Nul
      BY <2>2, ThisGarde
    <3>. QED BY <3>1, <3>2
  <2>. QED BY <2>1, <2>2
<1>2. t.n = n + 1 /\ CadreEn(t, b, t.n) = d /\ n \in Nat /\ n \in 0 .. n
  BY DEF VuMethode, VuAppeler
<1>3. ASSUME NEW k \in 0 .. n
      PROVE  CadreEn(t, b, k) = AvecThis(CadreEn(s, b, k), IF k = n THEN Attente(q) ELSE CadreEn(s, b, k).pile,
                                         IF CadreEn(s, b, k).this = Nul THEN t.This ELSE CadreEn(s, b, k).this)
  <2>. DEFINE c == CadreEn(s, b, k)
              h == ThisEn(s, k)
              j == IF h = Nul THEN t.This ELSE h
              x == VueDe(s, b, k, PileEn(s, k))
              f == ParamsEn(s, b, k)
              g == LocalesEn(s, b, k)
              e == s.Appel[k].EnErreur
              z == InsEn(s, k)
  <2>1. c = UnCadre(x, f, g, e, h, z)
    BY DEF CadreEn, CadreAvec
  <2>2. ThisEn(t, k) = j
    BY <1>1
  <2>. HIDE DEF c, h, x, f, g, e, z
  <2>3. c.pile = x /\ c.this = h /\ \A y, w : AvecThis(c, y, w) = UnCadre(y, f, g, e, w, z)
    BY <2>1, Champs
  <2>4. CASE k = n
    <3>1. CadreAvec(t, b, k, j) = UnCadre(Attente(q), f, g, e, j, z)
      <4>1. z = s.Ins
        BY <2>4 DEF z, InsEn
      <4>. HIDE DEF j
      <4>. QED BY <2>4, <4>1 DEF VuMethode, VuAppeler, f, g, e
    <3>. QED BY <2>2, <2>3, <2>4, <3>1 DEF CadreEn, c
  <2>5. CASE k # n
    <3>1. k \in 0 .. n - 1
      BY <1>2, <2>5
    <3>2. CadreAvec(t, b, k, j) = CadreAvec(s, b, k, j)
      <4>. HIDE DEF j
      <4>. QED BY <3>1 DEF VuMethode, VuAppeler
    <3>3. CadreAvec(s, b, k, j) = UnCadre(x, f, g, e, j, z)
      BY DEF CadreAvec, x, f, g, e, z
    <3>. QED BY <2>2, <2>3, <2>5, <3>2, <3>3 DEF CadreEn, c
  <2>. QED BY <2>4, <2>5
<1>4. /\ Len(C) = n + 1 /\ DOMAIN C = 1 .. n + 1 /\ \A k \in 0 .. n : C[k + 1] = CadreEn(s, b, k)
  BY Longueur
<1>. HIDE DEF C
<1>5. DOMAIN G = 1 .. n + 1 /\ G = [i \in 1 .. n + 1 |-> CadreEn(t, b, i - 1)]
  <2>1. ASSUME NEW i \in 1 .. n + 1
        PROVE  AvecThis(C[i], IF i = Len(C) THEN Attente(q) ELSE C[i].pile,
                        IF C[i].this = Nul THEN t.This ELSE C[i].this) = CadreEn(t, b, i - 1)
    <3>1. i - 1 \in 0 .. n /\ (i - 1) + 1 = i /\ (i = Len(C) <=> i - 1 = n)
      BY <1>2, <1>4
    <3>2. C[i] = CadreEn(s, b, i - 1)
      BY <1>4, <3>1
    <3>. QED BY <1>3, <3>1, <3>2
  <2>. QED BY <1>4, <2>1 DEF Appelants
<1>. HIDE DEF G, d
<1>6. CadresEn(t, b) = Append(G, CadreEn(t, b, t.n))
  BY <1>2, <1>5, AjouteA
<1>. QED BY <1>2, <1>6 DEF G, d, C

\* The frame a function starts with.
LEMMA Neuf ==
  ASSUME NEW a, NEW h, NEW v
  PROVE  AbsCadres!CadreDe(a, h, v) = UnCadre(<<>>, a, Vides, Nul, h, v)
BY DEF AbsCadres!CadreDe, UnCadre, Vides

\* What the element of Appel above the calls in progress keeps.
LEMMA GardeLibre ==
  ASSUME Inv, SansThis(Etat)
  PROVE  Appel[nAppels].This = Nul /\ Nul \in Objets \cup {Nul}
<1>1. Etat.n = nAppels /\ Etat.Appel = Appel /\ nAppels \in 0 .. NMAXAPPELS /\ NMAXAPPELS \in Nat
  BY Lecture, AppelsAssumption
<1>2. nAppels \in Etat.n .. NMAXAPPELS
  BY <1>1
<1>. QED BY <1>1, <1>2 DEF SansThis

\* I_EXEC calls a function.
LEMMA ExecAbstrait == ASSUME Inv, SansThis(Etat), Exec PROVE AbsCadres!AppelerFonction
<1>1. PICK v \in Lieux : AppelerEtiquette(Pile, v, Appel[nAppels].This)
  BY DEF Exec
<1>2. Appel[nAppels].This = Nul /\ Nul \in Objets \cup {Nul}
  BY GardeLibre
<1>3. Pile' \in Seq(Simples) /\ This' \in Objets \cup {Nul} /\ Pile' = <<>> /\ This' = This
  BY Lecture DEF Exec, Elements
<1>4. Pile \in Seq(Vals) /\ \A i \in DOMAIN Pile : Pile[i] \in Refs => Pile[i].adr \in DebutParam .. l - 1
  BY Lecture
<1>. DEFINE t == Etat'
            b == BasenParams
            q == VueDe(Etat, b, nAppels, Pile)
            C == CadresEn(Etat, b)
            c == CadreEn(Etat, b, nAppels)
            d == UnCadre(<<>>, Passees(q), Vides, Nul, This, v)
            e == AvecPile(c, Attente(q))
<1>5. VuAppeler(Etat, t, b, q, v, Nul) /\ BasenParams' = b
  BY <1>1, <1>2, <1>3, <1>4, AppelAbstrait
<1>6. Etat.n = nAppels /\ nAppels \in Nat /\ Etat.This = This /\ t.This = This /\ t.Pile = <<>>
  BY <1>3, Lecture DEF Etat
<1>7. AbsCadres!cadre = c /\ CadresAbs = C /\ c.pile = q /\ c.this = This
  BY Devant, Champs
<1>8. CadresAbs' = CadresEn(t, b)
  BY <1>5, Image
<1>. HIDE DEF t, q, Etat
<1>9. CadresEn(t, b) = SubSeq(C, 1, Len(C) - 1) \o <<e, d>>
  <2>1. CadresEn(t, b) = SubSeq(CadresEn(Etat, b), 1, Len(CadresEn(Etat, b)) - 1)
                          \o <<AvecPile(CadreEn(Etat, b, Etat.n), Attente(q)),
                               UnCadre(t.Pile, Passees(q), Vides, Nul, Etat.This, v)>>
    <3>1. VuAppeler(Etat, t, b, q, v, Nul) /\ Etat.n \in Nat /\ t.This = Etat.This
      BY <1>5, <1>6
    <3>. HIDE DEF b
    <3>. QED BY <3>1, FonctionVue
  <2>. QED BY <1>6, <2>1
<1>10. d = AbsCadres!CadreDe(Passees(q), AbsCadres!cadre.this, v)
  BY <1>7, Neuf
<1>11. e = [AbsCadres!cadre EXCEPT !.pile = Attente(q)]
  BY <1>7 DEF AvecPile
<1>12. CadresAbs' = AbsCadres!Front(CadresAbs) \o <<e, d>>
  BY <1>7, <1>8, <1>9 DEF AbsCadres!Front
<1>13. /\ AbsCadres!DerniereMarque(q) > 0
       /\ \A i \in DOMAIN Passees(q) : ~AbsCadres!EstRef(Passees(q)[i])
       /\ AbsCadres!cadre.pile = q
  BY <1>5, <1>7 DEF VuAppeler
<1>. HIDE DEF C, c, d, e
<1>. QED BY <1>10, <1>11, <1>12, <1>13 DEF AbsCadres!AppelerFonction, Passees, Attente

\* I_EXECTHIS calls a method.
LEMMA ExecThisAbstrait == ASSUME Inv, SansThis(Etat), ExecThis PROVE AbsCadres!AppelerMethode
<1>. DEFINE k == Len(Pile) - 1
            p == SubSeq(Pile, 1, k)
            o == Last(Pile)
<1>0. /\ Pile \in Seq(Vals) /\ Pile # <<>> /\ Appel[nAppels].This = Nul /\ This \in Objets \cup {Nul} /\ o \in Objets
      /\ Pile' = <<>> /\ This' = o
  BY Lecture, GardeLibre DEF ExecThis
<1>1. PICK v \in Lieux : AppelerEtiquette(p, v, This)
  BY <1>0 DEF ExecThis, Front
<1>2. k \in 0 .. Len(Pile) /\ k + 1 = Len(Pile) /\ Len(Pile) \in 1 .. Len(Pile) /\ o = Pile[Len(Pile)]
  BY <1>0 DEF Last
<1>3. Pile' \in Seq(Simples) /\ This' \in Objets \cup {Nul}
  BY <1>0
<1>. DEFINE t == Etat'
            b == BasenParams
            n == nAppels
            q == VueDe(Etat, b, n, Pile)
            r == SubSeq(q, 1, k)
            C == CadresEn(Etat, b)
            d == UnCadre(<<>>, Passees(r), Vides, Nul, o, v)
<1>4. p \in Seq(Vals) /\ \A i \in DOMAIN p : p[i] \in Refs => p[i].adr \in DebutParam .. l - 1
  <2>. HIDE DEF k
  <2>1. /\ p \in Seq(Vals) /\ Len(p) = k
        /\ \A i \in 1 .. k : p[i] = Pile[i]
        /\ \A i \in 1 .. k : Pile[i] \in Refs => Pile[i].adr \in DebutParam .. l - 1
    BY <1>2, Reste
  <2>. HIDE DEF p
  <2>2. DOMAIN p = 1 .. k
    BY <2>1
  <2>. QED BY <2>1, <2>2
<1>5. D(Etat, n) \in Nat /\ V(Etat, n, b) \in Nat
  BY Lecture
<1>6. VueDe(Etat, b, n, p) = r
  <2>. HIDE DEF k
  <2>. QED BY <1>0, <1>2, <1>5, VueDebut
<1>7. q \in Seq(Vues) /\ Len(q) = Len(Pile) /\ q[Len(Pile)] = o
  <2>1. q \in Seq(Vues) /\ Len(q) = Len(Pile) /\ q[Len(Pile)] = Vue(Etat, b, n, Pile[Len(Pile)])
    BY <1>0, <1>2, <1>5, VueSuite
  <2>2. o \in Simples
    BY <1>0 DEF Simples
  <2>. HIDE DEF q
  <2>. QED BY <1>2, <2>1, <2>2, VueSimple
<1>8. q # <<>> /\ AbsCadres!Last(q) = o /\ AbsCadres!Front(q) = r
  <2>. HIDE DEF q
  <2>1. q # <<>>
    BY <1>2, <1>7
  <2>. QED BY <1>7, <2>1 DEF AbsCadres!Last, AbsCadres!Front
<1>9. VuAppeler(Etat, t, b, r, v, This) /\ BasenParams' = b
  <2>. HIDE DEF p, r, t
  <2>1. VuAppeler(Etat, Etat', b, VueDe(Etat, b, n, p), v, This) /\ BasenParams' = b
    BY <1>0, <1>1, <1>3, <1>4, AppelAbstrait
  <2>. QED BY <1>6, <2>1 DEF t
<1>10. Etat.n = n /\ n \in Nat /\ Etat.This = This /\ t.This = o /\ t.Pile = <<>>
  BY <1>0, Lecture DEF Etat
<1>11. CadresAbs = C /\ AbsCadres!cadre.pile = q
  BY Devant, Champs
<1>12. CadresAbs' = CadresEn(t, b)
  BY <1>9, Image
<1>. HIDE DEF t, q, r, o, k, Etat
<1>13. CadresEn(t, b) = Append(Appelants(C, Attente(r), o), d)
  <2>1. VuMethode(Etat, t, b, r, v) /\ Etat.n \in Nat
    BY <1>9, <1>10 DEF VuMethode
  <2>. HIDE DEF b, C, d
  <2>2. CadresEn(t, b) = Append(Appelants(CadresEn(Etat, b), Attente(r), t.This),
                                 UnCadre(t.Pile, Passees(r), Vides, Nul, t.This, v))
    BY <2>1, MethodeVue
  <2>. QED BY <1>10, <2>2 DEF C, d
<1>14. d = AbsCadres!CadreDe(Passees(r), o, v)
  BY Neuf
<1>15. /\ AbsCadres!DerniereMarque(r) > 0
       /\ \A i \in DOMAIN Passees(r) : ~AbsCadres!EstRef(Passees(r)[i])
  BY <1>9 DEF VuAppeler
<1>. DEFINE p2 == AbsCadres!Front(AbsCadres!cadre.pile)
            o2 == AbsCadres!Last(AbsCadres!cadre.pile)
            m2 == AbsCadres!DerniereMarque(p2)
            params == SubSeq(p2, m2 + 1, Len(p2))
            appelants == [i \in DOMAIN CadresAbs |->
                            [CadresAbs[i] EXCEPT !.this = IF @ = Nul THEN o2 ELSE @,
                                                 !.pile = IF i = Len(CadresAbs) THEN SubSeq(p2, 1, m2) ELSE @]]
<1>16. p2 = r /\ o2 = o
  BY <1>8, <1>11
<1>17. appelants = Appelants(C, Attente(r), o)
  <2>1. Attente(p2) = SubSeq(p2, 1, m2)
    BY DEF Attente
  <2>2. appelants = Appelants(CadresAbs, Attente(p2), o2)
    <3>. HIDE DEF p2, o2, m2
    <3>. QED BY <2>1 DEF Appelants, AvecThis
  <2>. HIDE DEF appelants, p2, o2
  <2>. QED BY <1>11, <1>16, <2>2
<1>18. m2 > 0 /\ params = Passees(r) /\ \A i \in DOMAIN params : ~AbsCadres!EstRef(params[i])
  BY <1>15, <1>16 DEF Passees
<1>. HIDE DEF C, d, p2, appelants, params, m2, o2
<1>19. CadresAbs' = Append(appelants, AbsCadres!CadreDe(params, o2, v))
  BY <1>12, <1>13, <1>14, <1>16, <1>17, <1>18
<1>20. AbsCadres!cadre.pile # <<>> /\ o2 \in Objets
  BY <1>0, <1>8, <1>11, <1>16
<1>. QED BY <1>18, <1>19, <1>20 DEF AbsCadres!AppelerMethode, p2, o2, m2, params, appelants

\* Up to its last DEBUTPARAM an expression has that one.
LEMMA MarqueDebut ==
  ASSUME NEW p \in Seq(Vals), DerniereMarque(p) \in 1 .. Len(p)
  PROVE  DerniereMarque(SubSeq(p, 1, DerniereMarque(p))) = DerniereMarque(p)
<1>. DEFINE m == DerniereMarque(p)
            r == SubSeq(p, 1, m)
            I == {i \in 1 .. Len(p) : p[i] = Marque}
            J == {i \in 1 .. Len(r) : r[i] = Marque}
<1>1. m = IF I # {} THEN CHOOSE x \in I : \A y \in I : x >= y ELSE 0
  BY DEF DerniereMarque, SelectLastInSubSeq, Max
<1>2. DerniereMarque(r) = IF J # {} THEN CHOOSE x \in J : \A y \in J : x >= y ELSE 0
  BY DEF DerniereMarque, SelectLastInSubSeq, Max
<1>3. m \in 1 .. Len(p) /\ Len(p) \in Nat
  OBVIOUS
<1>. HIDE DEF m
<1>4. Len(r) = m /\ \A i \in 1 .. m : r[i] = p[i]
  BY <1>3
<1>5. p[m] = Marque
  <2>1. DerniereMarque(p) > 0 => p[DerniereMarque(p)] = Marque
    BY Marquage
  <2>. QED BY <1>3, <2>1 DEF m
<1>6. m \in J /\ \A y \in J : y \in 1 .. m
  BY <1>3, <1>4, <1>5
<1>. HIDE DEF J, r
<1>7. m >= m /\ \A y \in J : m >= y /\ y \in Nat
  BY <1>3, <1>6
<1>8. \A x \in J : (\A y \in J : x >= y) => x = m
  BY <1>3, <1>6, <1>7
<1>9. (CHOOSE x \in J : \A y \in J : x >= y) = m
  BY <1>6, <1>7, <1>8
<1>. QED BY <1>2, <1>6, <1>9 DEF m, r

\* Nothing is after the DEBUTPARAM of an expression cut there.
LEMMA CoupeCourte ==
  ASSUME NEW q \in Seq(Vues), AbsCadres!DerniereMarque(q) = Len(q)
  PROVE  Attente(q) = q /\ Passees(q) = <<>>
<1>1. SubSeq(q, 1, Len(q)) = q /\ SubSeq(q, Len(q) + 1, Len(q)) = <<>>
  <2>. DEFINE r == SubSeq(q, 1, Len(q))
              z == SubSeq(q, Len(q) + 1, Len(q))
  <2>1. r \in Seq(Vues) /\ Len(r) = Len(q) /\ \A i \in 1 .. Len(q) : r[i] = q[i]
    OBVIOUS
  <2>2. z \in Seq(Vues) /\ Len(z) = 0
    OBVIOUS
  <2>. HIDE DEF r, z
  <2>3. r = q /\ z = <<>>
    BY <2>1, <2>2
  <2>. QED BY <2>3 DEF r, z
<1>. QED BY <1>1 DEF Attente, Passees

\* The expression a script sees in the current frame, when its last DEBUTPARAM
\* is at m.
LEMMA PileVue ==
  ASSUME Inv, DerniereMarque(Pile) > 0
  PROVE  LET b == BasenParams
             m == DerniereMarque(Pile)
             q == VueDe(Etat, b, nAppels, Pile)
         IN /\ m \in 1 .. Len(Pile) /\ Pile \in Seq(Vals) /\ q \in Seq(Vues) /\ Len(q) = Len(Pile)
            /\ AbsCadres!DerniereMarque(q) = m
            /\ \A i \in 1 .. Len(Pile) : Pile[i] \in Simples => q[i] = Pile[i]
            /\ \A j \in 0 .. Len(Pile) : VueDe(Etat, b, nAppels, SubSeq(Pile, 1, j)) = SubSeq(q, 1, j)
<1>. DEFINE b == BasenParams
            m == DerniereMarque(Pile)
            q == VueDe(Etat, b, nAppels, Pile)
<1>1. Pile \in Seq(Vals) /\ D(Etat, nAppels) \in Nat /\ V(Etat, nAppels, b) \in Nat
      /\ \A i \in DOMAIN Pile : Pile[i] \in Refs => Pile[i].adr \in DebutParam .. l - 1
  BY Lecture
<1>2. m \in 1 .. Len(Pile)
  <2>1. m \in 0 .. Len(Pile)
    BY <1>1, Marquage
  <2>. QED BY <2>1
<1>3. Bon(Etat, b) /\ Etat.n = nAppels /\ D(Etat, nAppels) = DebutParam /\ Etat.l = l
  BY Lecture DEF Inv
<1>. HIDE DEF m, Etat, b
<1>4. q \in Seq(Vues) /\ Len(q) = Len(Pile)
  BY <1>1, VueSuite
<1>5. AbsCadres!DerniereMarque(q) = DerniereMarque(Pile)
      /\ \A i \in 1 .. Len(Pile) : Pile[i] \in Simples => q[i] = Pile[i]
  <2>. DEFINE p == Pile
  <2>1. p \in Seq(Vals) /\ \A i \in DOMAIN p : p[i] \in Refs => p[i].adr \in D(Etat, Etat.n) .. Etat.l - 1
    BY <1>1, <1>3
  <2>. HIDE DEF p
  <2>2. AbsCadres!DerniereMarque(VueDe(Etat, b, Etat.n, p)) = DerniereMarque(p)
        /\ \A i \in 1 .. Len(p) : p[i] \in Simples => VueDe(Etat, b, Etat.n, p)[i] = p[i]
    BY <1>3, <2>1, MarqueVue
  <2>. QED BY <1>3, <2>2 DEF p
<1>6. \A j \in 0 .. Len(Pile) : VueDe(Etat, b, nAppels, SubSeq(Pile, 1, j)) = SubSeq(q, 1, j)
  BY <1>1, VueDebut
<1>. QED BY <1>1, <1>2, <1>4, <1>5, <1>6 DEF m, b

\* Another expression and another place, in the same frame.
LEMMA SuiteAbstraite ==
  ASSUME Inv, UNCHANGED <<memoire, appels>>
  PROVE  AbsCadres!Remplacer(AvecSuite(AbsCadres!cadre, VueDe(Etat, BasenParams, nAppels, Pile'), Ins'))
<1>1. Etat' = Suite(Etat, Pile', Ins') /\ BasenParams' = BasenParams
  <2>1. /\ PileF' = PileF /\ l' = l /\ Appel' = Appel /\ nAppels' = nAppels /\ DebutParam' = DebutParam
        /\ DebutVarLoc' = DebutVarLoc /\ BasenParams' = BasenParams /\ This' = This
    BY DEF memoire, appels
  <2>. QED BY <2>1 DEF Etat, Suite
<1>2. CadresAbs' = CadresEn(Suite(Etat, Pile', Ins'), BasenParams)
  BY <1>1, Image
<1>. DEFINE C == CadresEn(Etat, BasenParams)
            c == CadreEn(Etat, BasenParams, nAppels)
            p == Pile'
            i == Ins'
<1>3. CadresEn(Suite(Etat, p, i), BasenParams) = [C EXCEPT ![Len(C)] = AvecSuite(c, VueDe(Etat, BasenParams, nAppels, p), i)]
  <2>1. Etat.n = nAppels /\ Bon(Etat, BasenParams)
    BY Devant
  <2>. HIDE DEF p, i, Etat
  <2>. QED BY <2>1, CadreSuite
<1>4. CadresAbs = C /\ AbsCadres!cadre = c
  BY Devant
<1>. HIDE DEF C, c, Etat
<1>. QED BY <1>2, <1>3, <1>4 DEF AbsCadres!Remplacer

\* biGotoMulti draws nothing, or a place, or a function.
LEMMA GotoMultiAbstrait == ASSUME Inv, SansThis(Etat), GotoMulti PROVE AbsCadres!Tirer
<1>. DEFINE b == BasenParams
            n == nAppels
            m == DerniereMarque(Pile)
            k == Len(Pile)
            q == VueDe(Etat, b, n, Pile)
            c == AbsCadres!cadre
            p == SubSeq(Pile, 1, m)
            r == SubSeq(q, 1, m)
            z == SubSeq(Pile, 1, m - 1)
            y == SubSeq(q, 1, m - 1)
<1>1. m > 0 /\ \A i \in m + 1 .. k : Pile[i] \in Valeurs
  BY DEF GotoMulti
<1>2. /\ m \in 1 .. k /\ Pile \in Seq(Vals) /\ q \in Seq(Vues) /\ Len(q) = k
      /\ AbsCadres!DerniereMarque(q) = m
      /\ \A i \in 1 .. k : Pile[i] \in Simples => q[i] = Pile[i]
      /\ \A j \in 0 .. k : VueDe(Etat, b, n, SubSeq(Pile, 1, j)) = SubSeq(q, 1, j)
  BY <1>1, PileVue
<1>3. /\ k \in Nat /\ m \in 0 .. k /\ m - 1 \in 0 .. k /\ m \in Nat
  BY <1>2
<1>4. VueDe(Etat, b, n, p) = r /\ VueDe(Etat, b, n, z) = y
  BY <1>2, <1>3
<1>5. c.pile = q /\ c.this = This /\ \A w : AvecSuite(c, w, Ins) = AvecPile(c, w)
  BY Devant, Champs
<1>6. m > 0 /\ \A i \in m + 1 .. k : q[i] \in Valeurs
  <2>. HIDE DEF q, m, k
  <2>1. \A i \in m + 1 .. k : i \in 1 .. k
    BY <1>3
  <2>. QED BY <1>1, <1>2, <2>1 DEF Simples
<1>7. Inconnu \in Simples /\ Inconnu \in Vals /\ <<Inconnu>> \in Seq(Simples)
  BY DEF Simples, Vals
<1>8. CASE /\ Pile' = Append(z, Inconnu)
           /\ UNCHANGED <<memoire, appels, Ins>>
  <2>1. VueDe(Etat, b, n, Append(z, Inconnu)) = Append(y, Inconnu)
    <3>1. z \in Seq(Vals) /\ D(Etat, n) \in Nat /\ V(Etat, n, b) \in Nat
      BY <1>2, <1>3, Lecture
    <3>. HIDE DEF z
    <3>2. VueDe(Etat, b, n, Append(z, Inconnu)) = Append(VueDe(Etat, b, n, z), Vue(Etat, b, n, Inconnu))
      BY <1>7, <3>1, VueAjout
    <3>3. Vue(Etat, b, n, Inconnu) = Inconnu
      BY <1>7, VueSimple
    <3>. HIDE DEF y
    <3>. QED BY <1>4, <3>2, <3>3
  <2>2. AbsCadres!Remplacer(AvecSuite(c, VueDe(Etat, b, n, Pile'), Ins'))
    BY <1>8, SuiteAbstraite
  <2>3. AbsCadres!Remplacer(AvecPile(c, Append(y, Inconnu)))
    BY <1>5, <1>8, <2>1, <2>2
  <2>. HIDE DEF c
  <2>4. AbsCadres!Remplacer([c EXCEPT !.pile = Append(SubSeq(q, 1, AbsCadres!DerniereMarque(q) - 1), Inconnu)])
    BY <1>2, <2>3 DEF AvecPile
  <2>. HIDE DEF q
  <2>. QED BY <1>2, <1>5, <1>6, <2>4 DEF AbsCadres!Tirer, c
<1>9. CASE m < k /\ Pile' = <<Inconnu>> /\ Ins' \in Lieux /\ UNCHANGED <<memoire, appels>>
  <2>1. VueDe(Etat, b, n, <<Inconnu>>) = <<Inconnu>>
    BY <1>7, VuesSimples
  <2>2. AbsCadres!Remplacer(AvecSuite(c, VueDe(Etat, b, n, Pile'), Ins'))
    BY <1>9, SuiteAbstraite
  <2>3. AbsCadres!Remplacer(AvecSuite(c, <<Inconnu>>, Ins'))
    BY <1>9, <2>1, <2>2
  <2>. HIDE DEF c
  <2>4. \E v \in Lieux : AbsCadres!Remplacer([c EXCEPT !.pile = <<Inconnu>>, !.ins = v])
    BY <1>9, <2>3 DEF AvecSuite
  <2>. HIDE DEF q
  <2>. QED BY <1>2, <1>5, <1>6, <1>9, <2>4 DEF AbsCadres!Tirer, c
<1>10. CASE /\ m < k /\ \E v \in Lieux : AppelerEtiquette(p, v, Appel[nAppels].This)
            /\ Pile' = <<Inconnu>>
            /\ UNCHANGED This
  <2>1. PICK v \in Lieux : AppelerEtiquette(p, v, Appel[nAppels].This)
    BY <1>10
  <2>2. Appel[nAppels].This = Nul /\ Nul \in Objets \cup {Nul} /\ This' \in Objets \cup {Nul}
    BY <1>10, GardeLibre, Lecture
  <2>3. p \in Seq(Vals) /\ \A i \in DOMAIN p : p[i] \in Refs => p[i].adr \in DebutParam .. l - 1
    <3>. HIDE DEF m, k
    <3>1. /\ p \in Seq(Vals) /\ Len(p) = m
          /\ \A i \in 1 .. m : p[i] = Pile[i]
          /\ \A i \in 1 .. m : Pile[i] \in Refs => Pile[i].adr \in DebutParam .. l - 1
      BY <1>3, Reste DEF k
    <3>. HIDE DEF p
    <3>2. DOMAIN p = 1 .. m
      BY <3>1
    <3>. QED BY <3>1, <3>2
  <2>. DEFINE t == Etat'
              C == CadresEn(Etat, b)
              d == UnCadre(<<Inconnu>>, <<>>, Vides, Nul, This, v)
              e == AvecPile(c, r)
  <2>4. VuAppeler(Etat, t, b, r, v, Nul) /\ BasenParams' = b
    <3>. HIDE DEF p, r, t
    <3>1. VuAppeler(Etat, Etat', b, VueDe(Etat, b, n, p), v, Nul) /\ BasenParams' = b
      BY <1>7, <1>10, <2>1, <2>2, <2>3, AppelAbstrait
    <3>. QED BY <1>4, <3>1 DEF t
  <2>5. AbsCadres!DerniereMarque(r) = m /\ r \in Seq(Vues) /\ Len(r) = m
    <3>1. DerniereMarque(p) = m
      BY <1>2, MarqueDebut
    <3>2. Bon(Etat, b) /\ Etat.n = n /\ D(Etat, n) = DebutParam /\ Etat.l = l
      BY Lecture DEF Inv
    <3>3. r \in Seq(Vues) /\ Len(r) = m
      <4>. HIDE DEF m, k, q
      <4>. QED BY <1>2, <1>3
    <3>. HIDE DEF p, Etat, r, m, b
    <3>4. AbsCadres!DerniereMarque(VueDe(Etat, b, Etat.n, p)) = DerniereMarque(p)
      BY <2>3, <3>2, MarqueVue
    <3>. QED BY <1>4, <3>1, <3>2, <3>3, <3>4
  <2>6. Attente(r) = r /\ Passees(r) = <<>>
    <3>. HIDE DEF r, m
    <3>. QED BY <2>5, CoupeCourte
  <2>7. Etat.n = n /\ n \in Nat /\ Etat.This = This /\ t.This = This /\ t.Pile = <<Inconnu>>
    BY <1>10, Lecture DEF Etat
  <2>8. CadresAbs = C /\ c = CadreEn(Etat, b, n)
    BY Devant
  <2>9. CadresAbs' = CadresEn(t, b)
    BY <2>4, Image
  <2>. HIDE DEF t, r, Etat, c
  <2>10. CadresEn(t, b) = SubSeq(C, 1, Len(C) - 1) \o <<e, d>>
    <3>1. VuAppeler(Etat, t, b, r, v, Nul) /\ Etat.n \in Nat /\ t.This = Etat.This
      BY <2>4, <2>7
    <3>. HIDE DEF b, C, d, e
    <3>2. CadresEn(t, b) = SubSeq(CadresEn(Etat, b), 1, Len(CadresEn(Etat, b)) - 1)
                          \o <<AvecPile(CadreEn(Etat, b, Etat.n), Attente(r)),
                               UnCadre(t.Pile, Passees(r), Vides, Nul, Etat.This, v)>>
      BY <3>1, FonctionVue
    <3>. QED BY <2>6, <2>7, <2>8, <3>2 DEF C, d, e
  <2>11. CadresAbs' = AbsCadres!Front(CadresAbs) \o <<e, d>>
    BY <2>8, <2>9, <2>10 DEF AbsCadres!Front
  <2>12. d = [AbsCadres!CadreDe(<<>>, c.this, v) EXCEPT !.pile = <<Inconnu>>]
    <3>1. AbsCadres!CadreDe(<<>>, This, v) = UnCadre(<<>>, <<>>, Vides, Nul, This, v)
      BY Neuf
    <3>. DEFINE f == AbsCadres!CadreDe(<<>>, This, v)
    <3>2. f = UnCadre(<<>>, <<>>, Vides, Nul, This, v)
      BY <3>1
    <3>. HIDE DEF f
    <3>3. AvecPile(f, <<Inconnu>>) = d
      BY <3>2, Champs
    <3>. QED BY <1>5, <3>3 DEF AvecPile, f
  <2>13. e = [c EXCEPT !.pile = SubSeq(q, 1, AbsCadres!DerniereMarque(q))]
    <3>. HIDE DEF q, m
    <3>. QED BY <1>2 DEF AvecPile, r
  <2>. HIDE DEF C, d, e, q
  <2>. QED BY <1>2, <1>5, <1>6, <1>10, <2>11, <2>12, <2>13 DEF AbsCadres!Tirer, c
<1>. QED BY <1>8, <1>9, <1>10 DEF GotoMulti

-----------------------------------------------------------------------------
(* Returns, seen by a script. *)

\* t is s after Retour: the stack of the caller is that of PileF, but for the
\* result of the call.
Rendu(s, t) ==
  LET a == s.Appel[t.n]
  IN /\ t.n \in Nat /\ s.n = t.n + 1
     /\ t.l = F(s, t.n) /\ t.Ins = a.Instruction
     /\ t.This = IF a.This # Nul THEN a.This ELSE s.This
     /\ MemesAppels(s, t, s.n)
     /\ t.Appel[t.n].This = Nul
     /\ \A k \in 0 .. NMAXAPPELS : k # t.n => t.Appel[k].This = s.Appel[k].This
     /\ \A i \in Cellules : i < t.l => t.PileF[i] = s.PileF[i]
     /\ a.lPile \in Nat /\ a.lPile > 0 /\ Len(t.Pile) = a.lPile /\ t.Pile \in Seq(Vals)
     /\ \A i \in 1 .. a.lPile - 1 : t.Pile[i] = s.PileF[a.PosPileF + i - 1]
     /\ t.Pile[a.lPile] = IF s.Pile = <<>> THEN s.PileF[D(s, s.n) - 1] ELSE Last(s.Pile)

\* What Retour does.
LEMMA RetourFait ==
  ASSUME NEW s, Bon(s, BasenParams), s.n > 0, s.Pile = <<>> \/ Last(s.Pile) \in Simples
  PROVE  Rendu(s, Retour(s))
<1>. DEFINE n == s.n - 1
            a == s.Appel[n]
            t == Retour(s)
            pilef == IF s.Pile = <<>> THEN s.PileF
                     ELSE [s.PileF EXCEPT ![CelluleResultat(a)] = Last(s.Pile)]
<1>1. /\ s.n \in Nat /\ s.l \in Nat /\ s.l <= Memoire /\ Memoire \in Nat /\ n \in Nat /\ n + 1 = s.n
      /\ n < s.n /\ n # s.n /\ s.n # 0 /\ n \in 0 .. s.n /\ s.n \in 0 .. s.n /\ n \in 0 .. NMAXAPPELS
      /\ \A k \in 0 .. s.n - 1 : k \in 0 .. NMAXAPPELS
  <2>1. s.n \in 0 .. NMAXAPPELS /\ NMAXAPPELS \in Nat
    BY AppelsAssumption DEF Bon, Etats
  <2>2. s.n \in Nat /\ s.l \in Nat /\ s.l <= Memoire /\ Memoire \in Nat
    BY Bornes
  <2>. QED BY <2>1, <2>2
<1>2. s.Appel \in [0 .. NMAXAPPELS -> Elements] /\ s.PileF \in [Cellules -> Vals]
  BY DEF Bon, Etats
<1>3. /\ a \in Elements /\ a.PosPileF \in Nat /\ a.lPile \in Nat /\ a.PosPileF = F(s, n)
      /\ D(s, s.n) = a.PosPileF + a.lPile
  <2>1. a \in Elements
    BY <1>1, <1>2
  <2>2. a.PosPileF \in Nat /\ a.lPile \in Nat
    BY <2>1 DEF Elements
  <2>. QED BY <1>1, <2>1, <2>2 DEF D, F
<1>. HIDE DEF n
<1>4. a.lPile > 0 /\ a.PosPileF + a.lPile <= s.l
  <2>1. F(s, n) < D(s, s.n) /\ D(s, s.n) <= s.l
    BY <1>1, Bornes DEF Bon, Ordonne
  <2>. HIDE DEF a
  <2>. QED BY <1>1, <1>3, <2>1
<1>. HIDE DEF a
<1>5. CelluleResultat(a) \in Cellules /\ CelluleResultat(a) = D(s, s.n) - 1 /\ CelluleResultat(a) >= a.PosPileF
      /\ CelluleResultat(a) = a.PosPileF + a.lPile - 1
  BY <1>1, <1>3, <1>4 DEF CelluleResultat, Cellules
<1>6. /\ \A i \in Cellules : i # CelluleResultat(a) => pilef[i] = s.PileF[i]
      /\ pilef[CelluleResultat(a)] = IF s.Pile = <<>> THEN s.PileF[D(s, s.n) - 1] ELSE Last(s.Pile)
  BY <1>2, <1>5
<1>. HIDE DEF pilef
<1>7. /\ t.Pile = [i \in 1 .. a.lPile |-> pilef[a.PosPileF + i - 1]]
      /\ t.PileF = [i \in Cellules |-> IF i \in Effacees(a, s.l) THEN Inconnu ELSE pilef[i]]
      /\ t.l = a.PosPileF /\ t.n = n
      /\ t.Appel = [s.Appel EXCEPT ![n] = [a EXCEPT !.This = Nul]]
      /\ t.Ins = a.Instruction
      /\ t.This = IF a.This # Nul THEN a.This ELSE s.This
  BY DEF Retour, LongueurApres, pilef, a, n
<1>8. t.Pile \in Seq(Vals)
  <2>1. Bon(t, BasenParams)
    BY Revenir
  <2>. HIDE DEF t
  <2>. QED BY <2>1 DEF Bon, Etats
<1>. HIDE DEF t
<1>9. MemesAppels(s, t, s.n) /\ t.Appel[n].This = Nul
      /\ \A k \in 0 .. NMAXAPPELS : k # n => t.Appel[k].This = s.Appel[k].This
  <2>. DEFINE e == [a EXCEPT !.This = Nul]
  <2>1. /\ e.Instruction = a.Instruction /\ e.lPile = a.lPile /\ e.PosPileF = a.PosPileF /\ e.nParams = a.nParams
        /\ e.EnErreur = a.EnErreur /\ e.This = Nul
    BY <1>3 DEF Elements
  <2>2. t.Appel = [s.Appel EXCEPT ![n] = e] /\ a = s.Appel[n]
    BY <1>7 DEF a
  <2>. HIDE DEF e
  <2>3. t.Appel[n] = e /\ \A k \in 0 .. NMAXAPPELS : k # n => t.Appel[k] = s.Appel[k]
    BY <1>1, <1>2, <2>2
  <2>4. MemesAppels(s, t, s.n)
    <3>1. ASSUME NEW k \in 0 .. s.n - 1
          PROVE  /\ t.Appel[k].Instruction = s.Appel[k].Instruction
                 /\ t.Appel[k].lPile = s.Appel[k].lPile
                 /\ t.Appel[k].PosPileF = s.Appel[k].PosPileF
                 /\ t.Appel[k].nParams = s.Appel[k].nParams
                 /\ t.Appel[k].EnErreur = s.Appel[k].EnErreur
      <4>1. CASE k = n
        BY <2>1, <2>2, <2>3, <4>1
      <4>2. CASE k # n
        <5>1. t.Appel[k] = s.Appel[k]
          BY <1>1, <2>3, <4>2
        <5>. QED BY <5>1
      <4>. QED BY <4>1, <4>2
    <3>. QED BY <3>1 DEF MemesAppels
  <2>. QED BY <2>1, <2>3, <2>4
<1>10. \A i \in Cellules : i < t.l => t.PileF[i] = s.PileF[i]
  <2>. TAKE i \in Cellules
  <2>1. HAVE i < t.l
  <2>2. i \in Nat
    BY <1>1 DEF Cellules
  <2>3. i \notin Effacees(a, s.l) /\ i # CelluleResultat(a)
    BY <1>3, <1>5, <1>7, <2>1, <2>2 DEF Effacees
  <2>. QED BY <1>6, <1>7, <2>3
<1>11. Len(t.Pile) = a.lPile /\ \A i \in 1 .. a.lPile : t.Pile[i] = pilef[a.PosPileF + i - 1]
  <2>1. DOMAIN t.Pile = 1 .. a.lPile
    BY <1>7
  <2>2. \A i \in 1 .. a.lPile : t.Pile[i] = pilef[a.PosPileF + i - 1]
    BY <1>7
  <2>. QED BY <1>3, <1>8, <2>1, <2>2
<1>12. ASSUME NEW i \in 1 .. a.lPile - 1 PROVE t.Pile[i] = s.PileF[a.PosPileF + i - 1]
  <2>1. i \in 1 .. a.lPile /\ a.PosPileF + i - 1 \in Cellules /\ a.PosPileF + i - 1 # CelluleResultat(a)
    <3>. DEFINE x == a.PosPileF
                y == a.lPile
    <3>1. x \in Nat /\ y \in Nat /\ x + y <= Memoire /\ i \in 1 .. y - 1
      BY <1>1, <1>3, <1>4
    <3>2. CelluleResultat(a) = x + y - 1
      BY <1>5
    <3>. HIDE DEF x, y
    <3>3. i \in 1 .. y /\ x + i - 1 # x + y - 1
      BY <3>1
    <3>4. x + i - 1 \in Cellules
      BY <3>1, <3>3, Position
    <3>. QED BY <3>2, <3>3, <3>4 DEF x, y
  <2>. QED BY <1>6, <1>11, <2>1
<1>13. t.Pile[a.lPile] = IF s.Pile = <<>> THEN s.PileF[D(s, s.n) - 1] ELSE Last(s.Pile)
  <2>1. a.lPile \in 1 .. a.lPile
    BY <1>3, <1>4
  <2>2. t.Pile[a.lPile] = pilef[CelluleResultat(a)]
    BY <1>5, <1>11, <2>1
  <2>. QED BY <1>6, <2>2
<1>14. Rendu(s, t)
  BY <1>1, <1>3, <1>4, <1>7, <1>8, <1>9, <1>10, <1>11, <1>12, <1>13 DEF Rendu, a
<1>. QED BY <1>14 DEF t

\* The frames of the callers are the same, but for the expression of the
\* current one.
LEMMA CadreRendu ==
  ASSUME NEW b, NEW s, NEW t, Bon(s, b), Rendu(s, t)
  PROVE  /\ \A k \in 0 .. t.n - 1 : CadreEn(t, b, k) = CadreEn(s, b, k)
         /\ CadreEn(t, b, t.n) = AvecPile(CadreEn(s, b, t.n), VueDe(s, b, t.n, t.Pile))
         /\ \A k \in 0 .. t.n : D(t, k) = D(s, k)
<1>. DEFINE n == t.n
<1>1. /\ n \in Nat /\ s.n = n + 1 /\ n \in 0 .. s.n /\ n # s.n /\ n < s.n /\ s.n \in Nat /\ n \in 0 .. n
      /\ \A k \in 0 .. n - 1 : k \in 0 .. n
  BY DEF Rendu
<1>2. /\ D(s, n) \in Nat /\ V(s, n, b) \in Nat /\ F(s, n) \in Nat /\ D(s, n) <= V(s, n, b) /\ V(s, n, b) <= F(s, n)
      /\ F(s, n) <= s.l /\ s.l \in Nat /\ s.l <= Memoire /\ Memoire \in Nat
  BY <1>1, Bornes DEF Bon, Ordonne
<1>3. t.l = F(s, n) /\ F(t, n) = t.l /\ \A i \in Cellules : i < F(s, n) => t.PileF[i] = s.PileF[i]
  BY DEF Rendu, F
<1>4. MemesAppels(s, t, n) /\ t.Appel[n].EnErreur = s.Appel[n].EnErreur
  <2>1. MemesAppels(s, t, s.n)
    BY DEF Rendu
  <2>2. n \in 0 .. s.n - 1 /\ \A k \in 0 .. n - 1 : k \in 0 .. s.n - 1
    BY <1>1
  <2>. HIDE DEF n
  <2>. QED BY <2>1, <2>2 DEF MemesAppels
<1>5. MemesCellules(s, t, n)
  <2>. SUFFICES ASSUME NEW i \in Cellules, i < D(s, n) PROVE t.PileF[i] = s.PileF[i]
    BY DEF MemesCellules
  <2>1. i < F(s, n)
    BY <1>2 DEF Cellules
  <2>. QED BY <1>3, <2>1
<1>6. /\ \A k \in 0 .. n : D(t, k) = D(s, k) /\ V(t, k, b) = V(s, k, b)
      /\ \A k \in 0 .. n - 1 : \A h : CadreAvec(t, b, k, h) = CadreAvec(s, b, k, h)
  <2>1. n <= t.n
    BY <1>1
  <2>. HIDE DEF n
  <2>2. t.n \in Nat
    BY DEF Rendu
  <2>. QED BY <1>1, <1>4, <1>5, <2>1, <2>2, Dessous
<1>7. \A k \in 0 .. n : ThisEn(t, k) = ThisEn(s, k)
  <2>1. \A k \in 0 .. t.n - 1 : t.Appel[k].This = s.Appel[k].This
    <3>1. s.n \in 0 .. NMAXAPPELS /\ NMAXAPPELS \in Nat
      BY AppelsAssumption DEF Bon, Etats
    <3>2. \A k \in 0 .. t.n - 1 : k \in 0 .. NMAXAPPELS /\ k # t.n
      BY <1>1, <3>1
    <3>. QED BY <3>2 DEF Rendu
  <2>2. t.This = IF s.Appel[t.n].This # Nul THEN s.Appel[t.n].This ELSE s.This
    BY DEF Rendu
  <2>. QED BY <1>1, <2>1, <2>2, ThisRevenu
<1>8. \A k \in 0 .. n - 1 : CadreEn(t, b, k) = CadreEn(s, b, k)
  BY <1>1, <1>6, <1>7 DEF CadreEn
<1>9. ParamsEn(t, b, n) = ParamsEn(s, b, n)
  <2>1. ASSUME NEW i \in 1 .. V(s, n, b) - D(s, n) PROVE t.PileF[D(s, n) + i - 1] = s.PileF[D(s, n) + i - 1]
    <3>1. D(s, n) + i - 1 \in Cellules /\ D(s, n) + i - 1 < F(s, n)
      BY <1>2 DEF Cellules
    <3>. QED BY <1>3, <3>1
  <2>2. D(t, n) = D(s, n) /\ V(t, n, b) = V(s, n, b)
    BY <1>1, <1>6
  <2>. HIDE DEF n
  <2>. QED BY <2>1, <2>2 DEF ParamsEn
<1>10. LocalesEn(t, b, n) = LocalesEn(s, b, n)
  <2>1. ASSUME NEW i \in Locales, V(s, n, b) + i < F(s, n) PROVE t.PileF[V(s, n, b) + i] = s.PileF[V(s, n, b) + i]
    <3>0. i \in Nat
      BY AppelsAssumption
    <3>1. V(s, n, b) + i \in Cellules
      BY <1>2, <2>1, <3>0 DEF Cellules
    <3>. QED BY <1>3, <2>1, <3>1
  <2>2. V(t, n, b) = V(s, n, b) /\ F(t, n) = F(s, n)
    BY <1>1, <1>3, <1>6
  <2>. HIDE DEF n
  <2>. QED BY <2>1, <2>2 DEF LocalesEn
<1>11. VueDe(t, b, n, t.Pile) = VueDe(s, b, n, t.Pile)
  <2>1. D(t, n) = D(s, n) /\ V(t, n, b) = V(s, n, b)
    BY <1>1, <1>6
  <2>. HIDE DEF n
  <2>. QED BY <2>1 DEF VueDe, Vue
<1>12. t.This = ThisEn(s, n) /\ t.Ins = InsEn(s, n)
  <2>1. ThisEn(t, t.n) = t.This
    BY <1>1, Actuel
  <2>2. t.Ins = s.Appel[n].Instruction
    BY DEF Rendu
  <2>. QED BY <1>1, <1>7, <2>1, <2>2 DEF InsEn
<1>13. CadreEn(t, b, t.n) = UnCadre(VueDe(t, b, t.n, t.Pile), ParamsEn(t, b, t.n), LocalesEn(t, b, t.n),
                                    t.Appel[t.n].EnErreur, t.This, t.Ins)
  BY <1>1, Actuel
<1>14. CadreEn(t, b, n) = UnCadre(VueDe(s, b, n, t.Pile), ParamsEn(s, b, n), LocalesEn(s, b, n),
                                  s.Appel[n].EnErreur, ThisEn(s, n), InsEn(s, n))
  BY <1>4, <1>9, <1>10, <1>11, <1>12, <1>13
<1>15. CadreEn(s, b, n) = UnCadre(VueDe(s, b, n, PileEn(s, n)), ParamsEn(s, b, n), LocalesEn(s, b, n),
                                  s.Appel[n].EnErreur, ThisEn(s, n), InsEn(s, n))
  BY DEF CadreEn, CadreAvec
<1>16. CadreEn(t, b, n) = AvecPile(CadreEn(s, b, n), VueDe(s, b, n, t.Pile))
  <2>. HIDE DEF n
  <2>. QED BY <1>14, <1>15, Champs
<1>. QED BY <1>6, <1>8, <1>16

\* t.Pile is p with the result of s at its end, and so it is seen: q is p seen.
Resultat(s, t, b, p, q) ==
  /\ p \in Seq(Vals) /\ Len(p) > 0 /\ Len(t.Pile) = Len(p) /\ p[Len(p)] = s.PileF[D(s, s.n) - 1]
  /\ q = VueDe(s, b, t.n, p) /\ q \in Seq(Vues) /\ Len(q) = Len(p)
  /\ (s.Pile = <<>> \/ Last(s.Pile) = p[Len(p)]) => VueDe(s, b, t.n, t.Pile) = q /\ t.Pile = p
  /\ (s.Pile # <<>> /\ Last(s.Pile) \in Simples)
     => VueDe(s, b, t.n, t.Pile) = [q EXCEPT ![Len(q)] = Last(s.Pile)]
  /\ t.Pile[Len(t.Pile)] = IF s.Pile = <<>> THEN p[Len(p)] ELSE Last(s.Pile)

\* The expression of the caller is that of PileF.
LEMMA PileRendue ==
  ASSUME NEW b, NEW s, NEW t, Bon(s, b), Rendu(s, t)
  PROVE  Resultat(s, t, b, PileEn(s, t.n), CadreEn(s, b, t.n).pile)
<1>. DEFINE n == t.n
            x == s.Appel[n].PosPileF
            y == s.Appel[n].lPile
            p == PileEn(s, n)
            q == CadreEn(s, b, n).pile
            u == t.Pile
<1>1. n \in Nat /\ s.n = n + 1 /\ n # s.n /\ s.n # 0 /\ n \in 0 .. s.n /\ s.n \in 0 .. s.n
      /\ y \in Nat /\ y > 0 /\ Len(u) = y /\ u \in Seq(Vals) /\ s.n - 1 = n
  <2>1. n \in Nat /\ s.n = n + 1
    BY DEF Rendu
  <2>2. y \in Nat /\ y > 0 /\ Len(u) = y /\ u \in Seq(Vals)
    BY DEF Rendu
  <2>. HIDE DEF n, y, u
  <2>. QED BY <2>1, <2>2
<1>2. /\ \A i \in 1 .. y - 1 : u[i] = s.PileF[x + i - 1]
      /\ u[y] = IF s.Pile = <<>> THEN s.PileF[D(s, s.n) - 1] ELSE Last(s.Pile)
  BY DEF Rendu
<1>3. D(s, s.n) = x + y /\ x \in Nat /\ x + y <= Memoire
  <2>1. x = F(s, n) /\ F(s, n) \in Nat
    BY <1>1, Bornes DEF F
  <2>2. D(s, s.n) = x + y
    BY <1>1 DEF D
  <2>3. D(s, s.n) <= s.l /\ s.l <= Memoire /\ s.l \in Nat /\ Memoire \in Nat /\ D(s, s.n) \in Nat
    BY <1>1, Bornes
  <2>. HIDE DEF x, y, n
  <2>. QED BY <1>1, <2>1, <2>2, <2>3
<1>4. p = [i \in 1 .. y |-> s.PileF[x + i - 1]]
  BY <1>1 DEF PileEn
<1>. HIDE DEF x, y, p, u
<1>5. p \in Seq(Vals) /\ Len(p) = y /\ DOMAIN p = 1 .. y /\ \A i \in 1 .. y : p[i] = s.PileF[x + i - 1]
  <2>1. s.PileF \in [Cellules -> Vals]
    BY DEF Bon, Etats
  <2>2. \A i \in 1 .. y : x + i - 1 \in Cellules
    BY <1>1, <1>3, Position
  <2>3. p \in [1 .. y -> Vals]
    BY <1>4, <2>1, <2>2
  <2>4. p \in Seq(Vals)
    BY <1>1, <2>3, SeqDef
  <2>. QED BY <1>1, <1>4, <2>3, <2>4
<1>6. y \in 1 .. y /\ p[y] = s.PileF[D(s, s.n) - 1]
  <2>1. y \in 1 .. y /\ x + y - 1 = (x + y) - 1
    BY <1>1, <1>3
  <2>. QED BY <1>3, <1>5, <2>1
<1>7. q = VueDe(s, b, n, p)
  BY Champs DEF CadreEn, CadreAvec, p
<1>. HIDE DEF q
<1>8. D(s, n) \in Nat /\ V(s, n, b) \in Nat
  BY <1>1, Bornes
<1>. HIDE DEF n
<1>9. /\ q \in Seq(Vues) /\ Len(q) = y /\ DOMAIN q = 1 .. y
      /\ \A i \in 1 .. y : q[i] = Vue(s, b, n, p[i])
  BY <1>5, <1>7, <1>8, VueSuite
<1>10. u = [i \in 1 .. y |-> u[i]]
  BY <1>1
<1>11. DOMAIN u = 1 .. y /\ \A i \in 1 .. y : i # y => u[i] = p[i]
  <2>1. \A i \in 1 .. y : i # y => i \in 1 .. y - 1
    BY <1>1
  <2>. QED BY <1>1, <1>2, <1>5, <2>1
<1>12. ASSUME s.Pile = <<>> \/ Last(s.Pile) = p[y] PROVE u = p
  <2>1. u[y] = p[y]
    BY <1>2, <1>6, <1>12
  <2>2. \A i \in 1 .. y : u[i] = p[i]
    BY <1>11, <2>1
  <2>3. p = [i \in 1 .. y |-> p[i]]
    BY <1>4, <1>5
  <2>. QED BY <1>10, <2>2, <2>3
<1>13. ASSUME s.Pile # <<>>, Last(s.Pile) \in Simples
       PROVE  VueDe(s, b, n, u) = [q EXCEPT ![y] = Last(s.Pile)]
  <2>. DEFINE r == VueDe(s, b, n, u)
              z == [q EXCEPT ![y] = Last(s.Pile)]
  <2>1. r = [i \in 1 .. y |-> Vue(s, b, n, u[i])]
    BY <1>11 DEF VueDe
  <2>2. Vue(s, b, n, Last(s.Pile)) = Last(s.Pile) /\ u[y] = Last(s.Pile)
    BY <1>2, <1>13, VueSimple
  <2>3. q = [i \in 1 .. y |-> q[i]]
    BY <1>9
  <2>4. z = [i \in 1 .. y |-> IF i = y THEN Last(s.Pile) ELSE q[i]]
    BY <2>3
  <2>5. \A i \in 1 .. y : Vue(s, b, n, u[i]) = IF i = y THEN Last(s.Pile) ELSE q[i]
    BY <1>9, <1>11, <2>2
  <2>. HIDE DEF r, z
  <2>6. r = z
    BY <2>1, <2>4, <2>5
  <2>. QED BY <2>6 DEF r, z
<1>. QED BY <1>1, <1>2, <1>5, <1>6, <1>7, <1>9, <1>12, <1>13 DEF n, p, q, u, Resultat

\* What Sain adds to Bon holds after a return.
LEMMA RetourSain ==
  ASSUME NEW b, NEW s, NEW t, Sain(s, b), Rendu(s, t)
  PROVE  Marques(t) /\ SansThis(t)
<1>. DEFINE n == t.n
<1>1. /\ n \in Nat /\ s.n = n + 1 /\ n \in 0 .. s.n /\ n < s.n /\ s.n \in Nat
      /\ s.n \in 0 .. NMAXAPPELS /\ NMAXAPPELS \in Nat /\ Bon(s, b)
  <2>1. Bon(s, b) /\ t.n \in Nat /\ s.n = t.n + 1
    BY DEF Rendu, Sain
  <2>2. NMAXAPPELS \in Nat /\ s.n \in 0 .. NMAXAPPELS
    BY <2>1, AppelsAssumption DEF Bon, Etats
  <2>. QED BY <2>1, <2>2
<1>2. F(s, n) \in Nat /\ F(s, n) <= s.l /\ s.l \in Nat /\ s.l <= Memoire /\ Memoire \in Nat
  BY <1>1, Bornes
<1>3. SansThis(t)
  <2>1. ASSUME NEW a \in n .. NMAXAPPELS PROVE t.Appel[a].This = Nul
    <3>1. CASE a = n
      BY <3>1 DEF Rendu
    <3>2. CASE a # n
      <4>1. a \in 0 .. NMAXAPPELS /\ a \in s.n .. NMAXAPPELS
        BY <1>1, <3>2
      <4>2. t.Appel[a].This = s.Appel[a].This
        BY <3>2, <4>1 DEF Rendu
      <4>. QED BY <4>1, <4>2 DEF Sain, SansThis
    <3>. QED BY <3>1, <3>2
  <2>. QED BY <2>1 DEF SansThis
<1>4. Marques(t)
  <2>1. ASSUME NEW k \in 1 .. n PROVE t.PileF[D(t, k) - 1] = Marque
    <3>1. k \in 1 .. s.n /\ k \in 0 .. s.n /\ k \in 0 .. n /\ 0 \in 0 .. s.n /\ 0 < k
      BY <1>1
    <3>2. D(t, k) = D(s, k)
      BY <1>1, <3>1, CadreRendu
    <3>3. F(s, 0) < D(s, k) /\ F(s, 0) \in Nat /\ D(s, k) \in Nat /\ F(s, k) \in Nat /\ V(s, k, b) \in Nat
          /\ D(s, k) <= V(s, k, b) /\ V(s, k, b) <= F(s, k)
      BY <1>1, <3>1, Bornes DEF Bon, Ordonne
    <3>6. F(s, k) <= F(s, n)
      <4>1. CASE k = n
        BY <1>2, <4>1
      <4>2. CASE k # n
        <5>1. F(s, k) < D(s, n)
          BY <1>1, <3>1, <4>2 DEF Bon, Ordonne
        <5>2. D(s, n) <= V(s, n, b) /\ V(s, n, b) <= F(s, n) /\ V(s, n, b) \in Nat /\ D(s, n) \in Nat
          BY <1>1, Bornes DEF Bon, Ordonne
        <5>. HIDE DEF n
        <5>. QED BY <1>2, <3>3, <5>1, <5>2
      <4>. QED BY <4>1, <4>2
    <3>4. D(s, k) - 1 \in Cellules /\ D(s, k) - 1 < F(s, n)
      <4>. HIDE DEF n
      <4>. QED BY <1>2, <3>3, <3>6 DEF Cellules
    <3>5. t.PileF[D(s, k) - 1] = s.PileF[D(s, k) - 1]
      BY <3>4 DEF Rendu
    <3>. QED BY <3>1, <3>2, <3>5 DEF Sain, Marques
  <2>. QED BY <2>1 DEF Marques
<1>. QED BY <1>3, <1>4

\* The state after a step that makes it t.
LEMMA EtatDevenu ==
  ASSUME NEW t, Bon(t, BasenParams), Devenir(t)
  PROVE  Etat' = t /\ BasenParams' = BasenParams
<1>1. t = [Pile |-> t.Pile, PileF |-> t.PileF, l |-> t.l, Appel |-> t.Appel, n |-> t.n,
           DebutParam |-> t.DebutParam, DebutVarLoc |-> t.DebutVarLoc, Ins |-> t.Ins, This |-> t.This]
  BY DEF Bon, Etats
<1>2. Etat' = [Pile |-> t.Pile, PileF |-> t.PileF, l |-> t.l, Appel |-> t.Appel, n |-> t.n,
           DebutParam |-> t.DebutParam, DebutVarLoc |-> t.DebutVarLoc, Ins |-> t.Ins, This |-> t.This]
  BY DEF Devenir, Etat
<1>. QED BY <1>1, <1>2 DEF Devenir

\* The last value of the expression a script sees.
LEMMA DerniereVue ==
  ASSUME Inv, Pile = <<>> \/ Last(Pile) \in Simples
  PROVE  /\ AbsCadres!cadre.pile = <<>> <=> Pile = <<>>
         /\ Pile # <<>> => /\ AbsCadres!Last(AbsCadres!cadre.pile) = Last(Pile)
                           /\ ~AbsCadres!EstRef(Last(Pile))
<1>. DEFINE b == BasenParams
            q == VueDe(Etat, b, nAppels, Pile)
            k == Len(Pile)
<1>1. AbsCadres!cadre.pile = q
  BY Devant, Champs
<1>2. Pile \in Seq(Vals) /\ D(Etat, nAppels) \in Nat /\ V(Etat, nAppels, b) \in Nat
  BY Lecture
<1>3. q \in Seq(Vues) /\ Len(q) = k /\ \A i \in 1 .. k : q[i] = Vue(Etat, b, nAppels, Pile[i])
  BY <1>2, VueSuite
<1>. HIDE DEF q
<1>4. q = <<>> <=> Pile = <<>>
  BY <1>2, <1>3
<1>5. ASSUME Pile # <<>> PROVE q[k] = Last(Pile) /\ ~AbsCadres!EstRef(Last(Pile))
  <2>1. k \in 1 .. k /\ Last(Pile) = Pile[k] /\ Last(Pile) \in Simples
    BY <1>2, <1>5 DEF Last
  <2>2. Vue(Etat, b, nAppels, Pile[k]) = Pile[k]
    BY <2>1, VueSimple
  <2>3. ~AbsCadres!EstRef(Last(Pile))
    BY <2>1 DEF AbsCadres!EstRef, Simples
  <2>. QED BY <1>3, <2>1, <2>2, <2>3
<1>. QED BY <1>1, <1>3, <1>4, <1>5 DEF AbsCadres!Last

\* I_RETOUR gives the result to the caller.
LEMMA RegotoAbstrait == ASSUME Inv, Regoto PROVE AbsCadres!Retourner
<1>. DEFINE b == BasenParams
            t == Retour(Etat)
            C == CadresEn(Etat, b)
            c == AbsCadres!cadre
            o == CadreEn(Etat, b, nAppels - 1)
            e == CadreEn(t, b, nAppels - 1)
<1>1. nAppels > 0 /\ (Pile = <<>> \/ Last(Pile) \in Simples) /\ Devenir(t)
  BY DEF Regoto
<1>2. Bon(Etat, b) /\ Etat.n > 0 /\ (Etat.Pile = <<>> \/ Last(Etat.Pile) \in Simples) /\ Etat.n = nAppels
      /\ Etat.Pile = Pile
  BY <1>1, Lecture DEF Inv
<1>3. Bon(t, b) /\ Rendu(Etat, t)
  <2>. HIDE DEF Etat
  <2>. QED BY <1>2, Revenir, RetourFait
<1>4. t.n = nAppels - 1 /\ nAppels \in Nat /\ nAppels - 1 \in Nat
  BY <1>1, <1>2, <1>3, Devant DEF Rendu
<1>5. Etat' = t /\ BasenParams' = b
  BY <1>1, <1>3, EtatDevenu
<1>. HIDE DEF t
<1>6. CadresAbs' = CadresEn(t, b) /\ CadresAbs = C
  BY <1>5, Image
<1>. HIDE DEF Etat
<1>7. CadresEn(t, b) = Append(SubSeq(C, 1, t.n), e)
  <2>1. \A k \in 0 .. t.n - 1 : CadreEn(t, b, k) = CadreEn(Etat, b, k)
    BY <1>2, <1>3, CadreRendu
  <2>2. Etat.n \in Nat /\ t.n \in 0 .. Etat.n
    BY <1>2, <1>4
  <2>. QED BY <1>4, <2>1, <2>2, Garde
<1>8. Len(C) = nAppels + 1 /\ C[nAppels] = o
  <2>1. Len(C) = Etat.n + 1 /\ \A k \in 0 .. Etat.n : C[k + 1] = CadreEn(Etat, b, k)
    BY <1>2, <1>4, Longueur
  <2>2. nAppels - 1 \in 0 .. Etat.n /\ (nAppels - 1) + 1 = nAppels
    BY <1>2, <1>4
  <2>. HIDE DEF C
  <2>3. C[(nAppels - 1) + 1] = o
    BY <2>1, <2>2
  <2>. QED BY <1>2, <2>1, <2>2, <2>3
<1>9. e = AvecPile(o, VueDe(Etat, b, nAppels - 1, t.Pile))
  BY <1>2, <1>3, <1>4, CadreRendu
<1>10. /\ Pile = <<>> => VueDe(Etat, b, nAppels - 1, t.Pile) = o.pile
       /\ Pile # <<>> => VueDe(Etat, b, nAppels - 1, t.Pile) = [o.pile EXCEPT ![Len(o.pile)] = Last(Pile)]
  <2>1. Resultat(Etat, t, b, PileEn(Etat, t.n), CadreEn(Etat, b, t.n).pile)
    BY <1>2, <1>3, PileRendue
  <2>. QED BY <1>1, <1>2, <1>4, <2>1 DEF Resultat
<1>11. /\ c.pile = <<>> <=> Pile = <<>>
       /\ Pile # <<>> => AbsCadres!Last(c.pile) = Last(Pile) /\ ~AbsCadres!EstRef(Last(Pile))
  BY <1>1, DerniereVue
<1>12. \E w : o = UnCadre(o.pile, ParamsEn(Etat, b, nAppels - 1), LocalesEn(Etat, b, nAppels - 1),
                          Etat.Appel[nAppels - 1].EnErreur, w, InsEn(Etat, nAppels - 1))
  BY Champs DEF CadreEn, CadreAvec
<1>13. AvecPile(o, o.pile) = o
  BY <1>12, Champs
<1>. HIDE DEF o, e, c, C
<1>14. e = IF c.pile = <<>> THEN o ELSE [o EXCEPT !.pile[Len(o.pile)] = AbsCadres!Last(c.pile)]
  <2>1. CASE c.pile = <<>>
    BY <1>9, <1>10, <1>11, <1>13, <2>1
  <2>2. CASE c.pile # <<>>
    <3>1. e = AvecPile(o, [o.pile EXCEPT ![Len(o.pile)] = AbsCadres!Last(c.pile)])
      BY <1>9, <1>10, <1>11, <2>2
    <3>. QED BY <2>2, <3>1 DEF AvecPile
  <2>. QED BY <2>1, <2>2
<1>15. CadresAbs' = Append(SubSeq(CadresAbs, 1, Len(CadresAbs) - 2), e)
  <2>1. Len(CadresAbs) - 2 = t.n
    BY <1>4, <1>6, <1>8
  <2>. QED BY <1>6, <1>7, <2>1
<1>16. CadresAbs[Len(CadresAbs) - 1] = o /\ Len(CadresAbs) > 1
  <2>1. Len(CadresAbs) - 1 = nAppels
    BY <1>4, <1>6, <1>8
  <2>. QED BY <1>1, <1>4, <1>6, <1>8, <2>1
<1>17. c.pile # <<>> => ~AbsCadres!EstRef(AbsCadres!Last(c.pile))
  BY <1>11
<1>. QED BY <1>14, <1>15, <1>16, <1>17 DEF AbsCadres!Retourner, c

-----------------------------------------------------------------------------
(* Errors, seen by a script. *)

\* Without an expression the current frame is the same but for that.
LEMMA CadreVide ==
  ASSUME NEW b, NEW s, Bon(s, b), NEW t, t = Suite(s, <<>>, s.Ins)
  PROVE  /\ t.n = s.n /\ t.Pile = <<>>
         /\ \A k \in 0 .. s.n - 1 : CadreEn(t, b, k) = CadreEn(s, b, k)
         /\ CadreEn(t, b, s.n) = AvecPile(CadreEn(s, b, s.n), <<>>)
<1>. DEFINE n == s.n
<1>1. /\ t.n = n /\ t.This = s.This /\ t.Appel = s.Appel /\ t.PileF = s.PileF /\ t.l = s.l /\ t.Ins = s.Ins
      /\ t.Pile = <<>>
  BY DEF Suite
<1>2. /\ \A k : D(t, k) = D(s, k) /\ V(t, k, b) = V(s, k, b) /\ F(t, k) = F(s, k)
      /\ n \in Nat
  BY <1>1, Bornes DEF D, V, F
<1>3. \A k : ParamsEn(t, b, k) = ParamsEn(s, b, k) /\ LocalesEn(t, b, k) = LocalesEn(s, b, k)
             /\ ThisEn(t, k) = ThisEn(s, k) /\ InsEn(t, k) = InsEn(s, k)
  BY <1>1, <1>2 DEF ParamsEn, LocalesEn, ThisEn, InsEn
<1>4. \A k, p : VueDe(t, b, k, p) = VueDe(s, b, k, p)
  BY <1>2 DEF VueDe, Vue
<1>5. ASSUME NEW k \in 0 .. n - 1 PROVE CadreEn(t, b, k) = CadreEn(s, b, k)
  <2>1. k # n
    BY <1>2
  <2>2. PileEn(t, k) = PileEn(s, k)
    BY <1>1, <2>1 DEF PileEn
  <2>. QED BY <1>1, <1>3, <1>4, <2>2 DEF CadreEn, CadreAvec
<1>6. CadreEn(s, b, n) = UnCadre(VueDe(s, b, n, s.Pile), ParamsEn(s, b, n), LocalesEn(s, b, n),
                                 s.Appel[n].EnErreur, s.This, s.Ins)
  BY <1>2, Actuel
<1>7. CadreEn(t, b, n) = UnCadre(<<>>, ParamsEn(s, b, n), LocalesEn(s, b, n), s.Appel[n].EnErreur, s.This, s.Ins)
  <2>1. CadreEn(t, b, t.n) = UnCadre(VueDe(t, b, t.n, t.Pile), ParamsEn(t, b, t.n), LocalesEn(t, b, t.n),
                                     t.Appel[t.n].EnErreur, t.This, t.Ins)
    BY <1>1, <1>2, Actuel
  <2>2. VueDe(t, b, t.n, <<>>) = <<>>
    <3>1. <<>> \in Seq(Simples)
      OBVIOUS
    <3>. QED BY <3>1, VuesSimples
  <2>. QED BY <1>1, <1>3, <2>1, <2>2
<1>. HIDE DEF n
<1>8. CadreEn(t, b, n) = AvecPile(CadreEn(s, b, n), <<>>)
  BY <1>6, <1>7, Champs
<1>. QED BY <1>1, <1>5, <1>8 DEF n

\* A return without a result, or with a DEBUTPARAM, leaves the frames of the
\* callers as they were.
LEMMA RetourVide ==
  ASSUME NEW s, Sain(s, BasenParams), s.n > 0, s.Pile = <<>> \/ Last(s.Pile) = Marque,
         NEW t, t = Retour(s)
  PROVE  /\ Sain(t, BasenParams) /\ s.n = t.n + 1 /\ t.n \in Nat
         /\ t.Pile # <<>> /\ Last(t.Pile) = Marque
         /\ \A k \in 0 .. t.n : CadreEn(t, BasenParams, k) = CadreEn(s, BasenParams, k)
<1>. DEFINE b == BasenParams
            n == t.n
            o == CadreEn(s, b, n)
            p == PileEn(s, n)
<1>1. Bon(s, b) /\ (s.Pile = <<>> \/ Last(s.Pile) \in Simples)
  BY DEF Sain, Simples
<1>2. Bon(t, b) /\ Rendu(s, t)
  BY <1>1, Revenir, RetourFait
<1>3. n \in Nat /\ s.n = n + 1 /\ t.Pile \in Seq(Vals) /\ s.n \in 1 .. s.n
  BY <1>2 DEF Rendu
<1>4. Marques(t) /\ SansThis(t)
  BY <1>2, RetourSain
<1>5. s.PileF[D(s, s.n) - 1] = Marque
  BY <1>3 DEF Sain, Marques
<1>6. /\ Len(p) > 0 /\ Len(t.Pile) = Len(p) /\ p[Len(p)] = Marque
      /\ (s.Pile = <<>> \/ Last(s.Pile) = p[Len(p)]) => VueDe(s, b, n, t.Pile) = o.pile
      /\ t.Pile[Len(t.Pile)] = IF s.Pile = <<>> THEN p[Len(p)] ELSE Last(s.Pile)
  <2>1. Resultat(s, t, b, p, o.pile)
    BY <1>1, <1>2, PileRendue
  <2>. HIDE DEF p, o, n, b
  <2>. QED BY <1>5, <2>1 DEF Resultat, n
<1>. HIDE DEF p
<1>7. t.Pile # <<>> /\ Last(t.Pile) = Marque
  <2>1. Len(t.Pile) > 0 /\ t.Pile[Len(t.Pile)] = Marque
    BY <1>6
  <2>. QED BY <1>3, <2>1 DEF Last
<1>8. /\ \A k \in 0 .. n - 1 : CadreEn(t, b, k) = CadreEn(s, b, k)
      /\ CadreEn(t, b, n) = AvecPile(o, VueDe(s, b, n, t.Pile))
  BY <1>1, <1>2, CadreRendu
<1>9. VueDe(s, b, n, t.Pile) = o.pile
  BY <1>6
<1>10. AvecPile(o, o.pile) = o
  BY Champs DEF CadreEn, CadreAvec
<1>11. ASSUME NEW k \in 0 .. n PROVE CadreEn(t, b, k) = CadreEn(s, b, k)
  <2>1. CASE k = n
    BY <1>8, <1>9, <1>10, <2>1
  <2>2. CASE k # n
    <3>1. k \in 0 .. n - 1
      BY <1>3, <2>2
    <3>. QED BY <1>8, <3>1
  <2>. QED BY <2>1, <2>2
<1>. QED BY <1>2, <1>3, <1>4, <1>7, <1>11 DEF Sain

\* Every state of the loop of Exception has the frames that are left as they
\* were, the first one without its expression.
LEMMA DeroulementVu ==
  ASSUME NEW s, Sain(s, BasenParams), NEW d, Deroule(d, s.n, Suite(s, <<>>, s.Ins))
  PROVE  /\ s.n \in Nat /\ d[s.n] = Suite(s, <<>>, s.Ins)
         /\ \A a \in 0 .. s.n : /\ Sain(d[a], BasenParams) /\ d[a].n = a
                                /\ \A k \in 0 .. a : k < s.n => CadreEn(d[a], BasenParams, k)
                                                                = CadreEn(s, BasenParams, k)
<1>. DEFINE b == BasenParams
            X == Suite(s, <<>>, s.Ins)
            Juste(a) == /\ Sain(d[a], b) /\ d[a].n = a
                        /\ d[a].Pile = <<>> \/ Last(d[a].Pile) = Marque
                        /\ \A k \in 0 .. a : k < s.n => CadreEn(d[a], b, k) = CadreEn(s, b, k)
            T == {a \in 0 .. s.n : ~Juste(a)}
<1>1. s.n \in Nat /\ s.n \in 0 .. s.n /\ Bon(s, b)
  BY Bornes DEF Sain
<1>2. \A a \in 0 .. s.n : d[a] = IF a = s.n THEN X ELSE Retour(d[a + 1])
  BY DEF Deroule
<1>3. Juste(s.n)
  <2>1. /\ X.n = s.n /\ X.Pile = <<>> /\ X.Appel = s.Appel /\ X.PileF = s.PileF
        /\ \A k \in 0 .. s.n - 1 : CadreEn(X, b, k) = CadreEn(s, b, k)
    <3>1. X = Suite(s, <<>>, s.Ins) /\ X.Appel = s.Appel /\ X.PileF = s.PileF
      BY DEF Suite
    <3>. HIDE DEF X
    <3>. QED BY <1>1, <3>1, CadreVide
  <2>2. Bon(X, b)
    <3>. DEFINE p == <<>>
    <3>1. p \in Seq(Vals) /\ \A i \in DOMAIN p : FALSE
      OBVIOUS
    <3>2. s.Ins \in Lieux \cup {Nul} /\ X = Suite(s, p, s.Ins)
      BY <1>1 DEF Bon, Etats
    <3>. HIDE DEF p, X
    <3>. QED BY <1>1, <3>1, <3>2, Calcul
  <2>. HIDE DEF X
  <2>3. Sain(X, b)
    <3>1. Marques(X)
      BY <2>1 DEF Sain, Marques, D
    <3>2. SansThis(X)
      BY <2>1 DEF Sain, SansThis
    <3>. QED BY <2>2, <3>1, <3>2 DEF Sain
  <2>4. \A k \in 0 .. s.n : k < s.n => k \in 0 .. s.n - 1
    BY <1>1
  <2>5. d[s.n] = X
    BY <1>1, <1>2
  <2>. QED BY <2>1, <2>3, <2>4, <2>5
<1>. HIDE DEF X
<1>4. SUFFICES ASSUME T # {} PROVE FALSE
  <2>1. d[s.n] = X
    BY <1>1, <1>2
  <2>2. T = {}
    BY <1>4
  <2>. QED BY <1>1, <2>1, <2>2 DEF X
<1>5. PICK k \in T : \A j \in T : k >= j
  <2>1. T \in SUBSET (0 .. s.n)
    OBVIOUS
  <2>. HIDE DEF T
  <2>. QED BY <1>1, <1>4, <2>1, PlusGrand
<1>6. k # s.n
  BY <1>3
<1>7. k + 1 \in 0 .. s.n /\ ~ (k >= k + 1) /\ k \in Nat /\ k + 1 > 0 /\ k < s.n
  BY <1>1, <1>6
<1>8. Juste(k + 1)
  BY <1>5, <1>7
<1>. DEFINE u == d[k + 1]
            v == d[k]
<1>9. v = Retour(u)
  BY <1>2, <1>6
<1>. HIDE DEF u, v
<1>10. Sain(u, b) /\ u.n = k + 1 /\ u.n > 0 /\ (u.Pile = <<>> \/ Last(u.Pile) = Marque)
  BY <1>7, <1>8 DEF u
<1>11. /\ Sain(v, b) /\ u.n = v.n + 1 /\ v.n \in Nat /\ Last(v.Pile) = Marque
       /\ \A j \in 0 .. v.n : CadreEn(v, b, j) = CadreEn(u, b, j)
  BY <1>9, <1>10, RetourVide
<1>12. v.n = k
  BY <1>7, <1>10, <1>11
<1>13. \A j \in 0 .. k : CadreEn(v, b, j) = CadreEn(s, b, j)
  <2>. TAKE j \in 0 .. k
  <2>1. j \in 0 .. k + 1 /\ j < s.n
    BY <1>1, <1>7
  <2>2. CadreEn(u, b, j) = CadreEn(s, b, j)
    BY <1>8, <2>1 DEF u
  <2>. QED BY <1>11, <1>12, <2>2
<1>14. Juste(k)
  BY <1>11, <1>12, <1>13 DEF v
<1>. QED BY <1>14

\* Another last element.
LEMMA DernierChange ==
  ASSUME NEW S, NEW p \in Seq(S), NEW x \in S, NEW y
  PROVE  [Append(p, x) EXCEPT ![Len(Append(p, x))] = y] = Append(p, y)
<1>. DEFINE m == Len(p)
            k == m + 1
            f == Append(p, x)
            g == Append(p, y)
<1>1. m \in Nat /\ Len(f) = k /\ k \in 1 .. k
  OBVIOUS
<1>2. ASSUME NEW z \in S \cup {y}, NEW r, r = Append(p, z) PROVE r = [i \in 1 .. k |-> IF i = k THEN z ELSE p[i]]
  <2>1. p \in Seq(S \cup {y}) /\ z \in S \cup {y}
    BY <1>2
  <2>2. r \in Seq(S \cup {y}) /\ Len(r) = k /\ \A i \in 1 .. k : r[i] = IF i = k THEN z ELSE p[i]
    BY <1>2, <2>1
  <2>3. r = [i \in 1 .. k |-> r[i]]
    BY <2>2
  <2>. HIDE DEF k
  <2>4. \A i \in 1 .. k : r[i] = IF i = k THEN z ELSE p[i]
    BY <2>2
  <2>. QED BY <2>3, <2>4
<1>3. /\ f = [i \in 1 .. k |-> IF i = k THEN x ELSE p[i]]
      /\ g = [i \in 1 .. k |-> IF i = k THEN y ELSE p[i]]
  <2>. HIDE DEF k
  <2>. QED BY <1>2
<1>. HIDE DEF f, g, m, k
<1>4. [f EXCEPT ![k] = y] = g
  BY <1>1, <1>3
<1>. QED BY <1>1, <1>4 DEF f, g

\* What an error makes of s: the handler h of frame m is gone to.
Erreur(s, b, m, h) ==
  Append(SubSeq(CadresEn(s, b), 1, m),
         AvecSuite(CadreEn(s, b, m), IF m = s.n THEN <<>> ELSE CadreEn(s, b, m).pile, h))

\* The frame that has a handler goes on there.
LEMMA ApresErreur ==
  ASSUME NEW s, Sain(s, BasenParams), NEW d, Deroule(d, s.n, Suite(s, <<>>, s.Ins)), NEW m \in 0 .. s.n, NEW h
  PROVE  /\ CadresEn(Suite(d[m], d[m].Pile, h), BasenParams) = Erreur(s, BasenParams, m, h)
         /\ Marques(Suite(d[m], d[m].Pile, h)) /\ SansThis(Suite(d[m], d[m].Pile, h))
<1>. DEFINE b == BasenParams
            u == d[m]
            t == Suite(u, u.Pile, h)
            C == CadresEn(s, b)
            o == CadreEn(s, b, m)
            e == CadreEn(u, b, m)
            p == SubSeq(C, 1, m)
            q == VueDe(u, b, m, u.Pile)
<1>1. s.n \in Nat /\ Sain(u, b) /\ u.n = m /\ \A k \in 0 .. m : k < s.n => CadreEn(u, b, k) = CadreEn(s, b, k)
  BY DeroulementVu
<1>2. m = s.n => u = Suite(s, <<>>, s.Ins)
  BY DeroulementVu
<1>3. Bon(s, b)
  BY DEF Sain
<1>. HIDE DEF u
<1>4. m \in Nat /\ m \in 0 .. m /\ u.n \in Nat /\ u.n \in 0 .. s.n
  BY <1>1
<1>5. Bon(u, b) /\ Marques(u) /\ SansThis(u)
  BY <1>1 DEF Sain
<1>6. CadresEn(u, b) = Append(p, e)
  <2>1. \A k \in 0 .. u.n - 1 : CadreEn(u, b, k) = CadreEn(s, b, k)
    <3>1. \A k \in 0 .. u.n - 1 : k \in 0 .. m /\ k < s.n
      BY <1>1, <1>4
    <3>. QED BY <1>1, <3>1
  <2>2. CadresEn(u, b) = Append(SubSeq(C, 1, u.n), CadreEn(u, b, u.n))
    BY <1>1, <1>4, <2>1, Garde
  <2>. QED BY <1>1, <2>2
<1>7. CadresEn(t, b) = [CadresEn(u, b) EXCEPT ![Len(CadresEn(u, b))] = AvecSuite(e, q, h)]
  <2>. DEFINE w == u.Pile
  <2>1. CadresEn(Suite(u, w, h), b) = [CadresEn(u, b) EXCEPT ![Len(CadresEn(u, b))] =
                                         AvecSuite(CadreEn(u, b, u.n), VueDe(u, b, u.n, w), h)]
    <3>. HIDE DEF w, b
    <3>. QED BY <1>5, CadreSuite
  <2>. QED BY <1>1, <2>1
<1>8. p \in Seq(Tous(s, b) \cup {e})
  <2>. DEFINE S == Tous(s, b)
  <2>1. C \in Seq(S) /\ Len(C) = s.n + 1
    BY <1>1, Longueur
  <2>. HIDE DEF C, S
  <2>2. p \in Seq(S)
    BY <1>1, <1>4, <2>1
  <2>. HIDE DEF p
  <2>3. p \in Seq(S \cup {e})
    BY <2>2
  <2>. QED BY <2>3 DEF S
<1>9. CadresEn(t, b) = Append(p, AvecSuite(e, q, h))
  <2>. DEFINE S == Tous(s, b) \cup {e}
              x == AvecSuite(e, q, h)
  <2>1. p \in Seq(S) /\ e \in S
    BY <1>8
  <2>2. CadresEn(t, b) = [Append(p, e) EXCEPT ![Len(Append(p, e))] = x]
    BY <1>6, <1>7
  <2>. HIDE DEF p, e, S, x, t
  <2>3. CadresEn(t, b) = Append(p, x)
    BY <2>1, <2>2, DernierChange
  <2>. QED BY <2>3 DEF x
<1>10. e.pile = q
  <2>1. CadreEn(u, b, u.n) = UnCadre(VueDe(u, b, u.n, u.Pile), ParamsEn(u, b, u.n), LocalesEn(u, b, u.n),
                                     u.Appel[u.n].EnErreur, u.This, u.Ins)
    BY <1>4, Actuel
  <2>. HIDE DEF e, q
  <2>2. CadreEn(u, b, u.n).pile = VueDe(u, b, u.n, u.Pile)
    BY <2>1, Champs
  <2>. QED BY <1>1, <2>2 DEF e, q
<1>11. AvecSuite(e, q, h) = AvecSuite(o, IF m = s.n THEN <<>> ELSE o.pile, h)
  <2>1. CASE m = s.n
    <3>1. e = AvecPile(o, <<>>)
      <4>1. CadreEn(u, b, s.n) = AvecPile(CadreEn(s, b, s.n), <<>>)
        BY <1>2, <1>3, <2>1, CadreVide
      <4>. QED BY <2>1, <4>1
    <3>2. \E a1, a2, a3, a4, a5, a6 : o = UnCadre(a1, a2, a3, a4, a5, a6)
      BY DEF CadreEn, CadreAvec
    <3>3. PICK a1, a2, a3, a4, a5, a6 : o = UnCadre(a1, a2, a3, a4, a5, a6)
      BY <3>2
    <3>. HIDE DEF o, e, q
    <3>4. e = UnCadre(<<>>, a2, a3, a4, a5, a6)
      BY <3>1, <3>3, Champs
    <3>5. q = <<>>
      BY <1>10, <3>4, Champs
    <3>6. AvecSuite(e, <<>>, h) = UnCadre(<<>>, a2, a3, a4, a5, h)
      BY <3>4, Champs
    <3>7. AvecSuite(o, <<>>, h) = UnCadre(<<>>, a2, a3, a4, a5, h)
      BY <3>3, Champs
    <3>. QED BY <2>1, <3>5, <3>6, <3>7
  <2>2. CASE m # s.n
    <3>1. e = o
      BY <1>1, <1>4, <2>2
    <3>. HIDE DEF e, o, q
    <3>. QED BY <1>10, <2>2, <3>1
  <2>. QED BY <2>1, <2>2
<1>12. Marques(t) /\ SansThis(t)
  <2>1. t.n = u.n /\ t.Appel = u.Appel /\ t.PileF = u.PileF
    BY DEF Suite
  <2>. HIDE DEF t
  <2>2. Marques(t)
    BY <1>5, <2>1 DEF Marques, D
  <2>3. SansThis(t)
    BY <1>5, <2>1 DEF SansThis
  <2>. QED BY <2>2, <2>3
<1>. HIDE DEF e, q
<1>. QED BY <1>9, <1>11, <1>12 DEF Erreur, u

\* m is the last frame that has a handler, or the first one.
Gere(m) ==
  /\ m \in 0 .. nAppels /\ (m = 0 \/ Appel[m].EnErreur # Nul)
  /\ \A a \in 0 .. nAppels : Appel[a].EnErreur # Nul => a <= m

\* What Exception does.
LEMMA ExceptionFaite ==
  ASSUME Sain(Etat, BasenParams), Exception
  PROVE  /\ BasenParams' = BasenParams
         /\ \E m : Gere(m) /\ CadresEn(Etat', BasenParams) = Erreur(Etat, BasenParams, m, Appel[m].EnErreur)
         /\ Marques(Etat') /\ SansThis(Etat')
<1>. DEFINE X == [Etat EXCEPT !.Pile = <<>>]
            avec == {a \in 0 .. nAppels : a = 0 \/ Appel[a].EnErreur # Nul}
            m == Max(avec)
            d == CHOOSE g : Deroule(g, nAppels, X)
            h == Appel[m].EnErreur
            t == [d[m] EXCEPT !.Ins = h]
<1>1. Devenir(t)
  BY Zenon DEF Exception, Deroule
<1>2. Inv
  BY DEF Sain, Inv
<1>3. nAppels \in Nat /\ Etat.n = nAppels /\ Appel \in [0 .. NMAXAPPELS -> Elements] /\ nAppels <= NMAXAPPELS
      /\ NMAXAPPELS \in Nat
  BY <1>2, Lecture, AppelsAssumption
<1>4. Deroule(d, nAppels, X)
  <2>. HIDE DEF X
  <2>. QED BY <1>3, Boucle
<1>5. X = Suite(Etat, <<>>, Etat.Ins)
  BY DEF Etat, Suite
<1>6. Gere(m)
  <2>1. avec \in SUBSET (0 .. nAppels) /\ avec # {}
    <3>1. 0 \in avec
      BY <1>3
    <3>. QED BY <3>1
  <2>3. m \in avec /\ \A y \in avec : m >= y
    <3>. HIDE DEF avec
    <3>1. \E x \in avec : \A y \in avec : x >= y
      BY <1>3, <2>1, PlusGrand
    <3>. QED BY <3>1 DEF Max
  <2>. HIDE DEF m
  <2>4. \A a \in 0 .. nAppels : Appel[a].EnErreur # Nul => a <= m
    BY <1>3, <2>3
  <2>. QED BY <2>3, <2>4 DEF Gere
<1>. HIDE DEF m, h, X
<1>7. h \in Lieux \cup {Nul}
  <2>1. m \in 0 .. NMAXAPPELS
    BY <1>3, <1>6 DEF Gere
  <2>2. Appel[m] \in Elements
    BY <1>3, <2>1
  <2>. QED BY <2>2 DEF Elements, h
<1>. HIDE DEF d
<1>. DEFINE s == d[m]
            v == Suite(s, s.Pile, h)
<1>8. Deroule(d, Etat.n, Suite(Etat, <<>>, Etat.Ins)) /\ m \in 0 .. Etat.n
  BY <1>3, <1>4, <1>5, <1>6 DEF Gere
<1>9. Bon(s, BasenParams)
  <2>. HIDE DEF Etat
  <2>1. Sain(d[m], BasenParams)
    BY <1>8, DeroulementVu
  <2>. QED BY <2>1 DEF Sain
<1>. HIDE DEF s
<1>10. t = v
  <2>1. t = [s EXCEPT !.Ins = h]
    BY DEF s
  <2>. HIDE DEF t
  <2>. QED BY <1>9, <2>1 DEF Bon, Etats, Suite
<1>11. Bon(v, BasenParams)
  <2>1. s.Pile \in Seq(Vals) /\ \A i \in DOMAIN s.Pile : s.Pile[i] \in Refs => s.Pile[i].adr \in D(s, s.n) .. s.l - 1
    BY <1>9 DEF Bon, Etats, Vivantes
  <2>. QED BY <1>7, <1>9, <2>1, Calcul
<1>12. /\ CadresEn(v, BasenParams) = Erreur(Etat, BasenParams, m, h)
       /\ Marques(v) /\ SansThis(v)
  <2>. HIDE DEF Etat
  <2>1. /\ CadresEn(Suite(d[m], d[m].Pile, h), BasenParams) = Erreur(Etat, BasenParams, m, h)
        /\ Marques(Suite(d[m], d[m].Pile, h)) /\ SansThis(Suite(d[m], d[m].Pile, h))
    BY <1>8, ApresErreur
  <2>. QED BY <2>1 DEF s
<1>. HIDE DEF t, v
<1>13. Etat' = v /\ BasenParams' = BasenParams
  BY <1>1, <1>10, <1>11, EtatDevenu
<1>. QED BY <1>6, <1>12, <1>13 DEF h

\* An error goes to the handler of the innermost frame that has one.
LEMMA ExceptionAbstraite == ASSUME Sain(Etat, BasenParams), Exception PROVE AbsCadres!Echouer
<1>. DEFINE b == BasenParams
            C == CadresEn(Etat, b)
            avec == {i \in 1 .. Len(CadresAbs) : CadresAbs[i].gest # Nul}
            a == IF avec = {} THEN 1 ELSE AbsCadres!Max(avec)
            pile == IF a = Len(CadresAbs) THEN <<>> ELSE CadresAbs[a].pile
<1>0. Inv
  BY DEF Sain, Inv
<1>1. PICK m : Gere(m) /\ CadresEn(Etat', b) = Erreur(Etat, b, m, Appel[m].EnErreur)
  BY ExceptionFaite
<1>2. CadresAbs = C /\ CadresAbs' = CadresEn(Etat', b)
  BY ExceptionFaite, Image
<1>3. Etat.n = nAppels /\ nAppels \in Nat /\ m \in 0 .. nAppels /\ Etat.Appel = Appel
  BY <1>0, <1>1, Lecture DEF Gere
<1>4. Len(CadresAbs) = nAppels + 1 /\ \A k \in 0 .. nAppels : CadresAbs[k + 1] = CadreEn(Etat, b, k)
  <2>. HIDE DEF Etat
  <2>. QED BY <1>2, <1>3, Longueur
<1>5. \A k \in 0 .. nAppels : CadreEn(Etat, b, k).gest = Appel[k].EnErreur
  BY <1>3, Champs DEF CadreEn, CadreAvec
<1>. HIDE DEF Etat
<1>6. \A i \in 1 .. nAppels + 1 : i - 1 \in 0 .. nAppels /\ CadresAbs[i].gest = Appel[i - 1].EnErreur
  <2>. TAKE i \in 1 .. nAppels + 1
  <2>1. i - 1 \in 0 .. nAppels /\ (i - 1) + 1 = i
    BY <1>3
  <2>2. CadresAbs[(i - 1) + 1] = CadreEn(Etat, b, i - 1)
    BY <1>4, <2>1
  <2>. QED BY <1>5, <2>1, <2>2
<1>. HIDE DEF C
<1>7. a = m + 1
  <2>1. CASE Appel[m].EnErreur # Nul
    <3>1. m + 1 \in 1 .. nAppels + 1 /\ (m + 1) - 1 = m
      BY <1>3
    <3>2. CadresAbs[m + 1].gest = Appel[m].EnErreur
      BY <1>6, <3>1
    <3>3. m + 1 \in avec
      BY <1>4, <2>1, <3>1, <3>2
    <3>4. \A j \in avec : j \in Nat /\ j <= m + 1
      <4>. TAKE j \in avec
      <4>1. j \in 1 .. nAppels + 1 /\ Appel[j - 1].EnErreur # Nul /\ j - 1 \in 0 .. nAppels
        BY <1>4, <1>6
      <4>2. j - 1 <= m
        BY <1>1, <4>1 DEF Gere
      <4>. QED BY <1>3, <4>1, <4>2
    <3>. HIDE DEF avec
    <3>5. m + 1 \in Nat /\ \A y \in avec : m + 1 >= y
      BY <1>3, <3>4
    <3>6. AbsCadres!Max(avec) \in avec /\ \A y \in avec : AbsCadres!Max(avec) >= y
      BY <3>3, <3>5 DEF AbsCadres!Max
    <3>7. AbsCadres!Max(avec) = m + 1
      <4>1. AbsCadres!Max(avec) \in Nat /\ AbsCadres!Max(avec) <= m + 1 /\ AbsCadres!Max(avec) >= m + 1
        BY <3>3, <3>4, <3>6
      <4>. QED BY <3>5, <4>1
    <3>. QED BY <3>3, <3>7
  <2>2. CASE Appel[m].EnErreur = Nul
    <3>1. m = 0
      BY <1>1, <2>2 DEF Gere
    <3>2. avec = {}
      <4>. SUFFICES ASSUME NEW j \in avec PROVE FALSE
        OBVIOUS
      <4>1. j \in 1 .. nAppels + 1 /\ Appel[j - 1].EnErreur # Nul /\ j - 1 \in 0 .. nAppels
        BY <1>4, <1>6
      <4>2. j - 1 <= m
        BY <1>1, <4>1 DEF Gere
      <4>3. j - 1 = 0
        BY <1>3, <3>1, <4>1, <4>2
      <4>. QED BY <2>2, <3>1, <4>1, <4>3
    <3>. QED BY <3>1, <3>2
  <2>. QED BY <2>1, <2>2
<1>8. /\ CadresAbs[a] = CadreEn(Etat, b, m) /\ CadresAbs[a].gest = Appel[m].EnErreur
      /\ a - 1 = m /\ (a = Len(CadresAbs) <=> m = nAppels)
  <2>. HIDE DEF a
  <2>. QED BY <1>3, <1>4, <1>5, <1>7
<1>. HIDE DEF a
<1>9. pile = IF m = nAppels THEN <<>> ELSE CadreEn(Etat, b, m).pile
  BY <1>8
<1>. HIDE DEF pile
<1>10. CadresAbs' = Append(SubSeq(CadresAbs, 1, a - 1), AvecSuite(CadresAbs[a], pile, CadresAbs[a].gest))
  BY <1>1, <1>2, <1>3, <1>8, <1>9 DEF Erreur, C
<1>11. CadresAbs' = Append(SubSeq(CadresAbs, 1, a - 1), [CadresAbs[a] EXCEPT !.pile = pile, !.ins = CadresAbs[a].gest])
  BY <1>10 DEF AvecSuite
<1>. QED BY <1>11 DEF AbsCadres!Echouer, a, pile

-----------------------------------------------------------------------------
(* A new interpreter, seen by a script. *)

\* One frame.
LEMMA Seul ==
  ASSUME NEW b, NEW s, s.n = 0
  PROVE  CadresEn(s, b) = <<CadreEn(s, b, 0)>>
<1>. DEFINE c == CadreEn(s, b, 0)
            C == CadresEn(s, b)
<1>1. C = [k \in 1 .. 1 |-> CadreEn(s, b, k - 1)]
  <2>1. s.n + 1 = 1
    OBVIOUS
  <2>. QED BY <2>1 DEF CadresEn
<1>2. \A k \in 1 .. 1 : k - 1 = 0
  OBVIOUS
<1>3. C = [k \in 1 .. 1 |-> c]
  BY <1>1, <1>2
<1>4. <<c>> = [k \in 1 .. 1 |-> c]
  <2>. HIDE DEF c
  <2>. QED OBVIOUS
<1>. QED BY <1>3, <1>4

\* I_GOTOTACHE gives the new interpreter the variables of the frame.
LEMMA NouvelleTacheAbstraite == ASSUME Inv, NouvelleTache PROVE AbsCadres!Univers
<1>. DEFINE b == BasenParams
            n == nAppels
            nl == l - DebutParam
            z == DebutVarLoc - DebutParam
            t == Etat'
            A == ParamsEn(Etat, b, n)
            L == LocalesEn(Etat, b, n)
<1>1. /\ Pile' = <<>> /\ l' = nl /\ nAppels' = 0 /\ BasenParams' = z /\ Ins' \in Lieux /\ This' = Nul
      /\ Appel' = [a \in 0 .. NMAXAPPELS |-> AppelVide]
      /\ PileF' = [i \in Cellules |-> IF i < nl THEN PileF[DebutParam + i] ELSE Inconnu]
  BY DEF NouvelleTache
<1>2. /\ nl \in Nat /\ z \in Nat /\ z <= nl /\ nl <= Memoire /\ l \in Nat /\ DebutParam \in Nat /\ DebutVarLoc \in Nat
      /\ Memoire \in Nat /\ NMAXAPPELS \in Nat /\ DebutParam + nl = l /\ DebutParam + z = DebutVarLoc
      /\ DebutVarLoc - DebutParam = z
  BY Lecture, AppelsAssumption
<1>3. /\ t.Pile = <<>> /\ t.PileF = PileF' /\ t.l = nl /\ t.n = 0 /\ t.Ins = Ins' /\ t.This = Nul
      /\ t.Appel[0].EnErreur = Nul
  <2>1. 0 \in 0 .. NMAXAPPELS
    BY <1>2
  <2>. QED BY <1>1, <2>1 DEF Etat, AppelVide
<1>4. /\ D(Etat, n) = DebutParam /\ V(Etat, n, b) = DebutVarLoc /\ F(Etat, n) = l /\ Etat.PileF = PileF
      /\ AbsCadres!cadre.params = A /\ AbsCadres!cadre.locales = L
  BY Lecture, Devant, Champs DEF F
<1>. HIDE DEF t, nl, z
<1>5. \A i \in Cellules : i < nl => t.PileF[i] = PileF[DebutParam + i]
  BY <1>1, <1>3
<1>6. D(t, 0) = 0 /\ V(t, 0, z) = z /\ F(t, 0) = nl
  BY <1>3 DEF D, V, F
<1>7. ParamsEn(t, z, 0) = A
  <2>1. ASSUME NEW i \in 1 .. z PROVE t.PileF[0 + i - 1] = PileF[DebutParam + i - 1]
    <3>1. i - 1 \in Cellules /\ i - 1 < nl /\ 0 + i - 1 = i - 1 /\ DebutParam + (i - 1) = DebutParam + i - 1
      BY <1>2 DEF Cellules
    <3>. QED BY <1>5, <3>1
  <2>2. ParamsEn(t, z, 0) = [i \in 1 .. z |-> t.PileF[0 + i - 1]]
    <3>1. V(t, 0, z) - D(t, 0) = z
      BY <1>2, <1>6
    <3>. QED BY <1>6, <3>1 DEF ParamsEn
  <2>3. A = [i \in 1 .. z |-> PileF[DebutParam + i - 1]]
    BY <1>2, <1>4 DEF ParamsEn
  <2>. QED BY <2>1, <2>2, <2>3
<1>8. LocalesEn(t, z, 0) = L
  <2>1. ASSUME NEW i \in Locales
        PROVE  (IF z + i < nl THEN t.PileF[z + i] ELSE Inconnu)
               = IF DebutVarLoc + i < l THEN PileF[DebutVarLoc + i] ELSE Inconnu
    <3>1. i \in Nat
      BY AppelsAssumption
    <3>2. z + i < nl <=> DebutVarLoc + i < l
      BY <1>2, <3>1
    <3>3. ASSUME z + i < nl PROVE t.PileF[z + i] = PileF[DebutVarLoc + i]
      <4>1. z + i \in Cellules /\ DebutParam + (z + i) = DebutVarLoc + i
        BY <1>2, <3>1, <3>3 DEF Cellules
      <4>. QED BY <1>5, <3>3, <4>1
    <3>. QED BY <3>2, <3>3
  <2>2. LocalesEn(t, z, 0) = [i \in Locales |-> IF z + i < nl THEN t.PileF[z + i] ELSE Inconnu]
    BY <1>6 DEF LocalesEn
  <2>3. L = [i \in Locales |-> IF DebutVarLoc + i < l THEN PileF[DebutVarLoc + i] ELSE Inconnu]
    BY <1>4 DEF LocalesEn
  <2>. QED BY <2>1, <2>2, <2>3
<1>. HIDE DEF A, L
<1>. DEFINE c == UnCadre(<<>>, A, L, Nul, Nul, Ins')
            e == AbsCadres!CadreDe(A, Nul, Ins')
<1>9. CadreEn(t, z, 0) = c
  <2>1. CadreEn(t, z, t.n) = UnCadre(VueDe(t, z, t.n, t.Pile), ParamsEn(t, z, t.n), LocalesEn(t, z, t.n),
                                     t.Appel[t.n].EnErreur, t.This, t.Ins)
    <3>1. t.n \in Nat
      BY <1>3
    <3>. QED BY <3>1, Actuel
  <2>2. VueDe(t, z, 0, <<>>) = <<>>
    <3>1. <<>> \in Seq(Simples)
      OBVIOUS
    <3>. QED BY <3>1, VuesSimples
  <2>. QED BY <1>3, <1>7, <1>8, <2>1, <2>2
<1>10. CadresAbs' = <<c>>
  <2>1. CadresAbs' = CadresEn(t, z)
    BY <1>1, Image DEF t
  <2>2. CadresEn(t, z) = <<CadreEn(t, z, 0)>>
    BY <1>3, Seul
  <2>. QED BY <1>9, <2>1, <2>2
<1>11. c = [e EXCEPT !.locales = L]
  <2>1. e = UnCadre(<<>>, A, Vides, Nul, Nul, Ins')
    BY Neuf
  <2>. DEFINE v == Ins'
  <2>. HIDE DEF e, v
  <2>2. [e EXCEPT !.locales = L] = UnCadre(<<>>, A, L, Nul, Nul, v)
    BY <2>1 DEF UnCadre, v
  <2>. QED BY <2>2 DEF v
<1>12. CadresAbs' = <<[AbsCadres!CadreDe(AbsCadres!cadre.params, Nul, Ins') EXCEPT !.locales = AbsCadres!cadre.locales]>>
  BY <1>4, <1>10, <1>11
<1>. QED BY <1>1, <1>12 DEF AbsCadres!Univers

-----------------------------------------------------------------------------
(* Every instruction leaves the DEBUTPARAM of the calls in progress where    *)
(* they are, and no This but theirs.                                         *)

\* A step that stays in the current function.
LEMMA SainGarde ==
  ASSUME NEW b, NEW s, Sain(s, b), NEW t, t.n = s.n, MemesAppels(s, t, s.n), MemesCellules(s, t, s.n),
         \A a \in 0 .. NMAXAPPELS : t.Appel[a].This = s.Appel[a].This
  PROVE  Marques(t) /\ SansThis(t)
<1>1. Bon(s, b) /\ s.n \in Nat /\ s.n \in 0 .. s.n
  BY Bornes DEF Sain
<1>2. SansThis(t)
  <2>1. \A a \in s.n .. NMAXAPPELS : a \in 0 .. NMAXAPPELS
    BY <1>1
  <2>. QED BY <2>1 DEF Sain, SansThis
<1>3. Marques(t)
  <2>1. ASSUME NEW k \in 1 .. s.n PROVE t.PileF[D(t, k) - 1] = Marque
    <3>1. k \in 0 .. s.n /\ 0 \in 0 .. s.n /\ 0 < k /\ k # 0 /\ k - 1 \in 0 .. s.n - 1
      BY <1>1
    <3>2. D(t, k) = D(s, k)
      BY <3>1 DEF D, MemesAppels
    <3>3. F(s, 0) < D(s, k) /\ F(s, 0) \in Nat /\ D(s, k) \in Nat /\ D(s, k) <= s.l /\ s.l <= Memoire
          /\ s.l \in Nat /\ Memoire \in Nat
      BY <1>1, <3>1, Bornes DEF Bon, Ordonne
    <3>4. D(s, k) <= D(s, s.n) /\ D(s, s.n) \in Nat
      BY <1>1, <3>1, Croissant, Bornes
    <3>5. D(s, k) - 1 \in Cellules /\ D(s, k) - 1 < D(s, s.n)
      BY <3>3, <3>4 DEF Cellules
    <3>6. t.PileF[D(s, k) - 1] = s.PileF[D(s, k) - 1]
      BY <3>5 DEF MemesCellules
    <3>. QED BY <3>2, <3>6 DEF Sain, Marques
  <2>. QED BY <2>1 DEF Marques
<1>. QED BY <1>2, <1>3

\* A call puts its DEBUTPARAM in PileF.
LEMMA SainAppele ==
  ASSUME NEW b, NEW s, Sain(s, b), NEW t, NEW p \in Seq(Vals), NEW param \in 1 .. Len(p), p[param] = Marque,
         s.l + Len(p) <= Memoire, Appele(s, t, p, Len(p), param), NEW v, NEW garde, Suspend(s, t, v, garde)
  PROVE  Marques(t) /\ SansThis(t)
<1>1. Bon(s, b) /\ s.n \in Nat /\ s.n \in 0 .. s.n /\ s.l \in Nat /\ Memoire \in Nat /\ s.l <= Memoire
  BY Bornes DEF Sain
<1>2. t.n = s.n + 1
  BY DEF Appele
<1>3. SansThis(t)
  <2>1. \A a \in t.n .. NMAXAPPELS : a \in s.n .. NMAXAPPELS /\ a \in s.n + 1 .. NMAXAPPELS
    BY <1>1, <1>2
  <2>. QED BY <2>1 DEF Sain, SansThis, Suspend
<1>4. ASSUME NEW k \in 1 .. s.n PROVE t.PileF[D(t, k) - 1] = Marque
  <2>1. k \in 0 .. s.n /\ 0 \in 0 .. s.n /\ 0 < k /\ k # 0 /\ k - 1 \in 0 .. s.n - 1
    BY <1>1
  <2>2. D(t, k) = D(s, k)
    BY <2>1 DEF D, Appele
  <2>3. F(s, 0) < D(s, k) /\ F(s, 0) \in Nat /\ D(s, k) \in Nat /\ D(s, k) <= s.l
    BY <1>1, <2>1, Bornes DEF Bon, Ordonne
  <2>. DEFINE i == D(s, k) - 1
              fin == s.l + Len(p)
  <2>5. i \in Cellules /\ i \notin s.l .. fin - 1
    BY <1>1, <2>3 DEF Cellules
  <2>. HIDE DEF i
  <2>6. t.PileF[i] = s.PileF[i]
    BY <2>5 DEF Appele, Recopie
  <2>. QED BY <2>2, <2>6 DEF Sain, Marques, i
<1>5. t.PileF[D(t, t.n) - 1] = Marque
  <2>. DEFINE i == s.l + param - 1
              fin == s.l + Len(p)
  <2>1. D(t, t.n) = s.l + param
    <3>1. t.n # 0 /\ t.n - 1 = s.n
      BY <1>1, <1>2
    <3>. QED BY <3>1 DEF D, Appele
  <2>2. i \in Cellules /\ i \in s.l .. fin - 1 /\ i - s.l + 1 = param /\ D(t, t.n) - 1 = i
    BY <1>1, <2>1 DEF Cellules
  <2>. HIDE DEF i
  <2>3. t.PileF[i] = p[i - s.l + 1]
    BY <2>2 DEF Appele, Recopie
  <2>. QED BY <2>2, <2>3
<1>6. Marques(t)
  <2>1. \A k \in 1 .. t.n : k = t.n \/ k \in 1 .. s.n
    BY <1>1, <1>2
  <2>. QED BY <1>4, <1>5, <2>1 DEF Marques
<1>. QED BY <1>3, <1>6

\* What Sain is, of this state and of the next one.
LEMMA SainDe ==
  /\ Sain(Etat, BasenParams) => Inv /\ SansThis(Etat)
  /\ Inv' /\ Marques(Etat') /\ SansThis(Etat') => Sain(Etat, BasenParams)'
<1>1. Sain(Etat, BasenParams) => Inv /\ SansThis(Etat)
  BY DEF Sain, Inv
<1>2. Marques(Etat') = Marques(Etat)'
  BY DEF Marques, D
<1>3. SansThis(Etat') = SansThis(Etat)'
  BY DEF SansThis
<1>4. Inv' /\ Marques(Etat)' /\ SansThis(Etat)' => Sain(Etat, BasenParams)'
  BY DEF Sain, Inv
<1>. QED BY <1>1, <1>2, <1>3, <1>4

\* Another expression, and another length of PileF.
LEMMA SainCalcul ==
  ASSUME Sain(Etat, BasenParams), UNCHANGED <<PileF, appels>>
  PROVE  Marques(Etat') /\ SansThis(Etat')
<1>1. Etat'.PileF = Etat.PileF /\ Etat'.Appel = Etat.Appel /\ Etat'.n = Etat.n
  BY DEF Etat, appels
<1>. DEFINE s == Etat
            t == Etat'
            b == BasenParams
<1>2. Sain(s, b)
  OBVIOUS
<1>. HIDE DEF s, t, b
<1>3. t.PileF = s.PileF /\ t.Appel = s.Appel /\ t.n = s.n
  BY <1>1 DEF s, t
<1>4. MemesAppels(s, t, s.n) /\ MemesCellules(s, t, s.n)
  BY <1>3 DEF MemesAppels, MemesCellules
<1>5. Marques(t) /\ SansThis(t)
  BY <1>2, <1>3, <1>4, SainGarde
<1>. QED BY <1>5 DEF t

\* I_ENERREUR.
LEMMA SainEnErreur ==
  ASSUME Sain(Etat, BasenParams), EnErreur
  PROVE  Marques(Etat') /\ SansThis(Etat')
<1>. DEFINE s == Etat
            t == Etat'
            b == BasenParams
<1>1. Inv /\ Sain(s, b)
  BY SainDe
<1>2. PICK h \in Lieux : Appel' = [Appel EXCEPT ![nAppels].EnErreur = h]
  BY DEF EnErreur
<1>3. t.PileF = s.PileF /\ t.n = s.n /\ s.Appel = Appel /\ t.Appel = Appel' /\ s.n = nAppels
  BY DEF Etat, EnErreur, memoire
<1>4. nAppels \in 0 .. NMAXAPPELS /\ NMAXAPPELS \in Nat /\ Appel \in [0 .. NMAXAPPELS -> Elements]
  BY <1>1, Lecture, AppelsAssumption
<1>. HIDE DEF s, t, b
<1>. DEFINE e == [Appel[nAppels] EXCEPT !.EnErreur = h]
<1>5. Appel' = [Appel EXCEPT ![nAppels] = e] /\ e.This = Appel[nAppels].This
  BY <1>2, <1>4 DEF Elements
<1>. HIDE DEF e
<1>6. \A a \in 0 .. NMAXAPPELS : Appel'[a].This = Appel[a].This /\ (a # nAppels => Appel'[a] = Appel[a])
  BY <1>4, <1>5
<1>7. MemesAppels(s, t, s.n)
  <2>1. \A k \in 0 .. nAppels - 1 : k \in 0 .. NMAXAPPELS /\ k # nAppels
    BY <1>4
  <2>2. \A k \in 0 .. nAppels - 1 : t.Appel[k] = s.Appel[k]
    BY <1>3, <1>6, <2>1
  <2>. QED BY <1>3, <2>2 DEF MemesAppels
<1>8. MemesCellules(s, t, s.n) /\ \A a \in 0 .. NMAXAPPELS : t.Appel[a].This = s.Appel[a].This
  BY <1>3, <1>6 DEF MemesCellules
<1>9. Marques(t) /\ SansThis(t)
  BY <1>1, <1>3, <1>7, <1>8, SainGarde
<1>. QED BY <1>9 DEF t

\* I_DEFINIR writes a variable of the current frame.
LEMMA SainDefinir ==
  ASSUME Sain(Etat, BasenParams), Definir
  PROVE  Marques(Etat') /\ SansThis(Etat')
<1>. DEFINE s == Etat
            t == Etat'
            b == BasenParams
            k == Len(Pile)
            a == Pile[k - 1].adr
<1>1. Inv /\ Sain(s, b)
  BY SainDe
<1>2. k >= 2 /\ Pile[k - 1] \in Refs /\ PileF' = [PileF EXCEPT ![a] = Pile[k]]
  BY DEF Definir
<1>3. t.PileF = PileF' /\ s.PileF = PileF /\ t.n = s.n /\ t.Appel = s.Appel /\ D(s, s.n) = DebutParam
  <2>1. t.PileF = PileF' /\ s.PileF = PileF /\ t.n = s.n /\ t.Appel = s.Appel
    BY DEF Etat, Definir, appels
  <2>2. D(Etat, nAppels) = DebutParam /\ Etat.n = nAppels
    BY <1>1, Lecture
  <2>. QED BY <2>1, <2>2
<1>4. a \in DebutParam .. l - 1 /\ DebutParam \in Nat /\ l \in Nat /\ PileF \in [Cellules -> Vals] /\ Memoire \in Nat
  <2>1. Pile \in Seq(Vals)
    BY <1>1, Lecture
  <2>2. k - 1 \in DOMAIN Pile
    BY <1>2, <2>1
  <2>. QED BY <1>1, <1>2, <2>2, Lecture, AppelsAssumption
<1>. HIDE DEF s, t, b, a
<1>5. MemesCellules(s, t, s.n)
  <2>1. ASSUME NEW i \in Cellules, i < DebutParam PROVE PileF'[i] = PileF[i]
    <3>1. i # a
      BY <1>4, <2>1 DEF Cellules
    <3>. QED BY <1>2, <1>4, <3>1
  <2>. QED BY <1>3, <2>1 DEF MemesCellules
<1>6. MemesAppels(s, t, s.n)
  BY <1>3 DEF MemesAppels
<1>7. Marques(t) /\ SansThis(t)
  BY <1>1, <1>3, <1>5, <1>6, SainGarde
<1>. QED BY <1>7 DEF t

\* The instructions that call.
LEMMA SainAppel ==
  ASSUME Sain(Etat, BasenParams), NEW p \in Seq(Vals), NEW v \in Lieux, NEW garde \in Objets \cup {Nul},
         AppelerEtiquette(p, v, garde), Pile' \in Seq(Simples), This' \in Objets \cup {Nul}
  PROVE  Marques(Etat') /\ SansThis(Etat')
<1>. DEFINE s == Etat
            t == Etat'
            b == BasenParams
            param == DerniereMarque(p)
<1>1. Inv /\ Sain(s, b)
  BY SainDe
<1>2. /\ s.l + Len(p) <= Memoire /\ param \in 1 .. Len(p) /\ p[param] = Marque
      /\ Appele(s, t, p, Len(p), param)
      /\ Suspend(s, t, v, garde)
  BY <1>1, AppelFait
<1>. HIDE DEF s, t, b, param
<1>3. Marques(t) /\ SansThis(t)
  BY <1>1, <1>2, SainAppele
<1>. QED BY <1>3 DEF t

\* I_EXEC and I_EXECTHIS call.
LEMMA SainExec ==
  ASSUME Sain(Etat, BasenParams), Exec \/ ExecThis
  PROVE  Marques(Etat') /\ SansThis(Etat')
<1>1. Inv
  BY SainDe
<1>2. CASE Exec
  <2>1. PICK v \in Lieux : AppelerEtiquette(Pile, v, Appel[nAppels].This)
    BY <1>2 DEF Exec
  <2>2. Pile' \in Seq(Simples) /\ This' \in Objets \cup {Nul} /\ Appel[nAppels].This \in Objets \cup {Nul}
    BY <1>1, <1>2, Lecture DEF Exec, Elements
  <2>3. Pile \in Seq(Vals)
    BY <1>1, Lecture
  <2>. QED BY <2>1, <2>2, <2>3, SainAppel
<1>3. CASE ExecThis
  <2>. DEFINE k == Len(Pile) - 1
              p == SubSeq(Pile, 1, k)
              garde == IF This # Nul THEN This ELSE Appel[nAppels].This
  <2>1. PICK v \in Lieux : AppelerEtiquette(p, v, garde)
    BY <1>3 DEF ExecThis, Front
  <2>2. k \in 0 .. Len(Pile)
    BY <1>1, <1>3, Lecture DEF ExecThis
  <2>3. Pile' \in Seq(Simples) /\ This' \in Objets \cup {Nul} /\ garde \in Objets \cup {Nul}
    BY <1>1, <1>3, Lecture DEF ExecThis, Elements
  <2>. HIDE DEF garde, k
  <2>4. p \in Seq(Vals)
    BY <1>1, <2>2, Reste
  <2>. HIDE DEF p
  <2>. QED BY <2>1, <2>3, <2>4, SainAppel
<1>. QED BY <1>2, <1>3

\* biGotoMulti calls, or changes the expression.
LEMMA SainGotoMulti ==
  ASSUME Sain(Etat, BasenParams), GotoMulti
  PROVE  Marques(Etat') /\ SansThis(Etat')
<1>. DEFINE m == DerniereMarque(Pile)
            p == SubSeq(Pile, 1, m)
<1>1. Inv
  BY SainDe
<1>2. m \in 0 .. Len(Pile)
  <2>1. Pile \in Seq(Vals)
    BY <1>1, Lecture
  <2>. QED BY <2>1, Marquage
<1>3. CASE UNCHANGED <<memoire, appels>>
  <2>1. UNCHANGED <<PileF, appels>>
    BY <1>3 DEF memoire
  <2>. QED BY <2>1, SainCalcul
<1>4. CASE /\ Pile' = <<Inconnu>>
           /\ \E v \in Lieux : AppelerEtiquette(p, v, Appel[nAppels].This)
           /\ UNCHANGED This
  <2>1. PICK v \in Lieux : AppelerEtiquette(p, v, Appel[nAppels].This)
    BY <1>4
  <2>2. Pile' \in Seq(Simples) /\ This' \in Objets \cup {Nul} /\ Appel[nAppels].This \in Objets \cup {Nul}
    BY <1>1, <1>4, Lecture DEF Elements, Simples
  <2>. HIDE DEF m
  <2>3. p \in Seq(Vals)
    BY <1>1, <1>2, Reste
  <2>. HIDE DEF p
  <2>. QED BY <2>1, <2>2, <2>3, SainAppel
<1>. QED BY <1>3, <1>4 DEF GotoMulti

\* I_RETOUR and Exception take calls away.
LEMMA SainRegoto ==
  ASSUME Sain(Etat, BasenParams), Regoto
  PROVE  Marques(Etat') /\ SansThis(Etat')
<1>. DEFINE s == Etat
            t == Retour(s)
            b == BasenParams
<1>1. nAppels > 0 /\ (Pile = <<>> \/ Last(Pile) \in Simples) /\ Devenir(t)
  BY DEF Regoto
<1>2. Bon(s, b) /\ s.n > 0 /\ (s.Pile = <<>> \/ Last(s.Pile) \in Simples)
  BY <1>1, SainDe, Lecture DEF Inv
<1>. HIDE DEF s
<1>3. Bon(t, b) /\ Rendu(s, t)
  BY <1>2, Revenir, RetourFait
<1>. HIDE DEF t
<1>4. Marques(t) /\ SansThis(t)
  BY <1>3, RetourSain DEF s
<1>5. Etat' = t
  BY <1>1, <1>3, EtatDevenu
<1>. QED BY <1>4, <1>5

\* A new interpreter has no call in progress.
LEMMA SainSansAppel ==
  ASSUME NEW s, s.n = 0, s.Appel = [a \in 0 .. NMAXAPPELS |-> AppelVide]
  PROVE  Marques(s) /\ SansThis(s)
<1>1. Marques(s)
  BY DEF Marques
<1>2. SansThis(s)
  <2>1. \A a \in 0 .. NMAXAPPELS : s.Appel[a].This = Nul
    BY DEF AppelVide
  <2>. QED BY <2>1 DEF SansThis
<1>. QED BY <1>1, <1>2

\* Sain is inductive.
LEMMA SainPreserve == Sain(Etat, BasenParams) /\ [Next]_vars => Sain(Etat, BasenParams)'
<1>. SUFFICES ASSUME Sain(Etat, BasenParams), [Next]_vars PROVE Marques(Etat') /\ SansThis(Etat')
  BY SainDe, InvPreserve
<1>1. CASE UNCHANGED vars \/ Termine
  <2>1. UNCHANGED <<PileF, appels>>
    BY <1>1 DEF Termine, vars, appels
  <2>. QED BY <2>1, SainCalcul
<1>2. CASE Constante \/ DebutLigne \/ VariableLoc \/ ValeurVarLoc \/ ParamRef \/ ParamVal
  <2>1. UNCHANGED <<PileF, appels>>
    BY <1>2 DEF Constante, DebutLigne, VariableLoc, ValeurVarLoc, ParamRef, ParamVal, memoire
  <2>. QED BY <2>1, SainCalcul
<1>3. CASE NouvelleTache
  <2>1. Etat'.n = 0 /\ Etat'.Appel = [a \in 0 .. NMAXAPPELS |-> AppelVide]
    BY <1>3 DEF NouvelleTache, Etat
  <2>. QED BY <2>1, SainSansAppel
<1>4. CASE Exception
  BY <1>4, ExceptionFaite
<1>5. CASE EnErreur \/ Definir \/ Exec \/ ExecThis \/ GotoMulti \/ Regoto
  BY <1>5, SainEnErreur, SainDefinir, SainExec, SainGotoMulti, SainRegoto
<1>. QED BY <1>1, <1>2, <1>3, <1>4, <1>5 DEF Next

-----------------------------------------------------------------------------
(* Appels implements Cadres. *)

\* Every instruction is a step of Cadres; when the interpreter has ended
\* nothing changes.
LEMMA EtapeAbstraite ==
  ASSUME Sain(Etat, BasenParams), [Next]_vars
  PROVE  [AbsCadres!Next]_CadresAbs
<1>1. Inv /\ SansThis(Etat)
  BY SainDe
<1>2. CASE UNCHANGED vars \/ Termine
  <2>1. UNCHANGED vars
    BY <1>2 DEF Termine
  <2>2. Etat' = Etat /\ BasenParams' = BasenParams
    BY <2>1 DEF vars, Etat
  <2>3. CadresAbs' = CadresAbs
    BY <2>2, Image
  <2>. QED BY <2>3
<1>3. CASE Constante \/ DebutLigne \/ EnErreur \/ VariableLoc \/ ValeurVarLoc \/ ParamRef \/ ParamVal \/ Definir
  BY <1>1, <1>3, ConstanteAbstraite, LigneAbstraite, GererAbstrait, VariableLocAbstraite, ValeurVarLocAbstraite,
     ParamRefAbstraite, ParamValAbstraite, DefinirAbstrait DEF AbsCadres!Next
<1>4. CASE Exec \/ ExecThis \/ GotoMulti \/ Regoto \/ Exception \/ NouvelleTache
  BY <1>1, <1>4, ExecAbstrait, ExecThisAbstrait, GotoMultiAbstrait, RegotoAbstrait, ExceptionAbstraite,
     NouvelleTacheAbstraite DEF AbsCadres!Next
<1>. QED BY <1>2, <1>3, <1>4 DEF Next

\* An interpreter in the collector's memory starts with one frame, without
\* variables.
LEMMA DepartAbstrait == Restes = {Nul} /\ Init => Sain(Etat, BasenParams) /\ AbsCadres!Init
<1>. SUFFICES ASSUME Restes = {Nul}, Init PROVE Sain(Etat, BasenParams) /\ AbsCadres!Init
  OBVIOUS
<1>. DEFINE b == BasenParams
            c == UnCadre(<<>>, <<>>, Vides, Nul, Nul, Ins)
<1>1. Inv
  BY AuDepart
<1>2. /\ Etat.n = 0 /\ Etat.Appel = [a \in 0 .. NMAXAPPELS |-> AppelVide] /\ Etat.l = 0 /\ Etat.Pile = <<>>
      /\ Etat.This = Nul /\ Etat.Ins = Ins /\ Ins \in Lieux /\ b = 0
      /\ Etat.Appel[0].EnErreur = Nul
  <2>1. /\ Etat.n = 0 /\ Etat.Appel = [a \in 0 .. NMAXAPPELS |-> AppelVide] /\ Etat.l = 0 /\ Etat.Pile = <<>>
        /\ Etat.This = Nul /\ Etat.Ins = Ins /\ Ins \in Lieux /\ b = 0
    <3>1. PICK garde \in [0 .. NMAXAPPELS -> {Nul}] :
            Appel = [a \in 0 .. NMAXAPPELS |-> [AppelVide EXCEPT !.This = garde[a]]]
      BY DEF Init
    <3>2. \A a \in 0 .. NMAXAPPELS : [AppelVide EXCEPT !.This = garde[a]] = AppelVide
      BY DEF AppelVide
    <3>. QED BY <3>1, <3>2 DEF Init, Etat
  <2>2. 0 \in 0 .. NMAXAPPELS
    BY AppelsAssumption
  <2>. QED BY <2>1, <2>2 DEF AppelVide
<1>3. Sain(Etat, b)
  BY <1>1, <1>2, SainSansAppel DEF Sain, Inv
<1>. HIDE DEF Etat
<1>4. D(Etat, 0) = 0 /\ V(Etat, 0, b) = 0 /\ F(Etat, 0) = 0
  BY <1>2 DEF D, V, F
<1>5. ParamsEn(Etat, b, 0) = <<>>
  <2>1. ParamsEn(Etat, b, 0) = [i \in 1 .. 0 |-> Etat.PileF[0 + i - 1]]
    BY <1>4 DEF ParamsEn
  <2>. QED BY <2>1
<1>6. LocalesEn(Etat, b, 0) = Vides
  <2>1. \A n \in Locales : ~ (0 + n < 0)
    BY AppelsAssumption
  <2>. QED BY <1>4, <2>1 DEF LocalesEn, Vides
<1>7. CadreEn(Etat, b, 0) = c
  <2>1. Etat.n \in Nat
    BY <1>2
  <2>2. CadreEn(Etat, b, Etat.n)
        = UnCadre(VueDe(Etat, b, Etat.n, Etat.Pile), ParamsEn(Etat, b, Etat.n), LocalesEn(Etat, b, Etat.n),
                  Etat.Appel[Etat.n].EnErreur, Etat.This, Etat.Ins)
    BY <2>1, Actuel
  <2>3. VueDe(Etat, b, 0, <<>>) = <<>>
    <3>1. <<>> \in Seq(Simples)
      OBVIOUS
    <3>. QED BY <3>1, VuesSimples
  <2>. QED BY <1>2, <1>5, <1>6, <2>2, <2>3
<1>8. CadresAbs = <<c>>
  BY <1>2, <1>7, Seul, Image
<1>9. c = AbsCadres!CadreDe(<<>>, Nul, Ins)
  BY Neuf
<1>10. AbsCadres!Init
  BY <1>2, <1>8, <1>9 DEF AbsCadres!Init
<1>. QED BY <1>3, <1>10

\* Whatever is called, left, unwound or started, for any numbers of calls,
\* variables and cells: a function sees its own variables, expression, handler
\* and this, and its callers find theirs as they left them.  The memory of the
\* interpreter must start with no This in Appel.
THEOREM Raffinement == Restes = {Nul} => (Spec => AbsSpec)
<1>. SUFFICES ASSUME Restes = {Nul} PROVE Spec => AbsSpec
  OBVIOUS
<1>1. Init => Sain(Etat, BasenParams) /\ AbsCadres!Init
  BY DepartAbstrait
<1>2. Sain(Etat, BasenParams) /\ [Next]_vars => Sain(Etat, BasenParams)' /\ [AbsCadres!Next]_CadresAbs
  BY SainPreserve, EtapeAbstraite
<1>. QED BY <1>1, <1>2, PTL DEF Spec, AbsSpec, AbsCadres!Spec
================================================================================
