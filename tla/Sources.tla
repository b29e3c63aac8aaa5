------------------------------- MODULE Sources -------------------------------
(***************************************************************************)
(* Programs as their author means them: expressions and statements as      *)
(* trees, the text (a sequence of words) written for them, and what they   *)
(* do, from doc/src/grammaire.txt, operateurs.txt and motsclefs.txt.       *)
(* A program reads a variable whose values come from outside ("lu" is the  *)
(* list of those it has read) and shows numbers.                           *)
(***************************************************************************)
EXTENDS Integers, Sequences, FiniteSets, SequencesExt

CONSTANT Elements          \* the flock that PouCharque goes through

M(m) == [m |-> m, v |-> 0]
MV(m, v) == [m |-> m, v |-> v]
FinLigne == << M("\n") >>
Barre == << M("/") >>

(***************************************************************************)
(* Expressions.                                                            *)
(***************************************************************************)

Ent(n) == [o |-> "ent", v |-> n]
Lire == [o |-> "lire"]
Z == [o |-> "z"]
Non(a) == [o |-> "non", a |-> a]
Op(o, a, b) == [o |-> o, a |-> a, b |-> b, ecrit |-> "entre"]
Devant(o, a, b) == [o |-> o, a |-> a, b |-> b, ecrit |-> "devant"]
Derriere(o, a, b) == [o |-> o, a |-> a, b |-> b, ecrit |-> "derriere"]

Priorite(e) ==
    CASE e.o \in { "ent", "lire", "z" } -> 1 [] e.o = "non" -> 4 [] e.o = "+" -> 5
      [] e.o = "MULTIPLICATION" -> 8 [] e.o = "eg" -> 14 [] e.o = "ou" -> 16 [] e.o = "et" -> 17

RECURSIVE Mots(_)
Mots(e) ==
    LET Seul(x, nu) == IF nu THEN Mots(x) ELSE << M("}") >> \o Mots(x) \o << M("{") >>
        g == Seul(e.a, Priorite(e.a) <= Priorite(e))
        d == Seul(e.b, Priorite(e.b) < Priorite(e))
    IN  CASE e.o = "ent" -> << MV("ent", e.v) >>
          [] e.o \in { "lire", "z" } -> << M(e.o) >>
          [] e.o = "non" -> << M("non") >> \o Seul(e.a, Priorite(e.a) = 1)
          [] e.ecrit = "entre" -> g \o << M(e.o) >> \o d
          [] e.ecrit = "devant" -> << M(e.o) >> \o Seul(e.a, Priorite(e.a) = 1) \o Seul(e.b, Priorite(e.b) = 1)
          [] e.ecrit = "derriere" -> Seul(e.a, Priorite(e.a) = 1) \o Seul(e.b, Priorite(e.b) = 1) \o << M(e.o) >>

(***************************************************************************)
(* Statements.  "ligne" is the layout on one line.                         *)
(***************************************************************************)

Montre(e) == [s |-> "montre", es |-> << e >>, mots |-> << >>]
MontreEcrit(es, mots) == [s |-> "montre", es |-> es, mots |-> mots]
Dit(n) == Montre(Ent(n))
Si(e, c, ligne) == [s |-> "si", e |-> e, c |-> c, ligne |-> ligne]
SiSinon(e, c, d, ligne) == [s |-> "sinon", e |-> e, c |-> c, d |-> d, ligne |-> ligne]
TantQue(e, c, ligne) == [s |-> "tantque", e |-> e, c |-> c, ligne |-> ligne]
Costaud(i, e, p, c, ligne) == [s |-> "costaud", i |-> i, e |-> e, p |-> p, c |-> c, ligne |-> ligne]
PouCharque(c, ligne) == [s |-> "parcours", c |-> c, ligne |-> ligne]
Multiple(e, cas) == [s |-> "multiple", e |-> e, cas |-> cas]
DEFAUT == -1
Bloc(c) == [s |-> "bloc", c |-> c]
Arret == [s |-> "arret"]
Continue == [s |-> "continue"]
Regoto == [s |-> "REGOTO"]
Appel(f) == [s |-> "appel", f |-> f]

Parenthese(e) == << M("}") >> \o Mots(e) \o << M("{") >>

Affiche(x) == << M("affiche(") >> \o (IF x.mots = << >> THEN Mots(x.es[1]) ELSE x.mots) \o << M(")") >>

RECURSIVE Lignes(_), Texte(_)
Texte(x) ==
    LET Corps(c, fin) == IF x.ligne THEN Barre \o Lignes(c)
                                    ELSE FinLigne \o Lignes(c) \o << M(fin) >> \o FinLigne
        Cas(k) == (IF x.cas[k][1] = DEFAUT THEN << M("?défaut?") >>
                   ELSE << M("?"), MV("ent", x.cas[k][1]), M("?") >>)
                  \o FinLigne \o Lignes(x.cas[k][2])
    IN  CASE x.s = "montre" -> Affiche(x) \o FinLigne
          [] x.s = "si" -> << M("AUTOGOTOZ") >> \o Parenthese(x.e) \o Corps(x.c, "AC")
          [] x.s = "sinon" -> << M("AUTOGOTOZ") >> \o Parenthese(x.e) \o Corps(x.c, "AC")
                              \o << M("ACAC") >> \o Corps(x.d, "AC")
          [] x.s = "tantque" -> << M("TantQue") >> \o Parenthese(x.e) \o Corps(x.c, "FinTantQue")
          [] x.s = "costaud" -> << M("costaud") >> \o Affiche(x.i) \o Barre \o Mots(x.e)
                                \o Barre \o Affiche(x.p) \o Corps(x.c, "faiblard")
          [] x.s = "parcours" -> << M("PouCharque"), M("troupeau") >> \o Corps(x.c, "FinTantQue")
          [] x.s = "multiple" -> << M("GOTOMULTIPLE") >> \o Parenthese(x.e) \o FinLigne
                                 \o FlattenSeq([k \in DOMAIN x.cas |-> Cas(k)])
                                 \o << M("FINGOTOMULTIPLE") >> \o FinLigne
          [] x.s = "bloc" -> << M("BLOC") >> \o FinLigne \o Lignes(x.c) \o << M("FINBLOC") >> \o FinLigne
          [] x.s \in { "arret", "continue", "REGOTO" } -> << M(x.s) >> \o FinLigne
          [] x.s = "appel" -> << MV("appel(", x.f), M(")") >> \o FinLigne

Lignes(c) == FlattenSeq([k \in DOMAIN c |-> Texte(c[k])])

(* A program: what it does, and the functions it may call.                 *)
Fonction(f, c) == << MV("§", f) >> \o FinLigne \o Lignes(c) \o << M("APLUS") >> \o FinLigne

TexteDe(p) ==
    Lignes(p.corps) \o << M("GOTOFIN") >> \o FinLigne
    \o FlattenSeq([f \in DOMAIN p.fonctions |-> Fonction(f, p.fonctions[f])])

(***************************************************************************)
(* What it means.  r: the values left to read, t: what was shown, sig: how *)
(* the statement ended ("epuise": a value was needed and none is left).    *)
(***************************************************************************)

Etat(r, t) == [r |-> r, t |-> t, sig |-> "suite"]

Nombre(b) == IF b THEN 1 ELSE 0

(* The value of an expression, and the values left to read; z is the       *)
(* element of the flock.  "et" and "ou" look at their right side only if   *)
(* the left one does not decide.                                           *)
RECURSIVE Vaut(_, _, _)
Vaut(e, r, z) ==
    LET a == Vaut(e.a, r, z)
        b == Vaut(e.b, a.r, z)
        OK(v, reste) == [v |-> v, r |-> reste, ok |-> TRUE]
        Deux(v) == IF a.ok /\ b.ok THEN OK(v, b.r) ELSE [v |-> 0, r |-> b.r, ok |-> FALSE]
        Droite == [b EXCEPT !.v = Nombre(@ # 0)]
    IN  CASE e.o = "ent" -> OK(e.v, r)
          [] e.o = "z" -> OK(z, r)
          [] e.o = "lire" -> IF r = << >> THEN [v |-> 0, r |-> r, ok |-> FALSE] ELSE OK(Head(r), Tail(r))
          [] e.o = "non" -> [a EXCEPT !.v = Nombre(@ = 0)]
          [] e.o = "+" -> Deux(a.v + b.v)
          [] e.o = "MULTIPLICATION" -> Deux(a.v * b.v)
          [] e.o = "eg" -> Deux(Nombre(a.v = b.v))
          [] e.o = "ou" -> IF ~a.ok THEN a ELSE IF a.v # 0 THEN OK(1, a.r) ELSE Droite
          [] e.o = "et" -> IF ~a.ok THEN a ELSE IF a.v = 0 THEN OK(0, a.r) ELSE Droite

RECURSIVE Vaudra(_, _, _)
Vaudra(es, r, z) ==
    IF es = << >> THEN [vs |-> << >>, r |-> r, ok |-> TRUE]
    ELSE LET v == Vaut(Head(es), r, z)
             w == Vaudra(Tail(es), v.r, z)
         IN  [vs |-> << v.v >> \o w.vs, r |-> w.r, ok |-> v.ok /\ w.ok]

(* f: the functions; z: the element of the flock.                          *)
RECURSIVE Fait(_, _, _, _), FaitTout(_, _, _, _), FaitTantQue(_, _, _, _), FaitParcours(_, _, _, _)

FaitTout(c, f, z, e) ==
    IF c = << >> \/ e.sig # "suite" THEN e ELSE FaitTout(Tail(c), f, z, Fait(Head(c), f, z, e))

Reprend(e, sigs) == IF e.sig \in sigs THEN [e EXCEPT !.sig = "suite"] ELSE e

(* A loop: the test, the body, the step that continue goes to.             *)
FaitTantQue(x, f, z, e) ==
    LET v == Vaut(x.e, e.r, z)
        corps == Reprend(FaitTout(x.c, f, z, [e EXCEPT !.r = v.r]), { "continue" })
        pas == IF x.s = "costaud" /\ corps.sig = "suite" THEN Fait(x.p, f, z, corps) ELSE corps
    IN  IF ~v.ok THEN [e EXCEPT !.sig = "epuise", !.r = v.r]
        ELSE IF v.v = 0 THEN [e EXCEPT !.r = v.r]
        ELSE IF pas.sig # "suite" THEN Reprend(pas, { "arret" })
        ELSE FaitTantQue(x, f, z, pas)

FaitParcours(x, f, k, e) ==
    LET corps == Reprend(FaitTout(x.c, f, Elements[k], e), { "continue" })
    IN  IF k > Len(Elements) THEN e
        ELSE IF corps.sig # "suite" THEN Reprend(corps, { "arret" })
        ELSE FaitParcours(x, f, k + 1, corps)

(* The cases from the one chosen on; each goes on into the next.           *)
Choisi(cas, v) ==
    LET de == { k \in DOMAIN cas : cas[k][1] = v }
        defaut == { k \in DOMAIN cas : cas[k][1] = DEFAUT }
        k == IF de # {} THEN Min(de) ELSE IF defaut # {} THEN Min(defaut) ELSE Len(cas) + 1
    IN  FlattenSeq([j \in 1..Len(cas) |-> IF j >= k THEN cas[j][2] ELSE << >>])

Fait(x, f, z, e) ==
    LET v == Vaut(x.e, e.r, z)
        vs == Vaudra(x.es, e.r, z)
        Selon(suite) == IF v.ok THEN suite ELSE [e EXCEPT !.sig = "epuise", !.r = v.r]
        apres == [e EXCEPT !.r = v.r]
    IN  CASE x.s = "montre" ->
                IF vs.ok THEN Etat(vs.r, Append(e.t, vs.vs)) ELSE [e EXCEPT !.sig = "epuise", !.r = vs.r]
          [] x.s = "si" -> Selon(IF v.v # 0 THEN FaitTout(x.c, f, z, apres) ELSE apres)
          [] x.s = "sinon" -> Selon(FaitTout(IF v.v # 0 THEN x.c ELSE x.d, f, z, apres))
          [] x.s = "tantque" -> FaitTantQue(x, f, z, e)
          [] x.s = "costaud" -> LET i == Fait(x.i, f, z, e)
                                IN  IF i.sig = "suite" THEN FaitTantQue(x, f, z, i) ELSE i
          [] x.s = "parcours" -> FaitParcours(x, f, 1, e)
          [] x.s = "multiple" -> Selon(Reprend(FaitTout(Choisi(x.cas, v.v), f, z, apres), { "arret" }))
          [] x.s = "bloc" -> FaitTout(x.c, f, z, e)
          [] x.s \in { "arret", "continue", "REGOTO" } -> [e EXCEPT !.sig = x.s]
          [] x.s = "appel" -> Reprend(FaitTout(f[x.f], f, z, e), { "REGOTO" })

(* What a program shows when the values it reads are "lu".                 *)
Sens(p, lu) == FaitTout(p.corps, p.fonctions, 0, Etat(lu, << >>))
=============================================================================
