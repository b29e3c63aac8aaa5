---------------------------- MODULE MCCompilateur ----------------------------
(* Instances of Compilateur for TLC: expressions of up to three operators, *)
(* every statement in both layouts and in each other, and texts that are   *)
(* not programs.                                                           *)
EXTENDS Compilateur

MCElements == << 4, 6 >>
MCAucun == << >>

Lire == S!Lire
Dit(k) == << S!Dit(k) >>
Si(e, b) == << S!Si(e, b, TRUE) >>
P(corps) == [corps |-> corps, fonctions |-> << >>]
Montre(e) == P(<< S!Montre(e) >>)

Croise(s, t, f(_, _)) ==
    [k \in 1..(Len(s) * Len(t)) |-> f(s[((k - 1) \div Len(t)) + 1], t[((k - 1) % Len(t)) + 1])]

(***************************************************************************)
(* Expressions.                                                            *)
(***************************************************************************)

Operateurs == << "+", "MULTIPLICATION", "eg", "ou", "et" >>
EntreDeux(o) == S!Op(o, Lire, Lire)

Gauches == Croise(Operateurs, Operateurs, LAMBDA o, u : S!Op(o, EntreDeux(u), Lire))
Droites == Croise(Operateurs, Operateurs, LAMBDA o, u : S!Op(o, Lire, EntreDeux(u)))
Nons == [k \in 1..5 |-> S!Op(Operateurs[k], S!Non(EntreDeux(Operateurs[6 - k])), S!Non(Lire))]
Chaines == << S!Op("et", S!Op("et", Lire, EntreDeux("ou")), Lire), S!Op("ou", S!Op("ou", EntreDeux("ou"), Lire), EntreDeux("et")),
              S!Op("eg", EntreDeux("et"), EntreDeux("ou")), S!Op("+", EntreDeux("ou"), EntreDeux("eg")) >>
Ecrites == << S!Devant("+", EntreDeux("MULTIPLICATION"), Lire), S!Derriere("+", Lire, S!Op("+", S!Ent(2), S!Ent(3))),
              S!Derriere("MULTIPLICATION", EntreDeux("+"), EntreDeux("eg")),
              S!Op("MULTIPLICATION", S!Op("+", S!Ent(2), S!Ent(3)), S!Derriere("+", Lire, S!Ent(1))) >>

(* The four forms of grammaire.txt: 3 and 5 are added in each.             *)
Melange(mots) == P(<< S!MontreEcrit(<< S!Ent(2), S!Ent(8) >>, mots) >>)
E2 == S!MV("ent", 2)
E3 == S!MV("ent", 3)
E5 == S!MV("ent", 5)
PlusMot == S!M("+")

(* A FINOUET followed by the other operator: see Compilateur_etou.cfg.     *)
Mele(e) == e.o \in { "et", "ou" } /\ e.a.o \in { "et", "ou" } \ { e.o }
(* "et" and "ou" leave one type too many, and the sum the wrong operator:  *)
(* see Compilateur_entiers.cfg.                                            *)
TypePerdu(e) == e.o \in { "+", "MULTIPLICATION" } /\ e.b.o \in { "et", "ou" }

Expressions ==
    SelectSeq(Gauches \o Droites \o Nons \o Chaines \o Ecrites, LAMBDA e : ~Mele(e) /\ ~TypePerdu(e))

(* An integer, a value and an integer; a sum whose right side is et or ou. *)
MCSommes == << Montre(S!Op("+", S!Op("+", S!Ent(2), Lire), S!Ent(1))) >>
            \o [k \in 1..2 |-> Montre(SelectSeq(Droites, TypePerdu)[k])]

MCMeles == [k \in 1..2 |-> Montre(SelectSeq(Gauches, Mele)[k])]

(***************************************************************************)
(* Statements.                                                             *)
(***************************************************************************)

Sorties == << Si(Lire, << S!Arret >>), Si(Lire, << S!Continue >>) >>
Corps == << Dit(1), Sorties[1] \o Dit(1), Sorties[2] \o Dit(1),
            << S!SiSinon(Lire, << S!Arret >>, Sorties[2], FALSE) >> \o Dit(1),
            << S!Multiple(Lire, << << 1, << S!Arret >> >>, << 0, << S!Continue >> >> >>) >> \o Dit(2),
            << S!Bloc(Sorties[1]) >> >>

Boucle(genre, b) ==
    CASE genre = "tantque" -> S!TantQue(Lire, b, FALSE)
      [] genre = "for" -> S!Costaud(S!Dit(7), Lire, S!Dit(8), b, FALSE)
      [] genre = "foreach" -> S!PouCharque(b \o << S!Montre(S!Op("+", S!Z, Lire)) >>, FALSE)
Genres == << "tantque", "for", "foreach" >>

Boucles == Croise(Genres, Corps, LAMBDA g, b : << Boucle(g, b) >> \o Dit(9))
Imbriquees ==
    Croise(Genres, Genres, LAMBDA g, h : << Boucle(g, << Boucle(h, Sorties[1]) >> \o Sorties[2] \o Dit(3)) >>)

UneLigne ==
    << << S!TantQue(Lire, Dit(1), TRUE) >> \o Dit(2),
       << S!Costaud(S!Dit(7), Lire, S!Dit(8), Sorties[2], TRUE) >> \o Dit(2),
       << S!PouCharque(<< S!Montre(S!Z) >>, TRUE) >> \o Dit(2),
       << S!TantQue(Lire, << S!SiSinon(Lire, Dit(1), << S!Arret >>, TRUE) >>, FALSE) >> \o Dit(4),
       Si(Lire, Si(Lire, Dit(1))) \o Dit(2),
       << S!SiSinon(S!Op("et", Lire, Lire), Dit(1), Dit(2), TRUE) >> \o Dit(3),
       << S!SiSinon(S!Op("ou", Lire, Lire), Si(Lire, Dit(1)), Dit(2) \o Si(Lire, Dit(3)), FALSE) >> \o Dit(4),
       << S!Si(Lire, << S!SiSinon(Lire, Dit(1), Dit(2), FALSE) >>, FALSE) >> \o Dit(3) >>

Multiples ==
    << << S!Multiple(Lire, << << 2, Dit(2) >>, << 0, Dit(3) \o << S!Arret >> >>, << S!DEFAUT, Dit(4) >> >>) >> \o Dit(5),
       << S!Multiple(Lire, << << S!DEFAUT, Dit(4) >>, << 1, Dit(2) >> >>) >> \o Dit(5),
       << S!Multiple(Lire, << << 1, << S!Multiple(Lire, << << 1, Dit(1) \o << S!Arret >> >>, << 0, Dit(2) >> >>) >>
                                    \o Dit(3) >>,
                              << 0, Dit(6) >> >>) >> >>

Fonctions == << << S!Appel(2) >> \o Si(Lire, << S!Regoto >>) \o Dit(1),
                << S!PouCharque(Sorties[1] \o << S!Montre(S!Z) >>, FALSE) >> >>
Appels == << [corps |-> << S!Appel(1), S!TantQue(Lire, << S!Appel(2) >>, FALSE) >> \o Dit(2), fonctions |-> Fonctions],
             [corps |-> << S!PouCharque(<< S!Appel(2), S!Montre(S!Z) >>, FALSE), S!Appel(1) >>, fonctions |-> Fonctions] >>

MCProgrammes ==
    [k \in DOMAIN Expressions |-> Montre(Expressions[k])]
    \o << Melange(<< PlusMot, E2, E3, E5 >>), Melange(<< E2, PlusMot, E3, E5 >>),
          Melange(<< E2, E3, PlusMot, E5 >>), Melange(<< E2, E3, E5, PlusMot >>) >>
    \o [k \in DOMAIN Boucles |-> P(Boucles[k])] \o [k \in DOMAIN Imbriquees |-> P(Imbriquees[k])]
    \o [k \in DOMAIN UneLigne |-> P(UneLigne[k])] \o [k \in DOMAIN Multiples |-> P(Multiples[k])]
    \o Appels

(***************************************************************************)
(* Texts the compiler must refuse.  Those of MCEgarants leave a loop that  *)
(* is not there, close the whole text, or have an operator that takes the  *)
(* start of the parameters of a call for its left side.                    *)
(***************************************************************************)

W(m) == << S!M(m) >>
NL == W("\n")
Test == << S!M("}"), S!M("lire"), S!M("{") >>

MCEgarants == {
    W("arret") \o NL, W("continue") \o NL, W("BLOC") \o NL \o W("continue") \o NL \o W("FINBLOC") \o NL,
    W("FINBLOC") \o NL, W("affiche(") \o << E2 >> \o W("+") \o W(")") \o NL,
    W("affiche(") \o W("et") \o W("lire") \o W(")") \o NL }

MCMalformes == <<
    W("AC") \o NL, W("ACAC") \o NL, W("faiblard") \o NL, W("APLUS") \o NL, W("FINBLOC") \o NL,
    W("AUTOGOTOZ") \o Test \o NL, W("AUTOGOTOZ") \o Test \o NL \o W("FinTantQue") \o NL,
    W("AUTOGOTOZ") \o NL \o W("AC") \o NL,
    W("AUTOGOTOZ") \o Test \o NL \o W("AC") \o NL \o W("ACAC") \o NL,
    W("TantQue") \o Test \o NL \o W("faiblard") \o NL, W("TantQue") \o Test \o NL,
    W("TantQue") \o Test \o NL \o W("lire") \o W("FinTantQue") \o NL,
    W("TantQue") \o Test \o NL \o W("FinTantQue") \o W("/") \o W("lire") \o NL,
    W("GOTOMULTIPLE") \o Test \o NL, W("FINGOTOMULTIPLE") \o NL, W("?") \o NL, W("?défaut?") \o NL,
    W("GOTOMULTIPLE") \o Test \o NL \o W("?") \o W("lire") \o W("?") \o NL \o W("FINGOTOMULTIPLE") \o NL,
    W("GOTOMULTIPLE") \o Test \o NL \o W("?") \o << E2 >> \o NL \o W("FINGOTOMULTIPLE") \o NL,
    W("GOTOMULTIPLE") \o Test \o NL \o W("lire") \o W("?") \o NL \o W("FINGOTOMULTIPLE") \o NL,
    W("GOTOMULTIPLE") \o Test \o NL \o W("?") \o W("?") \o NL \o W("FINGOTOMULTIPLE") \o NL,
    W("arret") \o NL, W("continue") \o NL,
    W("BLOC") \o NL \o W("continue") \o NL \o W("FINBLOC") \o NL,
    << S!MV("§", 1) >> \o NL \o W("arret") \o NL \o W("APLUS") \o NL,
    << S!MV("§", 1) >> \o NL \o W("APLUS") \o NL \o << S!MV("§", 1) >> \o NL \o W("APLUS") \o NL,
    << S!MV("§", 1) >> \o NL \o W("lire") \o NL,
    << S!MV("appel(", 2) >> \o W(")") \o NL,
    W("affiche(") \o W("lire") \o NL, W("lire") \o W(")") \o W("lire") \o NL, W("{") \o NL,
    W("affiche(") \o << E2 >> \o W("+") \o W(")") \o NL, W("+") \o << E2 >> \o NL,
    W("affiche(") \o W("et") \o W("lire") \o W(")") \o NL, W("lire") \o W("+") \o W("eg") \o NL,
    W("lire") \o W("eg") \o NL, W("eg") \o W("lire") \o NL >>
=============================================================================
