------------------------------- MODULE Motifs -------------------------------
(***************************************************************************)
(* What a regular expression means, independently of the program that the  *)
(* compiler of src/src/commun/expreg.cpp writes for it: expressions as     *)
(* trees, the text a user types for a tree, and for a place of a text the  *)
(* ways the tree can match there, the preferred one first.                 *)
(***************************************************************************)
EXTENDS Integers, Sequences, FiniteSets, SequencesExt

Lettre(c) == [t |-> "lettre", c |-> c]
Tout == [t |-> "tout"]
AuDebut == [t |-> "deb"]
AuBout == [t |-> "fin"]
Parmi(cs, ens) == [t |-> "parmi", cs |-> cs, ens |-> ens]
Sauf(cs, ens) == [t |-> "sauf", cs |-> cs, ens |-> ens]
Groupe(n, a) == [t |-> "groupe", n |-> n, a |-> a]
Rappel(n) == [t |-> "rappel", n |-> n]
Etoile(a) == [t |-> "etoile", a |-> a]
Plus(a) == [t |-> "plus", a |-> a]
Peut(a) == [t |-> "peut", a |-> a]
Suite(a, b) == [t |-> "suite", a |-> a, b |-> b]
Choix(a, b) == [t |-> "choix", a |-> a, b |-> b]
Rien == [t |-> "rien"]

Chiffre(n) == << "1", "2", "3", "4", "5", "6", "7", "8", "9" >>[n]

(* The text of an expression.                                              *)
RECURSIVE Ecrit(_)
Ecrit(a) ==
    CASE a.t = "lettre" -> << a.c >>
      [] a.t = "tout" -> << "." >>
      [] a.t = "deb" -> << "^" >>
      [] a.t = "fin" -> << "$" >>
      [] a.t = "parmi" -> << "[" >> \o a.cs \o << "]" >>
      [] a.t = "sauf" -> << "[", "^" >> \o a.cs \o << "]" >>
      [] a.t = "groupe" -> << "(" >> \o Ecrit(a.a) \o << ")" >>
      [] a.t = "rappel" -> << "\\", Chiffre(a.n) >>
      [] a.t = "etoile" -> Append(Ecrit(a.a), "*")
      [] a.t = "plus" -> Append(Ecrit(a.a), "+")
      [] a.t = "peut" -> Append(Ecrit(a.a), "?")
      [] a.t = "suite" -> Ecrit(a.a) \o Ecrit(a.b)
      [] a.t = "choix" -> Ecrit(a.a) \o << "|" >> \o Ecrit(a.b)
      [] a.t = "rien" -> << >>

(***************************************************************************)
(* A match under way: f is the place reached, d and e the ends of each     *)
(* group (0: not met yet).  A group keeps the first text it matched.       *)
(***************************************************************************)

Vers(x, y) == [x EXCEPT !.f = y]

Marque(ends, n, f) == IF ends[n] = 0 THEN [ends EXCEPT ![n] = f] ELSE ends

Texte(texte, de, a) == SubSeq(texte, de, a - 1)

RECURSIVE Facons(_, _, _, _)
Facons(a, texte, bol, x) ==
    LET Reste(b, xs) == FlattenSeq([k \in 1..Len(xs) |-> Facons(b, texte, bol, xs[k])])
        Un(ok) == IF x.f <= Len(texte) /\ ok THEN << Vers(x, x.f + 1) >> ELSE << >>
        Encore(xs) == Reste(Etoile(a.a), SelectSeq(xs, LAMBDA y : y.f > x.f))
        Vu == Texte(texte, x.d[a.n], x.e[a.n])
    IN  CASE a.t = "lettre" -> Un(texte[x.f] = a.c)
          [] a.t = "tout" -> Un(TRUE)
          [] a.t = "deb" -> IF x.f = bol THEN << x >> ELSE << >>
          [] a.t = "fin" -> IF x.f = Len(texte) + 1 THEN << x >> ELSE << >>
          [] a.t = "parmi" -> Un(texte[x.f] \in a.ens)
          [] a.t = "sauf" -> Un(texte[x.f] \notin a.ens)
          [] a.t = "groupe" ->
                LET dedans == Facons(a.a, texte, bol, [x EXCEPT !.d = Marque(@, a.n, x.f)])
                IN  [k \in 1..Len(dedans) |-> [dedans[k] EXCEPT !.e = Marque(@, a.n, dedans[k].f)]]
          [] a.t = "rappel" ->
                IF x.d[a.n] # 0 /\ x.e[a.n] # 0
                      /\ IsPrefix(Vu, SubSeq(texte, x.f, Len(texte)))
                THEN << Vers(x, x.f + Len(Vu)) >> ELSE << >>
          [] a.t = "etoile" -> Append(Encore(Facons(a.a, texte, bol, x)), x)
          [] a.t = "plus" -> Reste(Etoile(a.a), Facons(a.a, texte, bol, x))
          [] a.t = "peut" -> Append(Facons(a.a, texte, bol, x), x)
          [] a.t = "suite" -> Reste(a.b, Facons(a.a, texte, bol, x))
          [] a.t = "choix" -> Facons(a.a, texte, bol, x) \o Facons(a.b, texte, bol, x)
          [] a.t = "rien" -> << x >>

Vierge(n, f) == [f |-> f, d |-> [g \in 1..n |-> 0], e |-> [g \in 1..n |-> 0]]

(***************************************************************************)
(* The match a search from "bol" must find: the leftmost place where the   *)
(* expression matches and, there, the preferred way; s = 0 when there is   *)
(* none.                                                                   *)
(***************************************************************************)

Pas(n) == [s |-> 0, f |-> 0, d |-> [g \in 1..n |-> 0], e |-> [g \in 1..n |-> 0]]

Recherche(a, texte, bol, n) ==
    LET en == [s \in bol..Len(texte) + 1 |-> Facons(a, texte, bol, Vierge(n, s))]
        lieux == { s \in DOMAIN en : en[s] # << >> }
    IN  IF lieux = {} THEN Pas(n)
        ELSE LET s == Min(lieux)
                 x == Head(en[s])
             IN  [s |-> s, f |-> x.f, d |-> x.d, e |-> x.e]
=============================================================================
