------------------------------ MODULE MCExpreg ------------------------------
(* Instances of Expreg for TLC: expressions built from a few pieces, and   *)
(* every text of two letters up to a length.                               *)
EXTENDS Expreg

CONSTANT MaxTexte

A == Lettre("a")
B == Lettre("b")
AC == Parmi(<< "a", "-", "c" >>, { "a", "b", "c" })
PasB == Sauf(<< "b" >>, { "b" })
AB == Suite(A, B)

Simples == { A, B, Tout, AC, PasB }
Repetes(xs) == { Etoile(x) : x \in xs } \cup { Plus(x) : x \in xs } \cup { Peut(x) : x \in xs }

(* Groups: with a choice, a repetition or an empty branch inside.          *)
Larges == { Groupe(1, Choix(A, AB)), Groupe(1, Choix(AB, A)), Groupe(1, Suite(Peut(A), B)),
            Groupe(1, Choix(A, B)), Groupe(1, Plus(Groupe(2, Choix(AB, B)))) }
Etroits == { Groupe(1, Choix(A, Rien)), Groupe(1, Etoile(Tout)), Groupe(1, Etoile(A)) }

Debuts == { AuDebut } \cup Repetes({ A, Tout }) \cup Larges \cup Etroits \cup Repetes(Larges)
          \cup { Peut(x) : x \in Etroits }
Fins == { A, B, AB, AuBout, AC, Etoile(B), Plus(Tout), Etoile(PasB) }

MCArbres ==
    { Suite(x, y) : x \in Debuts, y \in Fins }
    \cup { Suite(x, Suite(Rappel(1), y)) : x \in Larges \cup Etroits \cup Repetes(Larges), y \in { Rien, B, AuBout } }
    \cup { Choix(Suite(A, x), Suite(Peut(B), y)) : x \in { A, AuBout }, y \in Simples }
    \cup { Suite(Groupe(1, Choix(AB, A)), Suite(Peut(Groupe(2, B)), y)) : y \in { Rappel(2), AuBout, B } }

MCMalformes == { << "*", "a" >>, << "a", "*", "+" >>, << "(", "a" >>, << "a", ")" >>,
                 << "(", "a", "*", ")", "+" >>, << "[", "a" >>, << "[", "b", "-", "a", "]" >>,
                 << "a", "\\" >>, << "^", "*" >>,
                 << "(", "a", "|", ")", "*", "b" >>,
                 << "(", "a", ")", "(", "a", ")", "(", "a", ")" >> }

MCTextes == UNION { [1..n -> { "a", "b" }] : n \in 0..MaxTexte }
MCPar == << "c" >>
=============================================================================
