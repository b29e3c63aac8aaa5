------------------------------- MODULE Expreg -------------------------------
(***************************************************************************)
(* Searching with a regular expression, from its text to the places found: *)
(* the programs that ExpregComp writes, run by Regexec, against what the   *)
(* expressions mean (Motifs).                                              *)
(***************************************************************************)
EXTENDS Motifs, ExpregComp, Regexec

CONSTANTS Arbres,         \* the expressions, as trees
          Malformes       \* texts that are no expression

Demandes == { [arbre |-> a, lu |-> Ecrit(a)] : a \in Arbres }
            \cup { [arbre |-> Rien, lu |-> m] : m \in Malformes }

(* What regexp::Creer makes of each text, for Programmes.                  *)
Compiles == [d \in Demandes |-> Regcomp(d.lu)]

Trouvaille ==
    IF phase = "trouve" THEN [s |-> s, f |-> reginput, d |-> startp, e |-> endp] ELSE Pas(NSUBEXP - 1)

(* The program that regcomp wrote, run by regmatch with its shortcuts      *)
(* (first character, anchor, literal that must appear, look-ahead of a     *)
(* repetition), finds what the expression means: the leftmost match, the   *)
(* preferred one there, and the texts of its groups.                       *)
TrouveJuste ==
    phase \in { "trouve", "absent" } =>
        Trouvaille = Recherche(motif.arbre, texte, bol, NSUBEXP - 1)

(* Of each program, whether it is what regexec expects, with the rank of a *)
(* node counted by the longest way it opens without taking a character.    *)
Hauteurs(c) ==
    FoldLeft(LAMBDA h, n : [p \in DOMAIN c |->
                               Max({ 0 } \cup { IF q \in DOMAIN c THEN h[q] + 1 ELSE 0 : q \in Immediats(c, p) })],
             [p \in DOMAIN c |-> 0], c)

Rangs(c) == LET h == Hauteurs(c) IN [p \in DOMAIN c |-> Max({ 0, Len(c) - h[p] })]

Corrects ==
    [d \in Demandes |->
        LET p == Compiles[d]
        IN  BienForme(p.code) /\ EstRang(p.code, Rangs(p.code)) /\ RaccourcisJustes(p)]

(* regcomp refuses exactly the texts that are no expression; the programs  *)
(* it writes for the others are correct.                                   *)
CompileJuste ==
    /\ phase = "erreur" <=> motif.lu \in Malformes
    /\ phase # "erreur" => Corrects[motif]

RECURSIVE Coupe(_, _, _), Substitue(_, _, _)

(* The pieces of a split: none is lost, the rest of the text is the last.  *)
Coupe(a, t, de) ==
    LET r == Recherche(a, t, de, NSUBEXP - 1)
    IN  IF r.s = 0 THEN << Texte(t, de, Len(t) + 1) >>
        ELSE << Texte(t, de, r.s) >> \o Coupe(a, t, r.f)

Substitue(a, t, de) ==
    LET r == Recherche(a, t, de, NSUBEXP - 1)
        reste == Texte(t, de, Len(t) + 1)
    IN  IF de > Len(t) \/ r.s = 0 \/ r.s = r.f THEN reste
        ELSE Texte(t, de, r.s) \o Par
             \o (IF usage = "tous" THEN Substitue(a, t, r.f) ELSE Texte(t, r.f, Len(t) + 1))

RECURSIVE RencontreVide(_, _, _)

(* A split of t meets a match that takes no character.                     *)
RencontreVide(a, t, de) ==
    LET r == Recherche(a, t, de, NSUBEXP - 1)
    IN  r.s # 0 /\ (r.s = r.f \/ RencontreVide(a, t, r.f))

(* What a search, a split or a replacement returns, against the matches of *)
(* the expression in the text.  A split that meets an empty match never    *)
(* returns; Aboutit says that all the others do.                           *)
SortieJuste ==
    phase = "fini" =>
        CASE usage = "chercher" -> sortie = << Recherche(motif.arbre, texte, 1, NSUBEXP - 1).s >>
          [] usage = "couper" -> /\ ~RencontreVide(motif.arbre, texte, 1)
                                 /\ sortie = Coupe(motif.arbre, texte, 1)
          [] Remplace -> sortie = Substitue(motif.arbre, texte, 1)

=============================================================================
