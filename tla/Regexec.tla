------------------------------ MODULE Regexec ------------------------------
(***************************************************************************)
(* Running a compiled regular expression: regexec, regtry and regmatch of  *)
(* src/src/commun/expreg.cpp, and the functions of the language that       *)
(* search, split and replace (src/interpreteur/interne/chaines.cpp).       *)
(*                                                                         *)
(* regmatch is recursive: a call that succeeds makes all those above it    *)
(* succeed, so only what a call does when the one it made fails is kept,   *)
(* as the frames of "pile".  The literal that must appear is looked for in *)
(* one step, and so is each start of the expression's first character.     *)
(***************************************************************************)
EXTENDS ProgReg

CONSTANTS Programmes,     \* what regexp::Creer made of each expression asked for
          Textes,         \* the texts searched
          Usages,         \* subset of {"chercher", "couper", "un", "tous"}
          Par,            \* what a match is replaced by
          MaxMorceaux     \* bound: pieces of a split that are kept

ASSUME TextesAssumption == Textes \subseteq Seq(STRING)

VARIABLES motif, texte, usage, phase, prog, bol, s, scan, reginput, startp, endp, pile, sortie

vars == << motif, texte, usage, phase, prog, bol, s, scan, reginput, startp, endp, pile, sortie >>
place == << scan, reginput, startp, endp, pile >>
donnees == << motif, texte, usage >>

FinTexte == Len(texte) + 1

Remplace == usage \in { "un", "tous" }

(* A FAIL of regcomp is an error of the program that asked for it;         *)
(* biRemplacer does not search an empty text.                              *)
Init ==
    /\ motif \in DOMAIN Programmes /\ texte \in Textes /\ usage \in Usages
    /\ prog = Programmes[motif]
    /\ phase = IF prog.err # "" THEN "erreur"
               ELSE IF Remplace /\ texte = << >> THEN "reste" ELSE "exec"
    /\ bol = 1 /\ s = 0 /\ scan = 0 /\ reginput = 0
    /\ startp = NULS /\ endp = NULS /\ pile = << >> /\ sortie = << >>

(***************************************************************************)
(* regexec and regtry.                                                     *)
(***************************************************************************)

Apparait(mot, de) == \E i \in de..FinTexte : Suit(mot, texte, i)

(* The next place where a match may begin, from "de"; 0: none.             *)
Depart(de) ==
    LET lieux == { i \in de..FinTexte :
                      prog.start = FIN \/ (i <= Len(texte) /\ texte[i] = prog.start) }
    IN  IF lieux = {} THEN 0 ELSE Min(lieux)

Regtry(i) ==
    /\ s' = i /\ reginput' = i /\ scan' = 1
    /\ startp' = NULS /\ endp' = NULS /\ pile' = << >>
    /\ phase' = "va"

Absent == phase' = "absent" /\ UNCHANGED << s, place >>

(* With an offset that lies outside the program, the read of the literal's *)
(* first character stops the process.                                      *)
Executer ==
    /\ phase = "exec"
    /\ \/ prog.must = 0 /\ phase' = "plante" /\ UNCHANGED << s, place >>
       \/ prog.must > 0 /\ ~Apparait(prog.code[prog.must].arg, bol) /\ Absent
       \/ /\ prog.must = -1 \/ (prog.must > 0 /\ Apparait(prog.code[prog.must].arg, bol))
          /\ LET i == IF prog.anch THEN bol ELSE Depart(bol)
             IN  IF i = 0 THEN Absent ELSE Regtry(i)
    /\ UNCHANGED << donnees, prog, bol, sortie >>

\* Mutant: the next attempt starts where the last one failed.
EssayerIci ==
    /\ phase = "echec" /\ pile = << >>
    /\ LET i == IF prog.anch THEN 0 ELSE Depart(s)
       IN  IF i = 0 THEN Absent ELSE Regtry(i)
    /\ UNCHANGED << donnees, prog, bol, sortie >>

EssayerPlusLoin ==
    /\ phase = "echec" /\ pile = << >>
    /\ LET i == IF prog.anch THEN 0 ELSE Depart(s + 1)
       IN  IF i = 0 THEN Absent ELSE Regtry(i)
    /\ UNCHANGED << donnees, prog, bol, sortie >>

(***************************************************************************)
(* regmatch, one node per step.                                            *)
(***************************************************************************)

Noeud == prog.code[scan]
Next1(p) == Regnext(prog.code, p)

Echoue == phase' = "echec" /\ UNCHANGED << scan, reginput, startp, endp, pile >>
Avancer(i) == phase' = "va" /\ scan' = Next1(scan) /\ reginput' = i

Caractere ==
    /\ Noeud.op \in Caracteres
    /\ IF Convient(Noeud, texte, reginput)
       THEN Avancer(reginput + Largeur(Noeud)) /\ UNCHANGED << startp, endp, pile >>
       ELSE Echoue

Ancre ==
    /\ Noeud.op \in { "BOL", "EOL" }
    /\ IF reginput = (IF Noeud.op = "BOL" THEN bol ELSE FinTexte)
       THEN Avancer(reginput) /\ UNCHANGED << startp, endp, pile >>
       ELSE Echoue

Vide ==
    /\ Noeud.op \in { "NOTHING", "BACK" }
    /\ Avancer(reginput) /\ UNCHANGED << startp, endp, pile >>

(* The frames: the node of the call, the place it saved and, for a         *)
(* repetition, the number it tries.                                        *)
Empiler(no) == pile' = Append(pile, [scan |-> scan, save |-> reginput, no |-> no])

(* A group that a call under way has already entered keeps its ends.       *)
Ouvrir ==
    /\ Noeud.op = "OPEN"
    /\ startp' = Noter(startp, Noeud.arg, reginput)
    /\ Empiler(0) /\ Avancer(reginput) /\ UNCHANGED endp

Fermer ==
    /\ Noeud.op = "CLOSE"
    /\ endp' = Noter(endp, Noeud.arg, reginput)
    /\ Empiler(0) /\ Avancer(reginput) /\ UNCHANGED startp

Rappeler ==
    /\ Noeud.op = "RAPPEL"
    /\ LET n == Noeud.arg
           vu == Morceau(texte, startp[n], endp[n])
       IN  IF startp[n] # 0 /\ endp[n] # 0 /\ Suit(vu, texte, reginput)
           THEN Avancer(reginput + Len(vu)) /\ UNCHANGED << startp, endp, pile >>
           ELSE Echoue

Choisir ==
    /\ Noeud.op = "BRANCH"
    /\ phase' = "va" /\ scan' = scan + 1
    /\ IF prog.code[Next1(scan)].op = "BRANCH" THEN Empiler(0) ELSE UNCHANGED pile
    /\ UNCHANGED << reginput, startp, endp >>

(* After k repetitions the rest is tried only if it can begin there.       *)
Tentable(suivant, i) ==
    prog.code[suivant].op = "EXACTLY" =>
        i <= Len(texte) /\ texte[i] = prog.code[suivant].arg[1]

(* The numbers of repetitions of the node p worth a try, from the place i. *)
Possibles(p, i, max) ==
    { k \in Minimum(prog.code[p])..max : Tentable(Next1(p), i + k) }

Repeter ==
    /\ Noeud.op \in Boucles
    /\ LET ks == Possibles(scan, reginput, Regrepeat(prog.code[scan + 1], texte, reginput))
       IN  IF ks = {} THEN Echoue
           ELSE /\ Avancer(reginput + Max(ks)) /\ Empiler(Max(ks))
                /\ UNCHANGED << startp, endp >>

Reussir ==
    /\ Noeud.op = "END"
    /\ phase' = "trouve"
    /\ UNCHANGED << scan, reginput, startp, endp, pile >>

Regmatch ==
    /\ phase = "va"
    /\ \/ Caractere \/ Ancre \/ Vide \/ Ouvrir \/ Fermer \/ Rappeler
       \/ Choisir \/ Repeter \/ Reussir
    /\ UNCHANGED << donnees, prog, bol, s, sortie >>

\* Mutant: the failed call takes back a mark it did not make.
EffaceTout(ends, g, save) == [ends EXCEPT ![g] = 0]

\* Mutant: the failed call leaves its mark.
EffaceRien(ends, g, save) == ends

(* The return of a failed call to the one that made it.                    *)
Efface(ends, g, save) == IF ends[g] = save THEN [ends EXCEPT ![g] = 0] ELSE ends

Depiler == pile' = Front(pile)

RetourGroupe(c, n) ==
    /\ n.op \in { "OPEN", "CLOSE" }
    /\ startp' = IF n.op = "OPEN" THEN Efface(startp, n.arg, c.save) ELSE startp
    /\ endp' = IF n.op = "CLOSE" THEN Efface(endp, n.arg, c.save) ELSE endp
    /\ Depiler /\ UNCHANGED << phase, scan, reginput >>

RetourChoix(c, n) ==
    /\ n.op = "BRANCH"
    /\ reginput' = c.save
    /\ LET autre == Next1(c.scan)
       IN  IF autre # 0 /\ prog.code[autre].op = "BRANCH"
           THEN /\ phase' = "va" /\ scan' = autre + 1
                /\ pile' = Append(Front(pile), [c EXCEPT !.scan = autre])
           ELSE Depiler /\ UNCHANGED << phase, scan >>
    /\ UNCHANGED << startp, endp >>

RetourRepetition(c, n) ==
    /\ n.op \in Boucles
    /\ LET ks == Possibles(c.scan, c.save, c.no - 1)
       IN  IF ks = {} THEN /\ reginput' = c.save + Minimum(n) - 1
                           /\ Depiler /\ UNCHANGED << phase, scan >>
           ELSE /\ phase' = "va" /\ scan' = Next1(c.scan) /\ reginput' = c.save + Max(ks)
                /\ pile' = Append(Front(pile), [c EXCEPT !.no = Max(ks)])
    /\ UNCHANGED << startp, endp >>

Retour ==
    /\ phase = "echec" /\ pile # << >>
    /\ LET c == Last(pile)
           n == prog.code[c.scan]
       IN  RetourGroupe(c, n) \/ RetourChoix(c, n) \/ RetourRepetition(c, n)
    /\ UNCHANGED << donnees, prog, bol, s, sortie >>

(***************************************************************************)
(* The callers of regexec: biRechercherDansChaine, biBananaSplit and       *)
(* biRemplacer.                                                            *)
(***************************************************************************)

Chercher ==
    /\ usage = "chercher" /\ phase \in { "trouve", "absent" }
    /\ sortie' = << IF phase = "trouve" THEN s ELSE 0 >>
    /\ phase' = "fini"
    /\ UNCHANGED << donnees, prog, bol, s, place >>

(* Only the pieces of an absent match end the loop: a split whose match    *)
(* has taken no character goes on from the same place.  MaxMorceaux bounds *)
(* the pieces that are kept, not the loop.                                 *)
Couper ==
    /\ usage = "couper" /\ phase \in { "trouve", "absent" }
    /\ LET morceau == Morceau(texte, bol, IF phase = "trouve" THEN s ELSE FinTexte)
       IN  sortie' = IF Len(sortie) < MaxMorceaux THEN Append(sortie, morceau) ELSE sortie
    /\ bol' = IF phase = "trouve" THEN reginput ELSE bol
    /\ phase' = IF phase = "trouve" THEN "exec" ELSE "fini"
    /\ UNCHANGED << donnees, prog, s, place >>

\* Mutant: a single replacement goes on like a global one.
RemplacerTous ==
    /\ Remplace /\ phase = "trouve" /\ s # reginput
    /\ sortie' = sortie \o Morceau(texte, bol, s) \o Par
    /\ bol' = reginput
    /\ phase' = IF reginput <= Len(texte) THEN "exec" ELSE "reste"
    /\ UNCHANGED << donnees, prog, s, place >>

Remplacer ==
    /\ Remplace /\ phase = "trouve" /\ s # reginput
    /\ sortie' = sortie \o Morceau(texte, bol, s) \o Par
    /\ bol' = reginput
    /\ phase' = IF usage = "tous" /\ reginput <= Len(texte) THEN "exec" ELSE "reste"
    /\ UNCHANGED << donnees, prog, s, place >>

RienARemplacer ==
    /\ Remplace
    /\ phase = "absent" \/ (phase = "trouve" /\ s = reginput)
    /\ phase' = "reste"
    /\ UNCHANGED << donnees, prog, bol, s, place, sortie >>

CopierReste ==
    /\ phase = "reste"
    /\ sortie' = sortie \o Morceau(texte, bol, FinTexte)
    /\ phase' = "fini"
    /\ UNCHANGED << donnees, prog, bol, s, place >>

Next ==
    \/ Executer \/ EssayerPlusLoin \/ Regmatch \/ Retour
    \/ Chercher \/ Couper \/ Remplacer \/ RienARemplacer \/ CopierReste

(* The search is a loop of one thread: it takes its next step.             *)
Spec == Init /\ [][Next]_vars /\ WF_vars(Next)

(***************************************************************************)
(* Properties.                                                             *)
(***************************************************************************)

(* In a search: a program runs, or its last step has failed or succeeded.  *)
EnCours == phase \in { "va", "echec", "trouve" }

(* Every node read is in the program, every place in the text.             *)
TypeOK ==
    /\ phase \in { "exec", "va", "echec", "trouve", "absent", "reste", "fini", "erreur", "plante" }
    /\ bol \in 1..FinTexte
    /\ phase = "va" => scan \in DOMAIN prog.code
    /\ EnCours => s \in bol..FinTexte
    /\ phase \in { "va", "trouve" } => reginput \in s..FinTexte
    /\ startp \in [Groupes -> 0..FinTexte] /\ endp \in [Groupes -> 0..FinTexte]
    /\ EnCours => \A k \in DOMAIN pile :
            pile[k].scan \in DOMAIN prog.code /\ pile[k].save \in s..FinTexte

(* A failed attempt leaves no group marked: each call takes back, on its   *)
(* failure, the mark it made and no other.                                 *)
MarquesRendues == phase = "echec" /\ pile = << >> => startp = NULS /\ endp = NULS

Choisit(c) == prog.code[c.scan].op = "BRANCH"

(* A node that can choose is never entered again at the same place by the  *)
(* calls it made: the recursion is bounded by the text.                    *)
PasDeBoucle ==
    \A j, k \in DOMAIN pile :
        j < k /\ Choisit(pile[j]) /\ Choisit(pile[k]) /\ pile[j].scan = pile[k].scan
        => pile[j].save < pile[k].save

(* What comes of an attempt at the place i, by the meaning of the program. *)
Essai(i) == Sens(prog.code, texte, bol)[Entree(i)]

(* regexec, with its stack, its marks taken back and its shortcuts (first  *)
(* character, anchor, literal that must appear, look-ahead of a            *)
(* repetition), finds what the program means: the first place where it     *)
(* matches, the preferred match there and the ends of its groups, or none  *)
(* when there is none.                                                     *)
PremierTrouve ==
    /\ phase = "trouve" =>
        /\ Essai(s) = [f |-> reginput, d |-> startp, e |-> endp]
        /\ \A i \in bol..s - 1 : Essai(i) = Rate
    /\ phase = "absent" => \A i \in bol..FinTexte : Essai(i) = Rate

(* What keeps a call from ending: a split that has matched no character    *)
(* begins again at the same place, and a must that is no place of the      *)
(* program stops the process.                                              *)
Interminable == prog.must = 0 \/ (usage = "couper" /\ phase = "trouve" /\ s = reginput)

(* A search, a split or a replacement ends, whatever the expression, but   *)
(* for a split that meets an empty match (chaines.cpp:236-245) and the     *)
(* programs without a valid must (expreg.cpp:359).                         *)
Aboutit == <>(phase \in { "fini", "erreur" } \/ Interminable)
=============================================================================
