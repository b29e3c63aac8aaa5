----------------------------- MODULE Compilateur -----------------------------
(***************************************************************************)
(* The compiler of GOTO++ (src/src/compilateur/compilateur.cpp): one pass  *)
(* over the words of a text, lines put in order and written as they end,   *)
(* blocks opened and closed, jumps patched when their target is known, and *)
(* the link at the end; then the code it gives, run by the instructions of *)
(* CInterpreteur::Executer (src/src/machine/machine.cpp) it uses.          *)
(*                                                                         *)
(* A text is a sequence of words (module Sources).  Classes, arrays,       *)
(* properties, parameters and sessions after the first are left out.       *)
(***************************************************************************)
EXTENDS Lignes

CONSTANTS
    Programmes,     \* a sequence of programs: what the author means
    Malformes,      \* a sequence of texts that are not programs
    Egarants,       \* the set of those that lead the compiler out of its tables
    Valeurs,        \* the values the variable x may have when it is read
    Flottants,      \* those of them that are not integers for the machine
    MaxLectures,    \* bound: how many times x is read before the run is cut
    Elements,       \* the flock PouCharque goes through
    EtOuAvant       \* how many "et" and "ou" this compiler has met in earlier texts

S == INSTANCE Sources

NTextes == Len(Programmes) + Len(Malformes)
EstProgramme(k) == k <= Len(Programmes)
TexteDe(k) == IF EstProgramme(k) THEN S!TexteDe(Programmes[k]) ELSE Malformes[k - Len(Programmes)]

VARIABLES
    n,              \* the text, by its number
    c,              \* the Compilateur
    phase,
    ip, pile, retours, vl,      \* the machine: next instruction, CPile, calls, local variables
    lu, trace       \* what was read and what was shown

machine == << ip, pile, retours, vl, lu, trace >>
vars == << n, c, phase, machine >>

Phases == { "compile", "tourne", "fini", "coupe", "erreur", "hors" }

Ici(k) == Len(k.Ins) + 1
Erreur(k, e) == [k EXCEPT !.err = e]
Mettre(k, code, v) == [k EXCEPT !.Ins = Append(@, [code |-> code, v |-> v])]
Ajouter(k, is) == [k EXCEPT !.Instr = @ \o is]

(* Ins.ChgGotoRel: the jumps "refs" go to "but".                           *)
ChgGotoRel(k, refs, but) ==
    [k EXCEPT !.Ins = [p \in DOMAIN k.Ins |-> IF p \in Range(refs) THEN [k.Ins[p] EXCEPT !.v = but] ELSE k.Ins[p]]]

(***************************************************************************)
(* Blocks.  "taille" is the number of local variables the block sees.      *)
(***************************************************************************)

NouveauBloc(type, depart, taille) ==
    [Type |-> type, Depart |-> depart, Break |-> << >>, Continue |-> << >>, Pas |-> << >>,
     BlocLigne |-> FALSE, taille |-> taille, svarLoc |-> taille]

DebutBloc(k, type) ==
    [k EXCEPT !.Bloc = Append(@, NouveauBloc(type, Ici(k), IF type = "fonction" THEN 0 ELSE Last(k.Bloc).taille)),
              !.LigneAc = "debutbloc"]

FermeBloc(k) == [k EXCEPT !.Bloc = Front(@)]

(* Mutant: "continue" goes to the test of every loop, past the step.       *)
ContinuePartout(k, vers) ==
    ChgGotoRel(ChgGotoRel(k, Last(k.Bloc).Continue, Last(k.Bloc).Depart), Last(k.Bloc).Break, Ici(k))

(* The jumps of "continue" and "arret", when the loop is closed.           *)
PoserSorties(k, vers) == ChgGotoRel(ChgGotoRel(k, Last(k.Bloc).Continue, vers), Last(k.Bloc).Break, Ici(k))

FinBoucle(k, vers) ==
    FermeBloc(PoserSorties(Mettre(k, "GOTOR", Last(k.Bloc).Depart), vers))

(* An open "AUTOGOTOZ" goes to "but".                                      *)
PoserAuto(k, but) == [ChgGotoRel(k, << Last(k.RefEtiqA) >>, but) EXCEPT !.RefEtiqA = Front(@)]

(* What follows the ends of lines and the "/" at the start of a text.      *)
Apres(texte) ==
    LET p == SelectInSeq(texte, LAMBDA mot : mot.m \notin { "\n", "/" })
    IN  IF p = 0 THEN << >> ELSE SubSeq(texte, p, Len(texte))

FinDeLigne(texte) == texte = << >> \/ Head(texte).m \in { "\n", "/" }

(* The end of an AUTOGOTOZ: an ACAC after it opens the other branch.       *)
FinSi(k) ==
    LET suite == Apres(k.Source)
        saut == Mettre(k, "GOTOR", 0)
        sinon == [PoserAuto(saut, Ici(saut)) EXCEPT !.RefEtiqA = Append(@, Ici(k)), !.Source = Tail(suite)]
    IN  IF suite = << >> \/ Head(suite).m # "ACAC"
        THEN IF k.RefEtiqA = << >> THEN Erreur(k, "un AC sans AUTOGOTOZ") ELSE FermeBloc(PoserAuto(k, Ici(k)))
        ELSE IF k.Instr # << >> \/ ~FinDeLigne(Tail(suite)) THEN Erreur(k, "ACAC doit être seul sur la ligne")
        ELSE IF k.RefEtiqA = << >> THEN Erreur(k, HORS)
        ELSE DebutBloc(FermeBloc(sinon), "sinon")

(* The end of a PouCharque: the index goes up and the test is made again.  *)
FinParcours(k) ==
    FinBoucle([k EXCEPT !.Ins = @ \o << [code |-> "VARIABLELOC", v |-> Last(k.Bloc).svarLoc],
                                        [code |-> "ENTIER", v |-> 1], [code |-> "INCREMENTER", v |-> 0] >>],
              Ici(k))

(* Mutant: without a default, the value of no case goes nowhere.           *)
FinMultipleSansDefaut(k) ==
    FermeBloc(ChgGotoRel([k EXCEPT !.AcSwitch = Front(@)], Last(k.Bloc).Break, Ici(k)))

FinMultiple(k) ==
    LET sw == Last(k.AcSwitch)
    IN  FermeBloc(ChgGotoRel([k EXCEPT !.Switch[sw].PosDefaut = IF @ = 0 THEN Ici(k) ELSE @, !.AcSwitch = Front(@)],
                             Last(k.Bloc).Break, Ici(k)))

FinBloc(k) ==
    CASE Last(k.Bloc).Type = "rien" -> FermeBloc(k)
      [] Last(k.Bloc).Type = "classe" -> Erreur(k, HORS)
      [] Last(k.Bloc).Type = "si" -> FinSi(k)
      [] Last(k.Bloc).Type = "sinon" ->
            IF k.RefEtiqA = << >> THEN Erreur(k, "un AC sans AUTOGOTOZ") ELSE FermeBloc(PoserAuto(k, Ici(k)))
      [] Last(k.Bloc).Type = "tantque" -> FinBoucle(k, Last(k.Bloc).Depart)
      [] Last(k.Bloc).Type = "for" -> FinBoucle(CreerCodeFinal(k, Last(k.Bloc).Pas), Ici(k))
      [] Last(k.Bloc).Type = "foreach" -> FinParcours(k)
      [] Last(k.Bloc).Type = "switch" -> FinMultiple(k)
      [] Last(k.Bloc).Type = "fonction" -> FermeBloc(Ajouter(k, << AjCode("RETOUR", PRI_EXEC) >>))

(***************************************************************************)
(* Reading the text: one action per kind of word.                          *)
(***************************************************************************)

Compilateur0 ==
    [Source |-> << >>, Instr |-> << >>, Bloc |-> << NouveauBloc("classe", 1, 0) >>, LigneAc |-> "debutbloc",
     AcSwitch |-> << >>, Switch |-> << >>, RefEtiq |-> << >>, RefEtiqA |-> << >>,
     EtOu |-> [i \in 1..EtOuAvant |-> -1], Ins |-> << >>, Etiq |-> [f \in 1..2 |-> 0],
     prec |-> -1, precPos |-> 0, err |-> ""]

Init ==
    /\ n \in 1..NTextes
    /\ c = [Compilateur0 EXCEPT !.Source = TexteDe(n)]
    /\ phase = "compile"
    /\ ip = 1 /\ pile = << >> /\ retours = << >> /\ vl = << >> /\ lu = << >> /\ trace = << >>

Mot == Head(c.Source)
Avance == [c EXCEPT !.Source = Tail(@)]

Lit(mots) == phase = "compile" /\ c.Source # << >> /\ Mot.m \in mots

(* What a word leaves: an error stops the compiler.  Once it has read out  *)
(* of a table, it may stop, crash, or go on and accept the text: nothing   *)
(* is said of what comes after.                                            *)
Devient(k) ==
    \E d \in { k } :
        /\ c' = d
        /\ phase' = IF d.err = "" THEN "compile" ELSE IF d.err = HORS THEN "hors" ELSE "erreur"
        /\ UNCHANGED << n, machine >>

(* The innermost of the blocks of these types (0: none).                   *)
Dernier(types) == Max({ 0 } \cup { b \in DOMAIN c.Bloc : c.Bloc[b].Type \in types })

(* z is the element of the innermost PouCharque.                           *)
InstrDe(mot) ==
    CASE mot.m = "ent" -> << AjValeur("ENTIER", mot.v) >>
      [] mot.m = "lire" -> << AjValeur("VALEURVAR", 0) >>
      [] mot.m = "z" -> << AjValeur("VALEURVARLOC", c.Bloc[Dernier({ "foreach" })].svarLoc + 2) >>
      [] mot.m = "troupeau" -> << AjValeur("VALEURVAR", 1) >>
      [] mot.m = "}" -> << AjParO(PRI_CONSTANTE) >>
      [] mot.m \in { "{", ")" } -> << AjParF >>
      [] mot.m = "+" -> << AjCode("AJOUTER", PRI_PLUSMOINS) >>
      [] mot.m = "MULTIPLICATION" -> << AjCode("FOIS", PRI_FOIS) >>
      [] mot.m = "eg" -> << AjCode("EGAL", PRI_COMP) >>
      [] mot.m = "non" -> << AjCode("NON", PRI_NON) >>
      [] mot.m = "affiche(" -> AjAppel("FONCTIONC", "", 0)
      [] mot.m = "appel(" -> AjAppel("ETIQUETTE", "etiquette", mot.v)
      [] mot.m = "REGOTO" -> << AjCode("RETOUR", PRI_REGOTO) >>
      [] mot.m = "GOTOFIN" -> << AjCode("STOP", PRI_CONSTANTE) >>

Operation ==
    /\ Lit({ "ent", "lire", "z", "troupeau", "}", "{", ")", "+", "MULTIPLICATION", "eg", "non", "affiche(", "appel(",
             "REGOTO", "GOTOFIN" })
    /\ Devient(Ajouter(Avance, InstrDe(Mot)))

EtOu ==
    LET k == Len(c.EtOu) + 1
        Deux(code, p) == << Normale(code, p, "", k), Normale("FINOUET", p, "", k) >>
    IN  /\ Lit({ "et", "ou" })
        /\ Devient([Ajouter(Avance, IF Mot.m = "et" THEN Deux("ET", PRI_ET) ELSE Deux("OU", PRI_OU))
                        EXCEPT !.EtOu = Append(@, -1)])

Autogotoz ==
    /\ Lit({ "AUTOGOTOZ" })
    /\ Devient(DebutBloc(Ajouter(Avance, << Normale("GOTOZEROR", PRI_EXEC, "auto", 0) >>), "si"))

TantQue ==
    LET k == DebutBloc(Avance, "tantque")
    IN  /\ Lit({ "TantQue" })
        /\ Devient(Ajouter(k, << Normale("GOTOZEROR", PRI_EXEC, "break", Len(k.Bloc)) >>))

Costaud ==
    /\ Lit({ "costaud" })
    /\ Devient([DebutBloc(Avance, "for") EXCEPT !.LigneAc = "for_init"])

PouCharque ==
    LET k == DebutBloc(Avance, "foreach")
        loc == Last(k.Bloc).taille
        debut == << AjValeur("VARIABLELOC", loc), AjValeur("ENTIER", 0), AjCode("DEFINIR", PRI_CONSTANTE),
                    AjValeur("VARIABLELOC", loc + 1), AjCode("INSTANCEDE", PRI_MAX) >>
    IN  /\ Lit({ "PouCharque" })
        /\ Devient([Ajouter(k, debut) EXCEPT !.LigneAc = "foreach_init", !.Bloc[Len(k.Bloc)].taille = @ + 3])

GotoMultiple ==
    LET sw == Len(c.Switch) + 1
    IN  /\ Lit({ "GOTOMULTIPLE" })
        /\ Devient(DebutBloc([Ajouter(Avance, << Normale("SWITCH", PRI_SWITCH, "", sw) >>)
                                EXCEPT !.AcSwitch = Append(@, sw),
                                       !.Switch = Append(@, [Cas |-> << >>, PosDefaut |-> 0])], "switch"))

(* "?" opens a case, whose value is read up to the next "?".               *)
Cas ==
    /\ Lit({ "?", "?défaut?" })
    /\ c.LigneAc # "cas" /\ c.Instr = << >>
    /\ Devient(IF c.AcSwitch = << >> THEN Erreur(c, "on n'est pas dans un GOTOMULTIPLE")
               ELSE IF Mot.m = "?" THEN [Avance EXCEPT !.LigneAc = "cas"]
               ELSE [Avance EXCEPT !.Switch[Last(c.AcSwitch)].PosDefaut = Ici(c)])

Bloc ==
    /\ Lit({ "BLOC" })
    /\ Devient(DebutBloc(Avance, "rien"))

(* Mutant: the end of a block closes any.                                  *)
FermeTout(mot) == { "rien", "si", "sinon", "for", "tantque", "foreach", "switch", "fonction" }

(* The words that close a block: the blocks each may close, and whether it *)
(* must be alone on its line.                                              *)
Ferme(mot) ==
    CASE mot = "AC" -> { "si", "sinon" } [] mot = "faiblard" -> { "for" }
      [] mot = "FinTantQue" -> { "tantque", "foreach" } [] mot = "FINGOTOMULTIPLE" -> { "switch" }
      [] mot = "APLUS" -> { "fonction" }
      [] mot = "FINBLOC" -> { "classe", "rien", "si", "sinon", "for", "tantque", "foreach", "switch", "fonction" }

MalPlace(mot) ==
    \/ mot \in { "AC", "faiblard", "FinTantQue" } /\ c.Instr # << >>
    \/ mot \in { "faiblard", "FinTantQue" } /\ Tail(c.Source) # << >> /\ c.Source[2].m # "\n"

Fermeture ==
    /\ Lit({ "AC", "faiblard", "FinTantQue", "FINGOTOMULTIPLE", "APLUS", "FINBLOC" })
    /\ Devient(IF MalPlace(Mot.m) THEN Erreur(c, "doit être seul sur la ligne")
               ELSE IF Last(c.Bloc).Type \notin Ferme(Mot.m) THEN Erreur(c, "ne ferme pas ce bloc")
               ELSE FinBloc(Avance))

AcacSeul ==
    /\ Lit({ "ACAC" })
    /\ Devient(Erreur(c, "que fait ce ACAC ici ?"))

(* Without a loop around, the search of the block goes below the table.    *)
Sortie ==
    LET boucles == { "tantque", "for", "foreach" } \cup (IF Mot.m = "arret" THEN { "switch" } ELSE {})
        b == Dernier(boucles \cup { "fonction" })
        quoi == IF Mot.m = "arret" THEN "break" ELSE "continue"
    IN  /\ Lit({ "arret", "continue" })
        /\ Devient(IF b = 0 THEN Erreur(c, HORS)
                   ELSE IF c.Bloc[b].Type = "fonction" THEN Erreur(c, "interdit de sortir d'une fonction")
                   ELSE Ajouter(Avance, << Normale("GOTOR", PRI_EXEC, quoi, b) >>))

Fonction ==
    /\ Lit({ "§" })
    /\ Devient(IF c.Etiq[Mot.v] # 0 THEN Erreur(c, "la fonction a déjà été définie")
               ELSE [DebutBloc(Avance, "fonction") EXCEPT !.Etiq[Mot.v] = Ici(c)])

(***************************************************************************)
(* CompilerSeparateur: the end of a line, or of a part of it.              *)
(***************************************************************************)

(* What becomes of the instructions put in order.                          *)
LigneFaite(k, tri) ==
    LET cas == [k |-> tri[1].v, Pos |-> Ici(k)]
        vide == [k EXCEPT !.Instr = << >>]
    IN  IF k.LigneAc = "for_pas" THEN [vide EXCEPT !.Bloc[Len(k.Bloc)].Pas = tri]
        ELSE IF k.LigneAc = "cas"
        THEN IF Len(tri) # 1 THEN Erreur(k, "le cas ne se résoud pas en une constante")
             ELSE IF tri[1].code # "ENTIER" THEN Erreur(k, "le cas doit être une constante entière")
             ELSE [vide EXCEPT !.Switch[Last(k.AcSwitch)].Cas = Append(@, cas)]
        ELSE IF tri = << >> THEN vide
        ELSE CreerCodeFinal(Mettre(vide, "DEBUTLIGNE", 0), tri)

(* The test of a PouCharque and the element it takes.                      *)
TeteParcours(k) ==
    LET loc == Last(k.Bloc).svarLoc
        I(code, v) == [code |-> code, v |-> v]
        tete == << I("VALEURVARLOC", loc), I("VARIABLELOC", loc + 1), I("TAILLE", 0), I("INFERIEUR", 0),
                   I("GOTOZEROR", 0), I("VARIABLELOC", loc + 2), I("VARIABLELOC", loc + 1),
                   I("VALEURVARLOC", loc), I("TABLEAUVAL", 0), I("INSTANCEDE", 0) >>
    IN  [k EXCEPT !.Bloc[Len(k.Bloc)].Depart = Ici(k), !.Bloc[Len(k.Bloc)].Break = Append(@, Ici(k) + 4),
                  !.Ins = @ \o tete, !.LigneAc = "debutbloc"]

RECURSIVE FinsDeBlocs(_)
FinsDeBlocs(k) ==
    IF k.err = "" /\ Last(k.Bloc).BlocLigne THEN Avec(FinsDeBlocs, FinBloc(k)) ELSE k

LigneSuivante(k, barre) ==
    LET b == Len(k.Bloc)
    IN  IF barre /\ k.LigneAc = "debutbloc" THEN [k EXCEPT !.Bloc[b].BlocLigne = TRUE, !.LigneAc = "normale"]
        ELSE IF k.LigneAc = "for_init"
        THEN [Ajouter(k, << Normale("GOTOZEROR", PRI_MAX, "break", b) >>)
                EXCEPT !.LigneAc = "for_test", !.Bloc[b].Depart = Ici(k)]
        ELSE IF k.LigneAc = "for_test" THEN [k EXCEPT !.LigneAc = "for_pas"]
        ELSE IF k.LigneAc = "for_pas" THEN [k EXCEPT !.LigneAc = "normale", !.Bloc[b].BlocLigne = @ \/ barre]
        ELSE FinsDeBlocs([k EXCEPT !.LigneAc = "normale"])

Parcours(k) == IF k.LigneAc = "foreach_init" THEN TeteParcours(k) ELSE k

FinDePartie(barre, k) == IF k.err # "" THEN k ELSE LigneSuivante(Parcours(k), barre)

Separateur ==
    /\ Lit({ "\n", "/", "?" })
    /\ Mot.m = "?" => c.LigneAc = "cas"
    /\ \E ligne \in { Ordonner(c.Instr) } :
        Devient(IF c.LigneAc = "cas" /\ Mot.m # "?" THEN Erreur(c, "il manque un ? en fin de cas")
                ELSE IF ligne.err # "" THEN Erreur(c, ligne.err)
                ELSE Avec(LAMBDA k : FinDePartie(Mot.m = "/", k), LigneFaite(Avance, ligne.tri)))

(* "?" inside a line is nothing known.                                     *)
Inattendu ==
    /\ Lit({ "?", "?défaut?" }) /\ c.LigneAc # "cas" /\ c.Instr # << >>
    /\ Devient(Erreur(c, "caractère ? inattendu"))

(* The end of the text: the link.                                          *)
Lier ==
    LET k == Mettre(c, "STOP", 0)
        liees == [p \in DOMAIN k.Ins |->
                    IF p \in Range(k.RefEtiq) THEN [k.Ins[p] EXCEPT !.v = k.Etiq[@]] ELSE k.Ins[p]]
        mal == \/ c.AcSwitch # << >>
               \/ \E p \in Range(c.RefEtiq) : c.Etiq[c.Ins[p].v] = 0
               \/ Len(c.Bloc) > 1
               \/ c.RefEtiqA # << >>
    IN  /\ phase = "compile" /\ c.Source = << >>
        /\ c' = IF mal THEN Erreur(k, "édition des liens") ELSE [k EXCEPT !.Ins = liees]
        /\ phase' = IF mal THEN "erreur" ELSE "tourne"
        /\ UNCHANGED << n, machine >>

(***************************************************************************)
(* The machine: one action per group of instructions.  A value on the pile *)
(* is [t, v]: a number, a reference, a function or the start of parameters.*)
(***************************************************************************)

V(t, v) == [t |-> t, v |-> v]
Entier(v) == V("entier", v)

Ins == c.Ins[ip]
Execute(codes) == phase = "tourne" /\ ip \in DOMAIN c.Ins /\ Ins.code \in codes
Garde(k) == SubSeq(pile, 1, Len(pile) - k)
Haut(k) == pile[Len(pile) - k + 1]

(* How many values the machine takes from the pile.                        *)
Depile(code) ==
    CASE code \in { "AJOUTER", "FOIS", "AJOUTERE", "FOISE", "EGAL", "INFERIEUR", "TABLEAUVAL", "DEFINIR",
                    "INSTANCEDE", "INCREMENTER" } -> 2
      [] code \in { "NON", "OU", "ET", "FINOUET", "GOTOZEROR", "SWITCH", "EXECVAL", "TAILLE" } -> 1
      [] OTHER -> 0

Prend == Len(pile) >= Depile(Ins.code)
Laisse(r) == pile' = Garde(Depile(Ins.code)) \o r

DeuxEntiers == Haut(2).t = "entier" /\ Haut(1).t = "entier"

(* The operators of valeur look at the types; AJOUTERE and FOISE work on   *)
(* the words of memory, and what they make of a real number is no number.  *)
Nombre(v) == IF DeuxEntiers THEN Entier(v) ELSE V("flottant", v)
Mots(v) == IF DeuxEntiers THEN Entier(v) ELSE V("corrompu", 0)

Locale(a) == IF a \in DOMAIN vl THEN vl[a] ELSE Entier(0)

Calculer ==
    /\ Execute({ "ENTIER", "VALEURVARLOC", "VARIABLELOC", "DEBUTPARAM", "ETIQUETTE", "FONCTIONC", "AJOUTER", "FOIS",
                 "AJOUTERE", "FOISE", "EGAL", "INFERIEUR", "NON", "FINOUET", "TAILLE", "TABLEAUVAL" })
    /\ Prend
    /\ CASE Ins.code = "ENTIER" -> Laisse(<< Entier(Ins.v) >>)
         [] Ins.code = "VALEURVARLOC" -> Laisse(<< Locale(Ins.v) >>)
         [] Ins.code = "VARIABLELOC" -> Laisse(<< V("ref", Ins.v) >>)
         [] Ins.code = "DEBUTPARAM" -> Laisse(<< V("params", 0) >>)
         [] Ins.code \in { "ETIQUETTE", "FONCTIONC" } -> Laisse(<< V(Ins.code, Ins.v) >>)
         [] Ins.code = "AJOUTER" -> Laisse(<< Nombre(Haut(2).v + Haut(1).v) >>)
         [] Ins.code = "FOIS" -> Laisse(<< Nombre(Haut(2).v * Haut(1).v) >>)
         [] Ins.code = "AJOUTERE" -> Laisse(<< Mots(Haut(2).v + Haut(1).v) >>)
         [] Ins.code = "FOISE" -> Laisse(<< Mots(Haut(2).v * Haut(1).v) >>)
         [] Ins.code = "EGAL" -> Laisse(<< Entier(IF Haut(2).v = Haut(1).v THEN 1 ELSE 0) >>)
         [] Ins.code = "INFERIEUR" -> Laisse(<< Entier(IF Haut(2).v < Haut(1).v THEN 1 ELSE 0) >>)
         [] Ins.code = "NON" -> Laisse(<< Entier(IF Haut(1).v = 0 THEN 1 ELSE 0) >>)
         [] Ins.code = "FINOUET" -> Laisse(<< Entier(IF Haut(1).v # 0 THEN 1 ELSE 0) >>)
         [] Ins.code = "TAILLE" -> Laisse(<< Entier(Len(Locale(Haut(1).v).v)) >>)
         [] Ins.code = "TABLEAUVAL" -> Laisse(<< Entier(Locale(Haut(2).v).v[Haut(1).v + 1]) >>)
    /\ ip' = ip + 1
    /\ UNCHANGED << n, c, phase, retours, vl, lu, trace >>

(* x has any value each time it is read: other tasks write it.             *)
LireVariable ==
    /\ Execute({ "VALEURVAR" })
    /\ \/ /\ Ins.v = 1
          /\ pile' = Append(pile, V("troupeau", Elements)) /\ ip' = ip + 1
          /\ UNCHANGED << phase, lu >>
       \/ /\ Ins.v = 0 /\ Len(lu) < MaxLectures
          /\ \E v \in Valeurs : pile' = Append(pile, V(IF v \in Flottants THEN "flottant" ELSE "entier", v)) /\ lu' = Append(lu, v)
          /\ ip' = ip + 1
          /\ UNCHANGED phase
       \/ /\ Ins.v = 0 /\ Len(lu) = MaxLectures
          /\ phase' = "coupe"
          /\ UNCHANGED << pile, ip, lu >>
    /\ UNCHANGED << n, c, retours, vl, trace >>

(* DEFINIR, INSTANCEDE and INCREMENTER of a local variable.                *)
Affecter ==
    /\ Execute({ "DEFINIR", "INSTANCEDE", "INCREMENTER" })
    /\ Prend /\ Haut(2).t = "ref"
    /\ LET a == Haut(2).v
       IN  vl' = [b \in DOMAIN vl \cup { a } |->
                    IF b # a THEN vl[b]
                    ELSE IF Ins.code = "INCREMENTER" THEN Entier(Locale(a).v + Haut(1).v) ELSE Haut(1)]
    /\ pile' = Garde(2)
    /\ ip' = ip + 1
    /\ UNCHANGED << n, c, phase, retours, lu, trace >>

Ligne ==
    /\ Execute({ "DEBUTLIGNE" })
    /\ pile' = << >> /\ ip' = ip + 1
    /\ UNCHANGED << n, c, phase, retours, vl, lu, trace >>

Sauter ==
    /\ Execute({ "GOTOR", "GOTOZEROR" })
    /\ Prend
    /\ LET saute == Ins.code = "GOTOR" \/ Haut(1).v = 0
       IN  /\ pile' = IF saute THEN << >> ELSE Garde(1)
           /\ ip' = IF saute THEN Ins.v ELSE ip + 1
    /\ UNCHANGED << n, c, phase, retours, vl, lu, trace >>

(* The left side decides: its result goes back on the pile.                *)
Decider ==
    /\ Execute({ "OU", "ET" }) /\ Prend
    /\ LET decide == (Haut(1).v # 0) = (Ins.code = "OU")
       IN  /\ pile' = Garde(1) \o (IF ~decide THEN << >> ELSE IF Ins.code = "OU" THEN << Entier(1) >> ELSE << Entier(0) >>)
           /\ ip' = IF decide THEN Ins.v ELSE ip + 1
    /\ UNCHANGED << n, c, phase, retours, vl, lu, trace >>

Choisir ==
    /\ Execute({ "SWITCH" }) /\ Prend
    /\ LET sw == c.Switch[Ins.v]
           ici == { k \in DOMAIN sw.Cas : sw.Cas[k].k = Haut(1).v }
       IN  ip' \in (IF ici # {} THEN { sw.Cas[k].Pos : k \in ici } ELSE { sw.PosDefaut })
    /\ pile' = Garde(1)
    /\ UNCHANGED << n, c, phase, retours, vl, lu, trace >>

DebutParam(p) == Max({ 0 } \cup { k \in DOMAIN p : p[k].t = "params" })

(* A function of the language shows its parameters; one of the program has *)
(* its own pile and local variables until it returns.                      *)
Appeler ==
    /\ Execute({ "EXECVAL" }) /\ Prend
    /\ LET reste == Garde(1)
           d == DebutParam(reste)
           avant == SubSeq(reste, 1, d - 1)
       IN  /\ d > 0
           /\ \/ /\ Haut(1).t = "FONCTIONC"
                 /\ trace' = Append(trace, [k \in 1..(Len(reste) - d) |-> reste[d + k].v])
                 /\ pile' = avant /\ ip' = ip + 1
                 /\ UNCHANGED << retours, vl >>
              \/ /\ Haut(1).t = "ETIQUETTE"
                 /\ retours' = Append(retours, [ip |-> ip + 1, pile |-> avant, vl |-> vl])
                 /\ pile' = << >> /\ vl' = << >> /\ ip' = Haut(1).v
                 /\ UNCHANGED trace
    /\ UNCHANGED << n, c, phase, lu >>

Retour ==
    /\ Execute({ "RETOUR" }) /\ retours # << >>
    /\ LET r == Last(retours)
       IN  /\ ip' = r.ip /\ vl' = r.vl
           /\ pile' = Append(r.pile, IF pile = << >> THEN V("indef", 0) ELSE Last(pile))
    /\ retours' = Front(retours)
    /\ UNCHANGED << n, c, phase, lu, trace >>

Stop ==
    /\ Execute({ "STOP" })
    /\ phase' = "fini"
    /\ UNCHANGED << n, c, machine >>

Compile == \/ Operation \/ EtOu \/ Autogotoz \/ TantQue \/ Costaud \/ PouCharque \/ GotoMultiple
           \/ Cas \/ Bloc \/ Fermeture \/ AcacSeul \/ Sortie \/ Fonction \/ Separateur \/ Inattendu \/ Lier

Tourne == \/ Calculer \/ LireVariable \/ Affecter \/ Ligne \/ Sauter \/ Decider \/ Choisir \/ Appeler \/ Retour \/ Stop

Next == Compile \/ Tourne

(* Both the compiler and the interpreter go on by themselves.              *)
Spec == Init /\ [][Next]_vars /\ WF_vars(Next)

(***************************************************************************)
(* Properties.                                                             *)
(***************************************************************************)

(* The compiler stays within its text and its tables, and the machine has  *)
(* only positions of the code in its calls.                                *)
TypeOK ==
    /\ n \in 1..NTextes /\ phase \in Phases
    /\ c.LigneAc \in { "normale", "debutbloc", "cas", "for_init", "for_test", "for_pas", "foreach_init" }
    /\ \A p \in Range(c.RefEtiqA) \cup Range(c.RefEtiq) : p \in DOMAIN c.Ins
    /\ phase = "tourne" => ip \in DOMAIN c.Ins
    /\ \A r \in Range(retours) : r.ip \in DOMAIN c.Ins

(* What a program shows is what its text means, for every value the        *)
(* variables take: expressions in order of priority, the right side of     *)
(* "et" and "ou" only when needed, the branch taken, the turns of loops,   *)
(* where "arret", "continue" and the cases go.                             *)
SensGarde ==
    phase \in { "fini", "coupe" } =>
        LET sens == S!Sens(Programmes[n], lu)
        IN  /\ sens.t = trace
            /\ sens.sig = IF phase = "fini" THEN "suite" ELSE "epuise"
            /\ sens.r = << >>

(* Every program is accepted and no malformed text is: the compiler ends   *)
(* with an error.  The texts of Egarants are those that make it read below *)
(* the start of a table instead, with no word of what it then does.        *)
ErreursVues ==
    /\ phase \in { "tourne", "fini", "coupe" } => EstProgramme(n)
    /\ phase \in { "erreur", "hors" } => ~EstProgramme(n)
    /\ phase \in { "erreur", "hors" } => (phase = "hors" <=> TexteDe(n) \in Egarants)

(* The line that was accepted leaves on the pile, at each instruction and  *)
(* whichever way "et", "ou" and calls went, what the instruction takes: as *)
(* many values, a reference to write through, a function and its start of  *)
(* parameters to call; and every jump led into the code.                   *)
PileSuffit ==
    /\ TypeOK
    /\ phase = "tourne" =>
        /\ Prend
        /\ Ins.code \in { "DEFINIR", "INSTANCEDE", "INCREMENTER" } => Haut(2).t = "ref"
        /\ Ins.code = "EXECVAL" => Haut(1).t \in { "ETIQUETTE", "FONCTIONC" } /\ DebutParam(pile) > 0

(* optimiser.cpp:501, "On choisit le bon opérateur": the instructions that *)
(* look at no type are given integers only.                                *)
EntiersSeuls == phase = "tourne" /\ Ins.code \in { "AJOUTERE", "FOISE" } => DeuxEntiers

(* A program whose reads are bounded stops: no jump of a loop, a branch or *)
(* a case goes round for ever.                                             *)
SArrete == <>(phase \notin { "compile", "tourne" })
=============================================================================
