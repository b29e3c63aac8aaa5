-------------------------------- MODULE Lignes --------------------------------
(***************************************************************************)
(* How the compiler turns one line into code: the order of the             *)
(* instructions by priority (the loop of CompilerSeparateur, src/src/      *)
(* compilateur/compilateur.cpp), what AjouterInstruction does of each      *)
(* (optimiser.cpp), and CreerCodeFinal, which writes them, chains the      *)
(* jumps of "et" and "ou" and notes the places to patch.                   *)
(*                                                                         *)
(* An instruction of the code is one element of a sequence and a position  *)
(* is its index; a jump holds the position it goes to (the code keeps the  *)
(* distance, which comes to the same).  The types of PileType are those    *)
(* of numbers: "entier", or "valeur" when only the machine will know.      *)
(***************************************************************************)
EXTENDS Integers, Sequences, FiniteSets, SequencesExt

PRI_PAR_O == 0
PRI_CONSTANTE == 1
PRI_NON == 4
PRI_PLUSMOINS == 5
PRI_FOIS == 8
PRI_EXEC == 10
PRI_COMP == 14
PRI_OU == 16
PRI_ET == 17
PRI_DEF == 15
PRI_REGOTO == 18
PRI_SWITCH == 20
PRI_MAX == 1000
PRI_PAR_F == 1003
PRI_FIN == 1004

(* The number of the instruction I_FINOUET; a code is one byte.            *)
I_FINOUET == 58

RIEN == 0

(* F of v, with v evaluated once.                                          *)
Avec(F(_), v) == CHOOSE y \in { F(x) : x \in { v } } : TRUE

(* Instructions: "type" says what a value stands for until it is written.  *)
Normale(code, p, type, v) == [sp |-> "normale", p |-> p, code |-> code, type |-> type, v |-> v, nVal |-> 0]
Signe(sp, p) == [sp |-> sp, p |-> p, code |-> "", type |-> "", v |-> 0, nVal |-> 0]

AjCode(code, p) == Normale(code, p, "", 0)
AjValeur(code, v) == Normale(code, PRI_CONSTANTE, "", v)
AjParO(p) == Signe("parO", p)
AjParF == Signe("parF", PRI_PAR_F)

(* f( : the call moves with its function, the parameters are read first.   *)
AjAppel(code, type, f) ==
    << AjParO(PRI_EXEC), Normale(code, PRI_CONSTANTE, type, f), AjCode("EXECVAL", PRI_EXEC), AjParF,
       AjParO(PRI_PAR_O), AjCode("DEBUTPARAM", PRI_CONSTANTE) >>

(***************************************************************************)
(* AjouterInstruction: the parameters an instruction needs, what it leaves *)
(* on PileType, and the sums of two constants done at once.                *)
(***************************************************************************)

(* Mutant: a comparison asks for one operand.                              *)
NMinUnePourComparer(code) ==
    CASE code \in { "AJOUTER", "FOIS", "DEFINIR", "INSTANCEDE", "INCREMENTER" } -> 2
      [] code \in { "OU", "ET", "NON", "GOTOZEROR", "SWITCH", "EXECVAL", "TAILLE", "TABLEAUVAL", "EGAL", "INFERIEUR" } -> 1
      [] OTHER -> 0

NMinParametres(code) ==
    CASE code \in { "AJOUTER", "FOIS", "EGAL", "INFERIEUR", "DEFINIR", "INSTANCEDE", "INCREMENTER" } -> 2
      [] code \in { "OU", "ET", "NON", "GOTOZEROR", "SWITCH", "EXECVAL", "TAILLE", "TABLEAUVAL" } -> 1
      [] OTHER -> 0

Sans(ts, n) == SubSeq(ts, 1, Len(ts) - n)

(* What a sum leaves: nothing is said of the type when the right side is   *)
(* not known to be an integer.                                             *)
TypesSomme(ts) ==
    LET g == Sans(ts, 1)
    IN  IF Last(ts) # "entier" \/ Last(g) = "entier" THEN g ELSE Append(Front(g), "valeur")

(* A call takes its function and all down to the start of its parameters.  *)
Params(ts) == Max({ k \in 0..Len(ts) : k = 0 \/ ts[k] = "params" })

TypesApres(ts, code) ==
    CASE code = "ENTIER" -> Append(ts, "entier")
      [] code \in { "VALEURVAR", "VALEURVARLOC" } -> Append(ts, "valeur")
      [] code = "VARIABLELOC" -> Append(ts, "ref")
      [] code = "ETIQUETTE" -> Append(ts, "fonctionGPP")
      [] code = "FONCTIONC" -> Append(ts, "fonctionC")
      [] code = "DEBUTPARAM" -> Append(ts, "params")
      [] code \in { "AJOUTER", "FOIS" } -> TypesSomme(ts)
      [] code \in { "EGAL", "INFERIEUR" } -> Append(Sans(ts, 2), "entier")
      [] code \in { "NON", "OU", "ET", "FINOUET" } -> Append(Sans(ts, 1), "entier")
      [] code \in { "GOTOZEROR", "SWITCH" } -> Sans(ts, 1)
      [] code \in { "DEFINIR", "INSTANCEDE" } -> Sans(ts, 2)
      [] code = "RETOUR" -> IF ts = << >> THEN ts ELSE Sans(ts, 1)
      [] code = "EXECVAL" ->
            SubSeq(ts, 1, Params(ts) - 1) \o (IF Last(ts) = "fonctionGPP" THEN << "valeur" >> ELSE << >>)
      [] OTHER -> ts

Pliable(tri, code) ==
    /\ code \in { "AJOUTER", "FOIS" } /\ Len(tri) >= 2
    /\ tri[Len(tri)].code = "ENTIER" /\ tri[Len(tri) - 1].code = "ENTIER"

Plie(tri, code) ==
    LET a == tri[Len(tri) - 1].v
        b == tri[Len(tri)].v
    IN  Append(Sans(tri, 2), AjValeur("ENTIER", IF code = "AJOUTER" THEN a + b ELSE a * b))

(* Two integers have an instruction of their own, which looks at no type.  *)
ChoisirOperateur(ts, ins) ==
    IF ins.code \notin { "AJOUTER", "FOIS" } \/ Last(ts) # "entier" \/ ts[Len(ts) - 1] # "entier" THEN ins
    ELSE [ins EXCEPT !.code = IF @ = "AJOUTER" THEN "AJOUTERE" ELSE "FOISE"]

(* The types are read below the start of the table.                        *)
HORS == "lecture hors d'un tableau"

(* e is the state of the ordering of a line: t its instructions.           *)
AjouterInstruction(e, i) ==
    LET ins == e.t[i]
    IN  IF Len(e.types) < NMinParametres(ins.code) THEN [e EXCEPT !.err = "pas assez de paramètres"]
        ELSE IF ins.code = "EXECVAL" /\ Params(e.types) = 0 THEN [e EXCEPT !.err = HORS]
        ELSE [e EXCEPT !.tri = IF Pliable(@, ins.code) THEN Plie(@, ins.code)
                               ELSE Append(@, ChoisirOperateur(e.types, ins)),
                       !.types = TypesApres(@, ins.code)]

(***************************************************************************)
(* The order of a line.  ac is the instruction looked at, suiv the one     *)
(* after it, pos where reading is; an instruction of lower priority than   *)
(* the next waits on the pile.                                             *)
(***************************************************************************)

(* The number of instructions to skip for each opening parenthesis.        *)
Profondeur(t, i, k) ==
    Cardinality({ l \in i..k : t[l].sp = "parO" }) - Cardinality({ l \in i..k : t[l].sp = "parF" })

Fermante(t, i) == { k \in i..Len(t) : Profondeur(t, i, k) = 0 }

Mesure(t) ==
    [i \in DOMAIN t |-> IF t[i].sp = "parO" THEN [t[i] EXCEPT !.nVal = Min(Fermante(t, i)) - i] ELSE t[i]]

NonFermee(t) == \E i \in DOMAIN t : t[i].sp = "parO" /\ Fermante(t, i) = {}
TropFermee(t) == \E k \in DOMAIN t : Profondeur(t, 1, k) < 0

RECURSIVE Passe(_, _)
Passe(t, pos) == IF t[pos].sp \in { "parOM", "deja" } THEN Passe(t, pos + t[pos].nVal + 1) ELSE pos

Depiler(e) ==
    IF e.ac # RIEN THEN e
    ELSE IF /\ e.pile # << >>
            /\ \/ e.t[Last(e.pile)].sp # "parOM"
               \/ e.suiv # RIEN /\ e.t[e.suiv].sp = "parF"
    THEN [e EXCEPT !.ac = Last(e.pile), !.pile = Front(@)]
    ELSE [e EXCEPT !.ac = e.suiv, !.suiv = RIEN]

Suivre(e) ==
    LET pos == Passe(e.t, e.pos + 1 + (IF e.t[e.pos].sp = "parO" THEN e.t[e.pos].nVal ELSE 0))
    IN  IF e.suiv # RIEN THEN e ELSE [e EXCEPT !.pos = pos, !.suiv = pos]

Placer(e) ==
    LET i == e.t[e.ac]
        j == e.t[e.suiv]
    IN  IF e.ac = RIEN THEN e
        ELSE IF i.sp = "parOM" /\ j.sp = "parF" THEN [e EXCEPT !.ac = RIEN, !.suiv = RIEN]
        ELSE IF i.p > j.p THEN [e EXCEPT !.pile = Append(@, e.ac), !.ac = e.suiv, !.suiv = RIEN]
        ELSE IF i.sp = "parO"
        THEN [e EXCEPT !.t[e.ac].sp = "parOM", !.pile = Append(@, e.ac),
                       !.ac = e.ac + 1, !.pos = e.ac + 1, !.suiv = RIEN]
        ELSE [AjouterInstruction(e, e.ac) EXCEPT !.t[e.ac].sp = "deja", !.ac = RIEN]

Tour(e) == Avec(Placer, Avec(Suivre, Depiler(e)))

RECURSIVE Tours(_)
Tours(e) ==
    IF e.err # "" \/ (e.suiv = Len(e.t) /\ e.pile = << >>) THEN e ELSE Avec(Tours, Tour(e))

(* What a line gives: its instructions in order, or an error.              *)
Ordonner(instr) ==
    LET depart == [t |-> Append(Mesure(instr), Signe("fin", PRI_FIN)), ac |-> 1, suiv |-> RIEN, pos |-> 1,
                   pile |-> << >>, tri |-> << >>, types |-> << >>, err |-> ""]
        rien == [tri |-> << >>, err |-> ""]
        fini == IF Len(instr) = 1 THEN AjouterInstruction([depart EXCEPT !.t = instr], 1) ELSE Tours(depart)
    IN  IF instr = << >> THEN rien
        ELSE IF Len(instr) = 1 /\ instr[1].sp # "normale"
        THEN [rien EXCEPT !.err = "c'est quoi ce machin tout seul sur la ligne ?"]
        ELSE IF NonFermee(instr) THEN [rien EXCEPT !.err = "une parenthèse n'est pas refermée"]
        ELSE IF TropFermee(instr)
        THEN [rien EXCEPT !.err = "une parenthèse est refermée sans avoir été ouverte"]
        ELSE [tri |-> fini.tri, err |-> fini.err]

(***************************************************************************)
(* CreerCodeFinal.  c is the compiler: Ins the code, EtOu the position of  *)
(* each "et" and "ou", prec the code just written as far as the chaining   *)
(* of "et" and "ou" looks at it.                                           *)
(***************************************************************************)

Corrompu == -1

(* The operands of the chain that ends with "ou" are given their target.   *)
RECURSIVE Enchainer(_, _, _, _)
Enchainer(ins, etou, ou, but) ==
    LET nouv == ins[etou[ou]].v
        fait == [ins EXCEPT ![etou[ou]].v = but]
    IN  IF nouv = ou THEN fait ELSE Enchainer(fait, etou, nouv, but)

(* FinOu takes the operand off the last instruction: a FINOUET has none in *)
(* the end, any other is left without its own.                             *)
FinOu(c) ==
    LET n == Len(c.Ins)
        chaine == Enchainer(c.Ins, c.EtOu, c.Ins[n].v, n + 1)
    IN  [c EXCEPT !.Ins = IF chaine[n].code = "FINOUET" THEN chaine ELSE [chaine EXCEPT ![n].v = Corrompu]]

EstEtOu(ins) == ins.code \in { "ET", "OU" }

(* The places to patch, by what the value stands for.                      *)
Noter(c, ins) ==
    LET ici == Len(c.Ins) + 1
    IN  CASE ins.type = "etiquette" -> [c EXCEPT !.RefEtiq = Append(@, ici)]
          [] ins.type = "auto" -> [c EXCEPT !.RefEtiqA = Append(@, ici)]
          [] ins.type = "continue" -> [c EXCEPT !.Bloc[ins.v].Continue = Append(@, ici)]
          [] ins.type = "break" -> [c EXCEPT !.Bloc[ins.v].Break = Append(@, ici)]
          [] OTHER -> c

Ecrire(c, ins) == [Noter(c, ins) EXCEPT !.Ins = Append(@, [code |-> ins.code, v |-> ins.v])]

EcrireInstr(c, ins) ==
    LET suit == c.prec = I_FINOUET
        fini == IF suit THEN FinOu(c) ELSE c
        place == IF EstEtOu(ins) /\ ~suit THEN [fini EXCEPT !.EtOu[ins.v] = Len(fini.Ins) + 1] ELSE fini
    IN  IF suit /\ EstEtOu(ins)
        THEN [c EXCEPT !.EtOu[ins.v] = c.precPos, !.Ins[c.precPos].code = ins.code,
                       !.prec = (ins.v - 1) % 256]
        ELSE [Ecrire(place, ins) EXCEPT !.prec = IF ins.code = "FINOUET" THEN I_FINOUET ELSE -1,
                                        !.precPos = Len(fini.Ins) + 1]

RECURSIVE EcrireTout(_, _)
EcrireTout(c, tri) ==
    IF tri = << >> THEN c ELSE Avec(LAMBDA k : EcrireTout(k, Tail(tri)), EcrireInstr(c, Head(tri)))

CreerCodeFinal(c, tri) ==
    Avec(LAMBDA k : IF k.prec = I_FINOUET THEN FinOu(k) ELSE k, EcrireTout([c EXCEPT !.prec = -1], tri))
=============================================================================
