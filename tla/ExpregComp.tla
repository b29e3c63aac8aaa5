----------------------------- MODULE ExpregComp -----------------------------
(***************************************************************************)
(* The compiler of regular expressions, src/src/commun/expreg.cpp: RegExp- *)
(* Comp reads the text of an expression by recursive descent and writes a  *)
(* program of ProgReg, node after node.  The first of regcomp's two        *)
(* passes, which only measures the program, is left out.                   *)
(***************************************************************************)
EXTENDS ProgReg

Chiffres == { "0", "1", "2", "3", "4", "5", "6", "7", "8", "9" }

META == { "^", "$", ".", "[", "(", ")", "|", "?", "+", "*", "\\" }

ISMULT == { "*", "+", "?" }

(***************************************************************************)
(* Programs.                                                               *)
(***************************************************************************)

RECURSIVE Chaine(_, _)
Chaine(code, p) == IF p = 0 THEN << >> ELSE << p >> \o Chaine(code, Regnext(code, p))

Pointer(code, bout, val) ==
    [code EXCEPT ![bout].next = IF code[bout].op = "BACK" THEN bout - val ELSE val - bout]

Regtail(code, p, val) == Pointer(code, Last(Chaine(code, p)), val)

Regoptail(code, p, val) == IF code[p].op = "BRANCH" THEN Regtail(code, p + 1, val) ELSE code

Reginsert(code, op, p) ==
    SubSeq(code, 1, p - 1) \o << [op |-> op, arg |-> << >>, next |-> 0] >>
                           \o SubSeq(code, p, Len(code))

(***************************************************************************)
(* The state of the descent: the text, the position in it, the number of   *)
(* the next group, the program so far; ret and flags are what the function *)
(* returns, err the message of a FAIL, which ends everything.              *)
(***************************************************************************)

Debut(exp) == [exp |-> exp, p |-> 1, npar |-> 1, code |-> << >>, ret |-> 0, flags |-> {}, err |-> ""]

Car(e) == IF e.p <= Len(e.exp) THEN e.exp[e.p] ELSE FIN

Avance(e) == [e EXCEPT !.p = @ + 1]

Echec(e, message) == [e EXCEPT !.err = message]

Regnode(e, op, arg) ==
    [e EXCEPT !.code = Append(@, [op |-> op, arg |-> arg, next |-> 0]), !.ret = Len(e.code) + 1]

Feuille(e, op, arg, flags) == [Regnode(e, op, arg) EXCEPT !.flags = flags]

LARGE == { "HASWIDTH", "SIMPLE" }

(* [..]: a range takes the character before the "-" as its first end.      *)
RECURSIVE Membres(_, _), Intervalle(_, _, _)
Membres(e, arg) ==
    IF Car(e) \in { FIN, "]" } THEN << e, arg >>
    ELSE IF Car(e) # "-" THEN Membres(Avance(e), Append(arg, Car(e)))
    ELSE Intervalle(Avance(e), arg, CodeDe(e.exp[e.p - 1]) + 1)

Intervalle(f, arg, bas) ==
    IF Car(f) \in { FIN, "]" } THEN Membres(f, Append(arg, "-"))
    ELSE IF bas > CodeDe(Car(f)) + 1 THEN << Echec(f, "invalid [] range"), arg >>
    ELSE Membres(Avance(f), arg \o SubSeq(Codes, bas, CodeDe(Car(f))))

FinClasse(lu, op) ==
    IF lu[1].err # "" THEN lu[1]
    ELSE IF Car(lu[1]) # "]" THEN Echec(lu[1], "unmatched []")
    ELSE Feuille(Avance(lu[1]), op, lu[2], LARGE)

Contenu(f) == IF Car(f) \in { "]", "-" } THEN Membres(Avance(f), << Car(f) >>) ELSE Membres(f, << >>)

Classe(e) ==
    IF Car(e) = "^" THEN FinClasse(Contenu(Avance(e)), "ANYBUT") ELSE FinClasse(Contenu(e), "ANYOF")

(* A backslash and the character after it.                                 *)
Antislash(e) ==
    LET c == Car(e)
        f == Avance(e)
    IN  CASE c = FIN -> Echec(e, "un \\ termine l'expression")
          [] c \in Chiffres \ { "0" } -> Feuille(f, "RAPPEL", CodeDe(c) - CodeDe("0"), LARGE)
          [] c = "d" -> Feuille(f, "ANYOFINT", << "0", "9" >>, LARGE)
          [] c = "D" -> Feuille(f, "ANYBUTINT", << "0", "9" >>, LARGE)
          [] c = "s" -> Feuille(f, "ANYOF", << "\t", " " >>, LARGE)
          [] c = "S" -> Feuille(f, "ANYBUT", << "\t", " " >>, LARGE)
          [] c = "w" -> Feuille(f, "ANYOFINT", << "0", "9", "a", "z", "A", "Z", "_", "_" >>, LARGE)
          [] c = "W" -> Feuille(f, "ANYBUTINT", << "0", "9", "a", "z", "A", "Z", "_", "_" >>, LARGE)
          [] c = "r" -> Feuille(f, "EXACTLY", << "\r" >>, LARGE)
          [] c = "n" -> Feuille(f, "EXACTLY", << "\n" >>, LARGE)
          [] c = "t" -> Feuille(f, "EXACTLY", << "\t" >>, LARGE)
          [] OTHER -> Feuille(f, "EXACTLY", << c >>, LARGE)

(* A run of ordinary characters, one less when a multiplier follows.       *)
Litteral(e) ==
    LET arrets == { i \in e.p..Len(e.exp) : e.exp[i] \in META }
        fin == IF arrets = {} THEN Len(e.exp) + 1 ELSE Min(arrets)
        multiple == fin <= Len(e.exp) /\ e.exp[fin] \in ISMULT
        len == IF fin - e.p > 1 /\ multiple THEN fin - e.p - 1 ELSE fin - e.p
    IN  Feuille([e EXCEPT !.p = @ + len], "EXACTLY", SubSeq(e.exp, e.p, e.p + len - 1),
                IF len = 1 THEN LARGE ELSE { "HASWIDTH" })

RECURSIVE Reg(_, _), Branches(_, _), AutreBranche(_, _, _), Morceaux(_, _, _), Attacher(_, _, _)

Regatom(e) ==
    LET c == Car(e)
        f == Avance(e)
    IN  CASE c = "^" -> Feuille(f, "BOL", << >>, {})
          [] c = "$" -> Feuille(f, "EOL", << >>, {})
          [] c = "." -> Feuille(f, "ANY", << >>, LARGE)
          [] c = "[" -> Classe(f)
          [] c = "(" -> Reg(f, TRUE)
          [] c \in ISMULT -> Echec(e, "?+* follows nothing")
          [] c = "\\" -> Antislash(f)
          [] OTHER -> Litteral(e)

(* The node chains written for x*, x+ and x?, x being at ret: "Suivi" adds *)
(* a node at the end of the chain of p, "Recule" a BACK to ret, "Boucle"   *)
(* ends the branch at ret with the last node, and that node with ret.      *)
Neuf(op) == [op |-> op, arg |-> << >>, next |-> 0]
Suivi(code, p, op) == Regtail(Append(code, Neuf(op)), p, Len(code) + 1)
Recule(code, ret) == Regtail(Append(code, Neuf("BACK")), Len(code) + 1, ret)
Boucle(code, ret) == Regoptail(Regoptail(code, ret, Len(code)), ret, ret)
Sortant(code, ret) == Regoptail(code, ret, Len(code))
OuRien(code, p, ret) == Suivi(Suivi(code, p, "BRANCH"), ret, "NOTHING")

Repetition(code, op, ret, simple) ==
    CASE op = "*" /\ simple -> Reginsert(code, "STAR", ret)
      [] op = "+" /\ simple -> Reginsert(code, "PLUS", ret)
      [] op = "*" /\ ~simple ->
            OuRien(Boucle(Append(Reginsert(code, "BRANCH", ret), Neuf("BACK")), ret), ret, ret)
      [] op = "+" /\ ~simple -> OuRien(Recule(Suivi(code, ret, "BRANCH"), ret), Len(code) + 1, ret)
      [] op = "?" -> Sortant(OuRien(Reginsert(code, "BRANCH", ret), ret, ret), ret)

(* What follows the atom a; an empty one may only be optional.             *)
Repete(a) ==
    IF a.err # "" \/ Car(a) \notin ISMULT THEN a
    ELSE IF "HASWIDTH" \notin a.flags /\ Car(a) # "?" THEN Echec(a, "*+ operand could be empty")
    ELSE IF Car(Avance(a)) \in ISMULT THEN Echec(a, "nested *?+")
    ELSE [Avance(a) EXCEPT !.code = Repetition(@, Car(a), a.ret, "SIMPLE" \in a.flags),
                           !.flags = IF Car(a) = "+" THEN { "HASWIDTH" } ELSE { "SPSTART" }]

Regpiece(e) == Repete(Regatom(e))

(* The pieces of a branch, each tied to the chain of those before it.      *)
Morceaux(e, chain, flags) ==
    IF Car(e) \in { FIN, "|", ")" }
    THEN IF chain = 0 THEN [Regnode(e, "NOTHING", << >>) EXCEPT !.flags = flags]
                      ELSE [e EXCEPT !.flags = flags]
    ELSE Attacher(Regpiece(e), chain, flags)

(* The first piece also says whether the branch starts with a repetition.  *)
Attacher(m, chain, flags) ==
    IF m.err # "" THEN m
    ELSE IF chain = 0 THEN Morceaux(m, m.ret, flags \cup (m.flags \cap { "HASWIDTH", "SPSTART" }))
    ELSE Morceaux([m EXCEPT !.code = Regtail(@, chain, m.ret)], m.ret, flags \cup (m.flags \cap { "HASWIDTH" }))

Regbranch(e) == [Morceaux(Regnode(e, "BRANCH", << >>), 0, {}) EXCEPT !.ret = Len(e.code) + 1]

\* Mutant: a choice is wide as soon as one branch is.
ReunionLarge(f, g) == f \cup g

(* The flags of a choice: wide when every branch is.                       *)
Reunion(f, g) == (f \cap g \cap { "HASWIDTH" }) \cup ((f \cup g) \cap { "SPSTART" })

Branches(e, ret) ==
    IF e.err # "" \/ Car(e) # "|" THEN e ELSE AutreBranche(Regbranch(Avance(e)), ret, e.flags)

AutreBranche(b, ret, flags) ==
    IF b.err # "" THEN b
    ELSE Branches([b EXCEPT !.code = Regtail(@, ret, b.ret), !.flags = Reunion(flags, @)], ret)

(* The CLOSE or END after the branches, to which the end of each goes.     *)
Relier(code, ret, ender) ==
    FoldLeft(LAMBDA c, br : Regoptail(c, br, ender), code, Chaine(code, ret))

Finir(e, ret) == [e EXCEPT !.code = Relier(Regtail(@, ret, e.ret), ret, e.ret), !.ret = ret]

Refermer(e, ret, paren, parno) ==
    IF e.err # "" THEN e
    ELSE IF paren /\ Car(e) = ")" THEN Avance(Finir(Regnode(e, "CLOSE", parno), ret))
    ELSE IF ~paren /\ Car(e) = FIN THEN Finir(Regnode(e, "END", 0), ret)
    ELSE Echec(e, "unmatched ()")

Commencer(une, ret, paren) ==
    IF paren /\ une.err = "" THEN [une EXCEPT !.code = Regtail(@, ret, une.ret)] ELSE une

Ouvre(e, parno) == Regnode([e EXCEPT !.npar = @ + 1], "OPEN", parno)

Reg(e, paren) ==
    LET ret == Len(e.code) + 1
    IN  IF paren /\ e.npar >= NSUBEXP THEN Echec(e, "too many ()")
        ELSE Refermer(Branches(Commencer(Regbranch(IF paren THEN Ouvre(e, e.npar) ELSE e), ret, paren), ret),
                      ret, paren, e.npar)

(***************************************************************************)
(* regcomp: the program and what lets regexec refuse a text early.  must   *)
(* is -1 (none) or the node whose literal the text must contain; 0 is what *)
(* the code computes from a null pointer, an offset out of the program.    *)
(***************************************************************************)

PlusLong(code, choisi, p) ==
    IF code[p].op = "EXACTLY" /\ (choisi = 0 \/ Len(code[p].arg) >= Len(code[choisi].arg))
    THEN p ELSE choisi

Regmust(r, unique) ==
    IF unique /\ "SPSTART" \in r.flags
    THEN FoldLeft(LAMBDA m, p : PlusLong(r.code, m, p), 0, Chaine(r.code, 2))
    ELSE -1

Programme(r, unique) ==
    IF r.err # "" THEN [err |-> r.err, code |-> << >>, start |-> FIN, anch |-> FALSE, must |-> -1]
    ELSE [err |-> "", code |-> r.code,
          start |-> IF unique /\ r.code[2].op = "EXACTLY" THEN r.code[2].arg[1] ELSE FIN,
          anch |-> unique /\ r.code[2].op = "BOL",
          must |-> Regmust(r, unique)]

(* One branch only: what follows the first BRANCH is the END.              *)
Unique(r) == r.err = "" /\ r.code[Regnext(r.code, 1)].op = "END"

Lier(r) == Programme(r, Unique(r))

Regcomp(exp) == Lier(Reg(Debut(exp), FALSE))
=============================================================================
