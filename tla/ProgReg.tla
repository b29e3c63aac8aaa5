------------------------------ MODULE ProgReg ------------------------------
(***************************************************************************)
(* The programs of regular expressions, src/src/commun/expreg.cpp: what a  *)
(* node asks of the text, what makes a program one that regexec may run,   *)
(* and what a program means.                                               *)
(*                                                                         *)
(* A program is a sequence of nodes [op, arg, next].  "next" is the        *)
(* distance to the node that follows (0: none yet), backwards for a BACK;  *)
(* the operand of a BRANCH, a STAR or a PLUS is the node written after it. *)
(* A node is one element (in the code three bytes and its operand); a      *)
(* character is a one-letter string.  Places of the text are 1 .. Len + 1, *)
(* and 0 is the null pointer.                                              *)
(***************************************************************************)
EXTENDS Integers, Sequences, FiniteSets, SequencesExt

CONSTANT NSUBEXP          \* capacity of startp and endp: groups 0 .. NSUBEXP-1

ASSUME NsubexpAssumption == NSUBEXP \in 1..10

FIN == "fin"              \* the NUL that ends a C string

(* The characters in the order of their codes, for the ranges of [..].     *)
Codes == << "\t", "\n", "\r", " ", "$", "(", ")", "*", "+", "-", ".", "0", "1", "2", "3", "4",
            "5", "6", "7", "8", "9", "?", "A", "Z", "[", "\\", "]", "^", "_", "a", "b", "c", "z", "|" >>

CodeDe(c) == CHOOSE i \in 1..Len(Codes) : Codes[i] = c

Groupes == 1..NSUBEXP - 1
NULS == [g \in Groupes |-> 0]

Regnext(code, p) ==
    IF code[p].next = 0 THEN 0
    ELSE IF code[p].op = "BACK" THEN p - code[p].next ELSE p + code[p].next

(***************************************************************************)
(* What a node asks of the text t at the place i.                          *)
(***************************************************************************)

Caracteres == { "ANY", "EXACTLY", "ANYOF", "ANYBUT", "ANYOFINT", "ANYBUTINT" }
Boucles == { "STAR", "PLUS" }

DansIntervalles(arg, c) ==
    \E k \in 1..Len(arg) : k % 2 = 1 /\ CodeDe(arg[k]) <= CodeDe(c) /\ CodeDe(c) <= CodeDe(arg[k + 1])

(* Does a node that takes one character take this one?                     *)
Prend(n, c) ==
    CASE n.op = "ANY" -> TRUE
      [] n.op = "EXACTLY" -> c = n.arg[1]
      [] n.op = "ANYOF" -> Contains(n.arg, c)
      [] n.op = "ANYBUT" -> ~Contains(n.arg, c)
      [] n.op = "ANYOFINT" -> DansIntervalles(n.arg, c)
      [] n.op = "ANYBUTINT" -> ~DansIntervalles(n.arg, c)
      [] OTHER -> FALSE

Morceau(t, de, a) == SubSeq(t, de, a - 1)

Suit(mot, t, i) == IsPrefix(mot, SubSeq(t, i, Len(t)))

(* A node of one character, or of a literal.                               *)
Convient(n, t, i) ==
    IF n.op = "EXACTLY" THEN Suit(n.arg, t, i) ELSE i <= Len(t) /\ Prend(n, t[i])

Largeur(n) == IF n.op = "EXACTLY" THEN Len(n.arg) ELSE 1

(* regrepeat: how many of the characters that follow the operand takes.    *)
(* For a recalled group it counts none, whatever follows.                  *)
Regrepeat(n, t, i) ==
    Max({ k \in 0..Len(t) + 1 - i : \A j \in i..i + k - 1 : Prend(n, t[j]) })

Minimum(n) == IF n.op = "PLUS" THEN 1 ELSE 0

(***************************************************************************)
(* What a program means: regmatch as the recursive function it is, with no *)
(* stack, no mark to take back and no shortcut.  A match under way is at a *)
(* node n and a place i, with the ends d and e of each group (0: not met   *)
(* yet).  From there it may go on in several ways, the way of greatest     *)
(* number preferred: as many repetitions as the text allows, the branch    *)
(* (0) before those that follow it (-1).                                   *)
(***************************************************************************)

(* The nodes that only a repetition reads, and those that a match meets.   *)
Operandes(c) == { p \in DOMAIN c : p - 1 \in DOMAIN c /\ c[p - 1].op \in Boucles }
Noeuds(c) == DOMAIN c \ Operandes(c)

Marques(t) == [Groupes -> 0..Len(t) + 1]
Points(c, t) == [n : Noeuds(c), i : 1..Len(t) + 1, d : Marques(t), e : Marques(t)]

Entree(i) == [n |-> 1, i |-> i, d |-> NULS, e |-> NULS]

(* A group keeps the first ends it was given.                              *)
Noter(ends, g, i) == [ends EXCEPT ![g] = IF @ = 0 THEN i ELSE @]

(* Does the node of x, which offers no choice, let the match go on?  b is  *)
(* the place where the search began.                                       *)
Laisse(c, t, b, x) ==
    LET n == c[x.n]
    IN  \/ n.op \in { "NOTHING", "BACK", "OPEN", "CLOSE" }
        \/ n.op \in Caracteres /\ Convient(n, t, x.i)
        \/ n.op = "BOL" /\ x.i = b
        \/ n.op = "EOL" /\ x.i = Len(t) + 1
        \/ n.op = "RAPPEL" /\ x.d[n.arg] # 0 /\ x.e[n.arg] # 0
                           /\ Suit(Morceau(t, x.d[n.arg], x.e[n.arg]), t, x.i)

Voies(c, t, b, x) ==
    LET n == c[x.n]
    IN  IF n.op \in Boucles THEN Minimum(n)..Regrepeat(c[x.n + 1], t, x.i)
        ELSE IF n.op = "BRANCH"
        THEN { k \in { -1, 0 } : k = -1 => c[Regnext(c, x.n)].op = "BRANCH" }
        ELSE { k \in { 0 } : Laisse(c, t, b, x) }

Pris(c, t, x, k) ==
    LET n == c[x.n]
    IN  CASE n.op \in Boucles -> k
          [] n.op \in Caracteres -> Largeur(n)
          [] n.op = "RAPPEL" -> Len(Morceau(t, x.d[n.arg], x.e[n.arg]))
          [] OTHER -> 0

Voie(c, t, x, k) ==
    LET n == c[x.n]
    IN  [n |-> IF n.op = "BRANCH" /\ k = 0 THEN x.n + 1 ELSE Regnext(c, x.n),
         i |-> x.i + Pris(c, t, x, k),
         d |-> IF n.op = "OPEN" THEN Noter(x.d, n.arg, x.i) ELSE x.d,
         e |-> IF n.op = "CLOSE" THEN Noter(x.e, n.arg, x.i) ELSE x.e]

Rate == [f |-> 0, d |-> NULS, e |-> NULS]

(* What comes of x when "sens" says what comes of the points after it.     *)
Issue(c, t, b, x, sens) ==
    LET issues == [k \in Voies(c, t, b, x) |-> sens[Voie(c, t, x, k)]]
        bonnes == { k \in DOMAIN issues : issues[k] # Rate }
    IN  IF c[x.n].op = "END" THEN [f |-> x.i, d |-> x.d, e |-> x.e]
        ELSE IF bonnes = {} THEN Rate ELSE issues[Max(bonnes)]

Sens(c, t, b) ==
    LET sens[x \in Points(c, t)] == Issue(c, t, b, x, sens)
    IN  sens

(***************************************************************************)
(* What regexec and regmatch expect of a program.                          *)
(***************************************************************************)

Ops == Caracteres \cup Boucles
       \cup { "BOL", "EOL", "NOTHING", "BACK", "OPEN", "CLOSE", "RAPPEL", "BRANCH", "END" }

(* Every node leads to a node; a literal is not empty; a group has one     *)
(* beginning and one end.                                                  *)
BienForme(c) ==
    /\ DOMAIN c = 1..Len(c) /\ 1 \in Noeuds(c)
    /\ \A p \in Noeuds(c) :
        /\ c[p].op \in Ops
        /\ c[p].op # "END" => Regnext(c, p) \in Noeuds(c)
        /\ c[p].op = "BRANCH" => p + 1 \in Noeuds(c)
        /\ c[p].op \in Boucles => p + 1 \in DOMAIN c
        /\ c[p].op = "EXACTLY" => c[p].arg \in Seq(STRING) \ { << >> }
        /\ c[p].op \in { "OPEN", "CLOSE", "RAPPEL" } => c[p].arg \in Groupes
    /\ \A p, q \in Noeuds(c) :
        c[p].op \in { "OPEN", "CLOSE" } /\ c[q].op = c[p].op /\ c[q].arg = c[p].arg => p = q

(* The nodes that regmatch may go on to from p without taking a character. *)
Immediats(c, p) ==
    IF c[p].op \in Caracteres \cup { "END", "PLUS" } THEN {}
    ELSE IF c[p].op = "BRANCH" THEN { p + 1 } \cup { q \in { Regnext(c, p) } : c[q].op = "BRANCH" }
    ELSE { Regnext(c, p) }

(* No node is met again before a character is taken: the nodes have ranks  *)
(* which such a step increases.                                            *)
EstRang(c, rang) ==
    /\ rang \in [DOMAIN c -> 0..Len(c)]
    /\ \A p \in Noeuds(c) : \A q \in Immediats(c, p) : rang[p] < rang[q]

SansBoucle(c) == \E rang \in [DOMAIN c -> 0..Len(c)] : EstRang(c, rang)

(* The nodes p leads to.                                                   *)
Suivants(c, p) ==
    IF c[p].op = "END" THEN {}
    ELSE IF c[p].op = "BRANCH" THEN Immediats(c, p) ELSE { Regnext(c, p) }

(* What lets regexec refuse a place, or the text, before it runs the       *)
(* program: the first character and the anchor are those of the only       *)
(* branch, and no way to the END avoids the literal at "must".             *)
RaccourcisJustes(prog) ==
    LET c == prog.code
    IN  /\ prog.start # FIN \/ prog.anch =>
              c[1].op = "BRANCH" /\ c[Regnext(c, 1)].op # "BRANCH"
        /\ prog.start # FIN => c[2].op = "EXACTLY" /\ c[2].arg[1] = prog.start
        /\ prog.anch => c[2].op = "BOL"
        /\ prog.must > 0 =>
              /\ prog.must \in Noeuds(c) /\ c[prog.must].op = "EXACTLY"
              /\ \A p \in Noeuds(c) \cap 1..prog.must - 1 :
                    c[p].op # "END" /\ Suivants(c, p) \subseteq 1..prog.must

Correct(prog) == BienForme(prog.code) /\ SansBoucle(prog.code) /\ RaccourcisJustes(prog)
=============================================================================
