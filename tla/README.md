# Verification of the GOTO++ interpreter

GOTO++ is a language, a compiler to byte code and a virtual machine written in
C++.  A script can start *univers parallèles* (threads), wait for them
(*BigCrunch*), call functions, catch errors (*GOTOerreur*), search texts with
regular expressions, load modules written in C and keep its data in arrays
(*troupeaux*) and hash tables.  This directory models the parts of it whose behaviour does not
fit in a unit test: the tasks and the mutex they share, the frames of the
virtual machine, the table of tasks, a socket with a buffer, the hash tables,
the arrays, the regular expressions, and the compiler with the code it writes.

Identifiers keep the (French) names of the source.  Paths are relative to the
root of the repository, `src/` in `PROJECT.json`.

## 1. Inventory

| Part | State | Operations | Interacts with | Hard because | What makes it correct |
|---|---|---|---|---|---|
| tasks and mutex (`src/machine/machine.cpp`, `interpreteur.cpp`, `modules.cpp`, `commun/mutex.cpp`, `interne/divers.cpp`, `princ/gpp.cpp`) | `programme->mutex`, one thread and one `CInterpreteur` per task, the globals | `Executer`, lines, native functions, `Exception`, `NouvelleTache`, `BigCrunch`, interactive commands | every other part runs under the mutex or deliberately outside it | interleaving; errors leave by other ways than the one that gives the mutex up; joins | one task at a time in byte code, no lost update, every task gets its turn, BigCrunch waits |
| calls and frames (`machine.cpp`, `pile.h`, `machine.h`) | `PileF`, `Pile`, `Appel[128]`, `nAppels`, `DebutParam`, `DebutVarLoc`, `This` | instructions on locals and parameters, `AppelerEtiquette`, `Retour`, `Exception`, `LireThis` | a new universe takes a copy of its creator's frame | one array and a handful of offsets stand for all frames; long sequences of legal calls | calls behave as if each had a frame of its own |
| table of tasks (`include/gotopp/tableaux.h`, `interpreteur.cpp`) | `Programme::Tache` | `Etendre`, `Chercher`, `Supprimer` | called by threads that have given the mutex up | two threads in the table together | the table holds the running universes |
| module chaussettes | the socket, `Tampon`, `aTampon`, `lTampon` | `LireLigne`, `Vider`, `Remplir`, `Fermer`, `Tricoter`, connection | native functions: they run while the mutex is free | packets cut anywhere, several tasks, unsigned arithmetic | the script gets the bytes of the peer, once and in order, and the reverse |
| hash tables (`commun/hachval.cpp`) | pairs, sorted `Index` | `ObtId`, `ObtRef`, `Get`, `Copier` | references held by variables and by the stack | references outlive insertions, reallocation and copies | a function from keys to values |
| regular expressions (`commun/expreg.cpp`, `interne/chaines.cpp`) | the program, the places of the text, the marks of groups | `regcomp`, `regexec`, `regmatch`, search, *BananaSplit*, *Remplacer* | native functions on texts | backtracking, shortcuts taken before a search, repetitions of what may be empty | a search finds the leftmost preferred match of the expression and ends |
| compiler (`compilateur/compilateur.cpp`, `optimiser.cpp`) | blocks in progress, places to patch, the line, `PileType`, code | words, lines in order of priority, blocks, loops, cases, functions, link | its code is run by the machine; in interactive mode one compiler reads text after text | one pass: jumps are written before their target is known, types are guessed on the way | the code does what the text says, wrong texts are refused |
| arrays (`commun/tabval.cpp`, `interne/tableaux.cpp`, `hasard.cpp`) | `v`, `l` | get, grow, push and pop at both ends, remove, copy, weighted choice, join | `TableauPoids` and `Joindre` read without the mutex | an address and a length read one after the other, blocks that move | a sequence; a native function that nobody disturbs answers for the flock it was given |
| values (`type/valeur.h`) | none | arithmetic, conversions, copies | used by every instruction | overflow, division by zero | arithmetic on 32 bits |
| program, symbols (`commun/programme.cpp`) | globals, labels, switches | lookup, reset | shared by all tasks | `varGlob` is cached by each task | every cached address is current |
| saving and loading (`commun/sauveur.cpp`) | none | write, read | compiler | pointers between values | reading gives back what was written |
| other functions of the language (`interpreteur/interne`) | console, files | strings, maths, I/O | native functions | mostly I/O | as documented |
| modules tortue, troisde, hachetml | a window, callbacks, a parser | drawing, callbacks into the interpreter, parsing | `CInterpreteur::AppelerFonction` | callbacks run byte code from another place | a callback leaves the interpreter as it found it |
| collector (`boehmgc`) | | | | | third-party code |

`PROJECT.json` lists the same parts with what each module covers, and under
`hazards` the places where the code is exposed, each with its line.

## 2. Modules

| Module | Models | Grain |
|---|---|---|
| `Taches` | tasks, mutex, errors, BigCrunch, interactive mode | one action per place where a task takes or gives up the mutex |
| `Cadres` | abstract: a stack of frames, each with its parameters, locals, expression, handler and `this` | one action per instruction |
| `Appels` | `PileF`, `Pile` and `Appel` with the code's offsets; implements `Cadres` | one action per instruction that moves an offset |
| `TableTaches` | `Tableau::Etendre` and `Supprimer` by themselves, by any tasks at any time | one memory access per action |
| `TachesEtTable` | `Taches` with the steps of `TableTaches`: creators extend the table under the mutex, threads that end leave it without | the actions of both |
| `Chaussette` | the socket, its buffer, `Remplir` | one action per stretch of code between two calls of `recv` or `send`, or between two accesses of the shared buffer that matter |
| `Dictionnaires` | abstract: tables as functions with an order, references to keys | one action per instruction |
| `Hachage` | `hachageval` with its index and the loop of `ObtId`; implements `Dictionnaires` | one action per iteration of the loop |
| `Listes` | abstract: a flock is a sequence, a reference a place of one | one action per instruction |
| `Troupeaux` | `tableauval`, the functions on flocks, `TableauPoids` and `Joindre`; implements `Listes` | one action per instruction under the mutex; one per access to the flock in the native functions |
| `Motifs` | reference: expressions as trees, the ways a tree matches, preferred first | pure operators |
| `ProgReg` | the nodes of a program, what a correct program is, what a program means | pure operators |
| `ExpregComp` | `regcomp` and its descent, the program it writes | pure operators |
| `Regexec` | `regexec`, `regtry`, `regmatch` and the three functions of `chaines.cpp`, on any programs | one action per node visited |
| `Expreg` | `Regexec` on the programs of `ExpregComp`, against `Motifs` | |
| `Sources` | reference: programs as trees, the text written for one, what it shows | pure operators |
| `Lignes` | `AjouterInstruction`, the order of a line, `CreerCodeFinal` | pure operators |
| `Compilateur` | the compiler over words, the link, and the machine that runs the code | one action per word and per instruction |
| `Taches_proof`, `Appels_proof`, `Cadres_proof`, `TableTaches_proof`, `Chaussette_proof`, `Hachage_proof`, `Troupeaux_proof`, `Regexec_proof` | | theorems |

`MC*` modules only give the names and definitions the `.cfg` files need.

### Taches

`pc[t]` is where thread `t` is: waiting for the mutex at the entry of
`Executer` (`entree`), executing instructions (`code`), in the window of
`I_DEBUTLIGNE` where the mutex is free (`ligne`), inside a native function
(`natif`), waiting to come back from one (`retour`), in `BigCrunch` (`crunch`,
`joint`), in `CInterpreteur::Exception(carac*)` (`exception`, `signale`), in a
text run by GOTODANSTEXTE (`imbrique`, `texte`), stopped by an error (`nul`),
out of `Executer` (`sortie`), and ended (`fini`).  All data is one shared
variable incremented by a read and a write, which is what makes loss of
exclusion visible.  `Imprevus` says which kinds of error the script provokes,
`Attentes` which BigCrunch it may call.  `perdus` counts the times a task went
on without the mutex.

On the pthread build the mutex is not recursive and `unlock` by another thread
is accepted: `Prendre` waits whoever the holder is and `Liberer` unlocks
whoever calls it.  (POSIX leaves the second undefined; this is what the
default mutex of Linux does.)

### Appels and Cadres

`Appels` has the arrays and offsets of the code and nothing else.  `Cadres` has
what a programmer thinks of: a frame per call.  The refinement mapping rebuilds
the frames from the offsets, so that a wrong offset after any sequence of
calls, returns, exceptions and new universes is a step `Cadres` does not allow.
References are neither passed, returned nor stored, a function only names
parameters it was given, and an instruction that throws is not there.
`GotoMulti` is what GOTOGOTO and GOTOCHEPA do (`hasard.cpp:131`): they call or
jump, and only then add their own result, to the expression of the place they
reached.  Of the other native functions, GOTOerreur (`divers.cpp:131`) is
`Exception` and the jump of `chaines.cpp:571`, which empties the expression, is
a `DebutLigne`.
`Restes` is what `Appel[].This` may hold when an interpreter starts, since the
constructor leaves it as it is.
`AppelerEtiquette` does not look at the 4096 cells of `PileF`
(`machine.cpp:1066`); `Memoire` is only where the model stops.

### TableTaches and TachesEtTable

`TableTaches` has the reads and writes of `Etendre` (`EtendreLit`,
`EtendreEcrit`, `EtendrePublie`) and of `Supprimer` (`Chercher`, `Decaler`,
`LireL`, `EcrireL`), by any creators and any universes, as if nothing kept them
apart.  `TachesEtTable` puts them in the program: `I_GOTOTACHE` extends the
table while its task is in byte code (`CreerLit` ... `Creer`, the last of which
is the `NouvelleTache` of `Taches`), and the thread of a universe leaves it
after `Executer` has given the mutex back and before it ends (`Supprimer`, then
`Finir`, the `FinTache` of `Taches`).  `melees` remembers that two of these
operations have been in progress together, which the mutex prevents for two
creators, as long as neither has lost it, and nothing prevents for two threads
that end.

### Chaussette

Bytes are numbered in the order they are sent, `Fins` says which are `'\n'`;
the peer's choice of `Fins`, the sizes `recv` returns and what `send` accepts
are nondeterministic.  `Scripts` bounds what a script does: its tasks, the
functions they call, how many lines, how many connections.  A call of
`LireLigne` stops before and after its `recv` (`Preparer`, `Recevoir`), between
the copy of a line and its removal (`CopierLigne`, `RetirerLigne`); `Vider`
between its copy of the buffer and `lTampon=0`, and around its own `recv`.
`Tricoter` may come at any of these points from another task, and takes the
buffer away.  `melange` remembers that two tasks were using the buffer at the
same time; `plante` is the end of what can be followed: a buffer moved or freed
under another task, a length below zero, a byte read past the block.  `free` of
memory of the collector in `Tricoter` may or may not survive.  `aTampon` keeps
its value there, so that the next `LireLigne` may give `recv` a null buffer
(`RecevoirEchoue`).  The search of `LireLigne` looks at one cell beyond what was
received (`chaussettes.cpp:366`) and finds there what an earlier line has left.
`Modulo` is the width of `size_t`.

### Hachage and Dictionnaires

`v`, `l`, `a`, `Index` are the fields of `hachageval`, one of each per table.
An instruction that calls `ObtId` starts with `HachageRef` or `HachageVal`,
goes through `Avancer` for each iteration and ends with `Trouver`, `Absent` or
`Ajouter`; no other instruction comes in between because the task holds the
mutex.  `Dictionnaires` has tables as functions, with references that name a
key; `=` makes a copy, `==` shares.

### Troupeaux and Listes

A flock is a number of elements, `l`, and the address of a block, `v`; the
memory record `m` has them with the contents of each block and the values of
the variables.  `Dim`, `Get` and `Copier` are functions from memory to memory,
where `GC_REALLOC` stays where it is or takes any block nobody has.  The
instructions (`TableauRef`, `TableauVal`, `Definir`, ...) and the functions
that take the interpreter (`Pousse`, `Plop`, `MetsDessous`, `EnleveDessous`,
`EnleveMilieu`, ...) keep the mutex and are one action each.  `ChoisisUnEntier`
(`TableauPoids`) and `Marijuana` (`Joindre`) are called without it: `Appeler`
starts one, and then each read of the length, of the address or of an element
is an action (`Adresse`, `Nombre`, `Somme`, ... `Taille`, `Place`, `Copie`,
...), with the instructions of other tasks in between.  `touche` remembers that
another task has changed the flock since; after that an access past the end, or
through an address that was given back, gives any value.

`Listes` has sequences, and references that are a list and a place.  A flock is
not pushed into itself: the functions that move elements look their flock up
once (section 5).  `Hypotheses` says what the constants have to be: `MCCollections`
assumes it of its instance, the theorems take it as their hypothesis.

`MCCollections` puts `Hachage` and `Troupeaux` in one run: `genre` says which
of the two a behaviour is about, and the other stays as it began.  They share
no state in the code.

### Motifs, ProgReg, ExpregComp, Regexec and Expreg

An expression is a tree of `Motifs`; `Ecrit` is the text a user types for it,
`Recherche` what it should find.  `Regcomp` reads that text and writes nodes
with relative jumps, first character, anchor and literal that must appear
(`regmust`) as the code does; a node is one element of a sequence where the
code has three bytes and an operand, so that the first of `regcomp`'s two
passes, which only measures, is left out.

`Regexec` runs a program: `regmatch` is recursive in the code, and as a call
that succeeds makes all calls above it succeed, the frames of `pile` are what
each call does when the one it made fails.  Over it are the search,
*BananaSplit* (`couper`) and *Remplacer* (`un`, `tous`).  `Programmes` is what
`regexp::Creer` made of each expression; in the runs (`Expreg`) it is
`Compiles`, what `Regcomp` gives for each text.

Two steps lead from an expression to what is found, and `ProgReg` has what is
between them.  `Correct` says what `regexec` expects of a program: each node
leads to a node, no node is met again before a character was taken, and the
first character, the anchor and the literal that must appear are true of every
match.  `Sens` says what a program means, as the function `regmatch` would be
if its calls returned all that comes of them: no stack, no mark taken back, no
shortcut.  `CompileJuste` says that the programs written are correct,
`PremierTrouve` that running a correct program finds what it means, and
`TrouveJuste` that the whole finds what the expression means.

What the reference takes from the code rather than from a book: a group keeps
the text of its first passage in a repetition (the code marks a group only if
it is not marked), although `doc/src/grammaire.txt:620` does not say so, and
*BananaSplit* that meets a match without a character goes round for ever, as
the loop of `chaines.cpp:236` does: `MaxMorceaux` bounds the pieces the model
keeps, not the loop.  Left out of the expressions of the run: `\1`
under `*` or `+`, whose count is always 0 in `regrepeat` (`expreg.cpp:651` gives
it `HASWIDTH|SIMPLE`, defined at line 159 as "Known never to match null
string"; for the same reason `(a*)(\1)*` has a program that is not `Correct`,
on which `regmatch` recurses without end), and the replacement in a Markov
chain (`chaines.cpp:504`).

### Sources, Lignes and Compilateur

A program is a tree of `Sources`: expressions, statements in their layouts on
one line and on several, functions.  `TexteDe` is the text an author writes,
`Sens` what it shows for the values read.  `Lignes` takes one line:
parentheses are instructions with a priority, the line is a list into which
each instruction is inserted at its place, and `CreerCodeFinal` writes it,
counting parameters and types, doing the sums of constants, and rewriting the
jumps of *et* and *ou*.  `Compilateur` has one action per kind of word
(`Operation`, `EtOu`, `Autogotoz`, `TantQue`, `Costaud`, `PouCharque`,
`GotoMultiple`, `Cas`, `Bloc`, `Fermeture`, `Sortie`, `Fonction`,
`Separateur`, ...), `Lier` at the end, and then one action per kind of
instruction, on the code that was written and nothing else.

Abstractions: a text is a sequence of words, each line with its end; `lire` is
a variable that other tasks write, so that each read gives any value of
`Valeurs`, at most `MaxLectures` times before the run is cut (`coupe`);
`affiche(` stands for a function of the language with any number of
parameters; `PouCharque` goes through the fixed flock `Elements`.  Jumps hold
the position they go to where the code has the distance.  A text that
makes the compiler read outside one of its tables is followed no further
(`hors`): the code may stop, crash or accept it.

Left out because the code does something else than the text says, and the run
would only repeat it: an *et* or *ou* whose left side is the other one
(`Mele`; the run `compilation_etou` is about it, and the unparenthesised
`a ou b et c` does the same); a sum whose right side is an *et* or an *ou*
(`TypePerdu`, `optimiser.cpp:828`) and the sum of an integer, a value and an
integer (`optimiser.cpp:501`), which take the operator for integers although a
value may be a real number (the run `compilation_entiers` is about these); *arret* and *FINBLOC* on one line, and functions
on one line (`compilateur.cpp:617`, `829`).

### Dead ends of the grammar met while modelling

`x AUTOGOTOZ FINBLOC` and `affiche(x +)` are accepted; an *ACAC* after an
*AUTOGOTOZ* on several lines that ends with a one-line *AUTOGOTOZ* belongs to
the inner one.  `MCCompilateur` writes texts where these do not come up.

## 3. Runs

| Run | Question | Bounds |
|---|---|---|
| `taches_script` | with the errors a script raises itself and a fair scheduler, in interactive mode: is the mutex given back, does every task get its turn, does a BigCrunch last for ever only when what it waits for never stops? | 2 universes, 1 instruction each, 3 commands, any task waits for any universe |
| `taches_pannes` | with every error and every wait, what is left of mutual exclusion and of the shared variable? is the table of tasks exact as long as no two operations on it overlap? | 2 universes, 2 instructions each, the table in steps (`MCTable`) |
| `taches_operation` | *violation*: does a task get its turn when another's instruction throws? | 1 universe |
| `appels_cadres` | in memory of the collector, are frames separate, offsets in order, references live; do variables, expressions, handlers and `this` come back? | 2 nested calls, expressions of 2 values, 1 parameter, 1 local, 3 cells, 1 place in the code (a second one makes the run three times too long: which address a return takes is only told from none) |
| `table_course` | *violation*: does a universe that ends always find itself in the table? | 2 universes, 1 creator |
| `chaussette_usages` | does a script with one task get every byte, once, in order, over two connections? do two tasks, as long as they do not use the buffer together? are lines and strings whole? | packets of 3 bytes, 4 bytes sent to one task and 3 to two, 4 lines or 2, 2 connections, strings up to 7, 16 for the width, 2 failures of `send` |
| `chaussette_ligne` | *violation*: is a line made of bytes that were received? | one task, 5 bytes, 3 lines |
| `collections` | do tables implement functions with references, and flocks lists? do native functions that nobody disturbs answer for the flock they were given? | tables: 3 keys (2 with one hash value), 2 variables, 1 pointer, 2 tables with 3 pairs in all, growth by 2; flocks: 1 variable, 1 pointer, 2 flocks with 3 elements in all (2 while a native function runs), 2 blocks |
| `expreg_recherches` | are the programs the compiler writes correct ones, does running one find what it means and what the expression means, are texts that are no expression refused, does it end? | 3 groups, texts of up to 3 letters over 2, about 459,000 states |
| `compilation_textes` | does the code show what the text says, are wrong texts refused, is the stack right at each instruction, do programs stop? | expressions of 3 operators, every statement in each other once, 3 reads |
| `compilation_etou` | *violation*: is an *et* with an *ou* on its left what it says? | 2 texts |
| `compilation_entiers` | *violation*: are the operators for integers given integers? | 3 texts |

Why the bounds are enough.  The mutex protocol is the same for each pair of
tasks, and three tasks (two universes and the main one) let one hold the mutex,
one wait and one be outside; two instructions let an increment be cut by each
door there is, and three commands let one be typed while universes of two
others run.  Two calls over one another with an expression in between exercise
each offset against the frame below and the frame above.  The steps of an `Etendre` and
of two `Supprimer` come in every order.  Packets of three
bytes let a line be cut before, inside and after its end, and `Tampon` grow
several times; two connections let bytes, lines and calls of the first one meet
the second; a width of 16 is two more than twice the longest string, so that
the wrap-around of `size_t` is reached and is told from a normal count.  Three
keys make both bounds of the bisection move and put a key before, between and
after others.  Two blocks for two flocks let a flock be moved to another
address and the other one take the place it left; three elements let an element
be in the middle, with one before and one after that have to move.  While a
native function runs, the other tasks do what changes the memory, until they
have changed its flock, and then it runs to its end alone.  Texts of three letters let a repetition give back twice, a group
be entered twice and a split make an empty piece at each place; expressions
have each kind of node before and after each other.  Expressions of three
operators have each operator under, left and right of each other; each loop is
in each loop with *arret* and *continue* at both levels, and three reads let a
loop turn, turn again and leave.

The bounds are named in the modules; the ones that only bound a run (`Travail`,
`MaxCommandes`, `MaxPile`, `Memoire`, `Octets`, `Pannes`, `Petites`,
`PeuDeTaches`,
`MaxMorceaux`, `MaxLectures`) are marked `bound`.

Deadlock is checked, except where the program really stops: in `taches_pannes`
and `taches_operation` (an error ends it or blocks it), in the runs of
`Chaussette` (a script that has made its calls, or has crashed), and in those of
`Expreg` and `Compilateur`, whose programs end.

### Fairness

`SpecEquitable` of `Taches`, and `SpecScript`, its form for a script that only
makes errors of its own: weak fairness of every step that only needs the
processor, strong fairness of taking the mutex.  A pthread mutex promises no
fairness; a task that gives the mutex up at each line is preempted in that
window again and again, which is what strong fairness says, and no weaker
assumption lets any program with this protocol progress.  Nothing is assumed of
a command the user has to type, nor of an error.  `Chaussette` assumes nothing
and claims no progress: `recv` may wait for ever, and `Remplir` does not end
when `send` goes on failing.  `Regexec` and
`Compilateur` are one thread that calls nothing that blocks: it takes its next
step, `WF_vars(Next)`.  `Hachage` needs none: that a search ends is stated as a
bound on each turn of its loop.  Nor does `Troupeaux`: its loops are as long as
the flock.

## 4. Proofs

All theorems are checked by TLAPS for any value of the constants that satisfies
the assumptions named in the modules.

`Taches_proof`:

- `TypeCorrect`: `Spec => []TypeOK`.
- `Degats`: `Spec => []DegatsBornes`.  The number of tasks in byte code is not
  inductive by itself; the invariant counts holders: each task in byte code
  accounts for the mutex or for one of the losses, and the steps that execute
  byte code without the mutex are exactly those that add to `perdus`.
- `Exclusion`: `Spec => []AccesExclusif`, from the bound with `perdus = 0`.
- `Compteur`: `Spec => []CompteurExact`: with the value a task has read kept
  equal to the variable as long as exclusion holds.
- `VerrouRendu`: `Spec => []VerrouJamaisPerdu` when no instruction throws with
  the mutex locked and no text is nested (`GardentLeVerrou` disjoint from
  `Imprevus`): every other error leaves by a way that gives it back.
- `ScriptSeul`: when `Imprevus` has only the errors a script makes itself, each
  behaviour of `Spec` is one of `SpecScript` but for the fairness: the steps by
  which a task leaves the protocol never come.  `taches_script` runs
  `SpecScript`.
- `TableImplante`: `SpecTable => Spec`: with the table, whose operations are
  several steps, the tasks do what they do in `Taches` without it, so that the
  theorems above hold of the whole.
- `TableSuivie`: `SpecTable => Table!Spec`, and `TableJuste`:
  `SpecTable => []TableExacte`, for any errors, from
  `TableToujoursExacte` of `TableTaches_proof`.

`Appels_proof`:

- `BienType` (`[]TypeOK`), `Ordre` (`[]CadresEnOrdre`), `Effacement`
  (`[]RienAuDela`), `Portee` (`[]RefsVivantes`), for any number of calls, cells,
  values and places in the code.  The assumptions are that sizes are numbers,
  that a script numbers its locals, and that a value is not a reference.
  The four are proved together (`Bon`), with what they need of each other: the
  variables of every frame hold no reference, and neither does the cell a
  result will take, so that what `Retour` gives back to the caller has only the
  caller's references.  `Appeler` and `Revenir` prove that a call and a return
  keep `Bon`.  `Exception` is a loop of returns over states nobody sees: `Bon`
  is stated of a record, `Boucle` shows that the loop has a result and
  `Deroulement` that each of its states is good, from the greatest number of
  calls for which it would not be.

`Cadres_proof`:

- `Raffinement`: `Restes = {Nul} => (Spec => AbsSpec)`, every instruction of
  `Appels` is one of `Cadres`, for any number of calls, variables, cells and
  values, in an interpreter whose `Appel[].This` starts at zero.  `Image` says
  that the frames of the refinement mapping are those of a record
  (`CadresEn`), which an instruction may then take through states nobody sees.
  `Dessous` is the heart of it: frames under one that does not move are the
  same, because nothing is written under their end.  A call leaves the caller
  what is up to its last DEBUTPARAM and gives the rest as parameters
  (`AppelVu`), a return puts the result in that place (`PileRendue`), an error
  is a loop of returns without one (`DeroulementVu`).
- `Bon` is not enough for this, the invariant is `Sain`, with two parts more:
  - `Marques`: the cell under the parameters of a call is its DEBUTPARAM.  The
    loop of `Exception` gives each caller what it finds on the stack as a
    result: the DEBUTPARAM of the call above, which takes the place of one, so
    that the caller's expression is as it was.
  - `SansThis`: no element of `Appel` above the calls in progress keeps a
    `this`.  A plain function keeps in its element the one it finds there; an
    old one would be given to the caller when it returns.  `Retour` erases it.

  TLC found both to hold on the instance of `appels_cadres` before they were
  proved.  The assumption more (`CadresAssumption`) is that no value of a
  script is a record of a zone and a rank, the form references have in
  `Cadres`; with the model values of the runs it is true.

`TableTaches_proof`:

- `TableToujoursExacte` and `JamaisAssert`, of the table alone: as long as no
  two operations have overlapped (`~melees`), it is exact and no search fails.
  The invariant (`Formes`, `Seul`, `Ajout`, `Retrait`, `Contenu`) says that the
  first `Cardinality(Presents)` cells hold the present universes, each once, and
  one more, a copy of its neighbour, while `Supprimer` shifts.

`Chaussette_proof`:

- `FinDuCadeau` (`[]ArretALaFin`) and `CadeauRecu` (`[]CadeauEntier`), for
  every width, length and sequence of failures.  What is left and the cursor
  add up to the length modulo 2^w although each of them wraps; `Division`,
  `UnSeulReste`, `ResteDeSomme` and `SansDebordement` are the arithmetic.
- `BienType` (`[]TypeOK`), for every use.
- `FluxGarde` (`[]Flux`), `OctetsUneFois` (`[]ChacunUneFois`) and
  `UneLigneRendue` (`[]UneLigne`), for every finite set of tasks, every size of
  buffer and packet and every use: `LireLigne`, `Vider`, `Tricoter`, `Fermer`
  and `Remplir` by any tasks, over any number of connections.  What they leave
  out is in the properties themselves: one task for the order, no two tasks in
  the buffer together for the rest.  `Lectures` is the invariant: what is known
  of the buffer by a task that uses it alone (`ToutVu`: what it has searched,
  copied or asked `recv` to fill), the order of the bytes when there is one
  task (`Seul`), and that each byte that arrived was returned, is in the buffer
  or is held by one task, and only one (`Partages`).

`Hachage_proof`:

- `TypeCorrect`, `IndexTrie` (`[]Trie`), `UneFoisChaque` (`[]ClefsUniques`),
  `TablesPleines` (`[]JamaisVide`).
  `Trie` is not inductive by itself: that `ObtRef` inserts at the right place
  depends on what the finished search knows.  `Cadre` says it: every key at or
  before `inf` is smaller than the one looked for, every key at or after `sup`
  is greater.  `Bissection` proves that an iteration keeps it, `Insertion` that
  the insertion of a key between two neighbours keeps the order and that each
  pair keeps its entry.  The assumptions are that `czcmp` is an order that
  distinguishes keys and that a reallocation adds at least one place.
- `RechercheCourte`: each turn of the loop of `ObtId` halves what is left to
  search, whatever the keys and the hash values.
- `Raffinement`: `Spec => AbsSpec`, the tables are those of `Dictionnaires`.
  A turn of the loop is a stutter; `Trouver` is the reading or the designation
  of the key (`PaireTrouvee`), and `Absent` and `Ajouter` come only when no
  pair has it (`PaireAbsente`, from `Cadre`).  `ContenuAllonge` and
  `ContenuEcrit` say what one more pair, or one more value, does to the
  function a table stands for, because its keys are different.  It needs one
  invariant more, `RefsJustes`: a reference designates a pair or the place
  after the last one, which becomes the next key added.  The assumptions more
  are that "no reference" is not a reference and "the end" not a key.

`Troupeaux_proof`:

- `ChacunSonBloc`: two flocks never share a block, and the block of a flock is
  exactly as long as the flock (`Sain`), whatever is grown, shortened, copied
  or put in another flock, and wherever `GC_REALLOC` moves it.  A reference may
  outlive the place it designates; it always leads to a flock.
- `Raffinement`: `Spec => AbsSpec`, every instruction of `Troupeaux` is the
  instruction of `Listes` of that name and a native function changes nothing.
  The argument goes method by method: `Listage` reads the lists off a memory,
  `ListageDim`, `ListageGet`, `ListageMettre`, `ListageDeplacer` say what a
  method does to them, each because a write through `v` reaches one flock only,
  and the instructions compose the methods.
- `NatifsSuivent`: `Spec => []NatifsJustes`.  `NatifSuivi` says, place by place,
  what a native function knows of a flock nobody has changed: the sum it has is
  the sum of the weights it has passed (`Sommes`, a recursive function that has
  a value at each place of the flock), and the number drawn is above it.  The
  steps of other tasks keep it because blocks are not shared
  (`ChacunSonBloc`): what they write to is another flock, or they set `touche`.

`Regexec_proof`, of any programs that are correct (`ProgrammesCorrects`, their
hypothesis), any texts and uses:

- `RechercheJuste` (`[]PremierTrouve`): the match found is the first and the
  preferred one, with its groups, and nothing is found only when nothing
  matches.
- `RecursionBornee` (`[]PasDeBoucle`), `MarquesEffacees` (`[]MarquesRendues`: a
  failed attempt has taken back its marks), `TypeCorrect` (`[]TypeOK` of
  `Regexec`: no node outside the program, no place outside the text).

The argument has three parts.

1. *A program has a meaning.*  `Sens` is a recursive function over the points of
   a match.  `ResteBaisse`: each way on leaves less to do, first in places of
   the text, then in ranks of the program, which is what "no node is met again
   before a character was taken" gives.  `JusqueExiste` and `SensJuste` conclude
   that the function satisfies its equation everywhere: of the amounts of work
   for which it would not, take the least.
2. *The shortcuts lose nothing.*  `PremierCaractere`, `Ancree`, `Obligatoire` and
   `Regarde` say that where the code does not try, the meaning is a failure.
   `Obligatoire` is the one with an argument: of the points before the literal
   that would succeed, the one with the least left to do goes on to another.
3. *The stack carries the meaning* (`IInv`).  `Enchaine` says of each frame that
   the ways preferred to the one it tries have failed and that what comes of
   its point is what the frame below waits for; `Notees` says that the marks are
   those the frames have made, the first of each group.  `Empile`, `Avance` and
   `Manque` keep it when a match goes on or fails, `Sommet` and `Reprend` when a
   failed call returns, and `Remonte` gives it back to the attempt when the END
   is reached.  That a call takes back its own mark and no other (`Reprend`)
   needs `Ordonnes`: two calls never meet the same group at the same place.

That the programs written by `regcomp` are correct is `CompileJuste`, which the
run checks for each of its expressions: the theorems begin where that run
ends.

Only model-checked: liveness (`AttenteJustifiee`, `ChacunSonTour`,
`Aboutit`, `SArrete`), which is out of the prover's reach; `TrouveJuste`, `CompileJuste`
and `SortieJuste` of `Expreg` and all of `Compilateur`, whose references
(`Motifs`, `Sources`) and compilers are recursive operators, over trees of any
depth: the provers can neither unfold them nor do the induction.  Where a
recursion counts down a number, a recursive function and the least
counterexample take the place of induction (`Sommes`, `Sens`).

## 5. Where the code and its documents disagree

With a run that shows it:

- an instruction that throws leaves the mutex locked (`taches_operation`);
- universes that end together corrupt the table of tasks (`table_course`);
- a second `LireLigne` after a longer line takes an old end of line for one of
  its own (`chaussette_ligne`: `chaussettes.cpp:366`, where line 358 says "On
  vérifie si il y a une ligne complète");
- the addition that looks at no type is given a real number in `2 + x + 1`
  (`compilation_entiers`: `optimiser.cpp:501`, "On choisit le bon opérateur",
  and `828`);
- the end of an *et* or *ou* written just before another one is turned into
  that operator, whose operand is then skipped (`compilation_etou`:
  `compilateur.cpp:1802`, `operateurs.txt:200`, `grammaire.txt:47`).

Met while reading, with no run that singles them out: `regmust`, which is the
distance from a null pointer when an expression that starts with a repetition
has no fixed string (`expreg.cpp:359`, where line 54 says "or NULL"; in
`Regexec` such a program has `must = 0`, and `Aboutit` says that nothing else
stops a search); *BananaSplit*, which never ends once it meets an empty match
(`chaines.cpp:236`); `Appel[].This`, which is not initialised on the C stack
(`interpreteur.cpp:306`: with an object in `Restes`, `AbsSpec` is violated at
the first return); a native function that
throws after `FinParametres` goes on without the mutex (`taches_pannes` says
how much that can spoil); GOTODANSTEXTE takes the mutex twice; a universe
joined twice; `PileF` full (`machine.cpp:1066`); `Appel[128]` written at the
limit of recursion; a missing parameter that shares its cell with the first
local (`machine.cpp:256`); the buffer of a
socket used by two tasks at the same time; `aTampon` kept by `Tricoter`; the
error of `send` that is never seen, so that `Remplir` sends from one byte
earlier, for ever if the connection is broken or closed by another task; the
example of `operateurs.txt:51`; the 59th *et* or *ou* of a compiler, whose
number is taken for the code `I_FINOUET` (`compilateur.cpp:1809`); `ObtPtr`,
which accepts the place after the last element (`tabval.cpp:71`: `Troupeaux`
reads any value there); `TableauPoids`, which takes an element of weight 0 when
`rand()` gives 0, and reads past the end of a flock that another task shortens
(`hasard.cpp:43`); the copy of `Joindre`, filled with as many elements as the
flock has by then (`tabval.cpp:39`); `MetsDessous`, `EnleveDessous` and
`EnleveMilieu` on a flock that is an element of itself, which go on with what
has come to its address; `PremierPingouin` of an empty flock, which returns a
reference it has not initialised.

## 6. Not modelled

**Third-party code.**  More than half of the implementation is the collector
(`boehmgc`, about 36,000 lines with its ports to machines this program does not
run on); the program's own code is about 20,000 lines.  A share of the whole
near a third would mean to model nearly all of the program, including what
follows.

**Sequential code without state of its own**: drawing, the console, files,
conversions of characters and values, mathematics, HTML, the headers and
templates of the module interface, the options of the command line, the
disassembler.  A test reaches them as well as a model.

**Parts of the program still outside**, with the hazards they leave uncovered:

- the globals: `varGlob` cached by each task while a command or a text adds
  some (`interpreteur.cpp:362`);
- `LirePointeur` and `Modifier`, which a module may use on a value after the
  mutex was given up (`modules.cpp:104`): nothing in the repository does;
- calls from native code: `AppelerFonction` is `AppelerEtiquette` and a nested
  `Executer` that returns when `nAppels` is below where it started
  (`machine.cpp:459`, `1174`).  Only `troisde.cpp:137` uses it, for a function
  that nothing in the repository ever gives it;
- classes, arrays and properties in the compiler, texts after its first
  (`compilateur.cpp:3033`), lines where blocks close in the middle
  (`compilateur.cpp:829`);
- saving and loading of programs; the polygons of tortue (`tortue.cpp:414`).

Byte code other than the instructions named above is one step without effect on
the mutex.  References that outlive their frame are not in `Appels`.

## 7. Plan

Done: the modules and proofs above.

Next, in order:

1. `Programme`: globals, `varGlob` cached by each interpreter, compilation in
   interactive mode and by GOTODANSTEXTE while tasks run.
2. the second text of a compiler, and classes.
3. `Sauveur`: reading gives back what was written, with shared values.

Theorems: `CompileJuste`, which needs the descent of `ExpregComp` as a function
of the place in the text; then what a split and a replacement return, from
`RechercheJuste`.
