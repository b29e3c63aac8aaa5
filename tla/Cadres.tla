-------------------------------- MODULE Cadres --------------------------------
(***************************************************************************)
(* What a GOTO++ script may believe about function calls: a sequence of    *)
(* frames, each with its parameters, its local variables, the unfinished   *)
(* expression of its current line, its error handler and its "this".  No   *)
(* frame can see or disturb the variables of another.                      *)
(*                                                                         *)
(* CInterpreteur has no such frames: see Appels, which implements this.    *)
(***************************************************************************)
EXTENDS SequencesExt

CONSTANTS
  Valeurs,   \* the values a script computes with
  Lieux,     \* addresses in the code
  Objets,    \* the objects that can be "this"
  Locales,   \* numbers of the local variables of a function
  Marque,    \* the value of type DEBUTPARAM
  Inconnu,   \* the value of type INCONNU
  Nul        \* no code, no handler, no this

VARIABLE cadres

cadre == cadres[Len(cadres)]

\* A reference on a variable of the frame it is in.
Ref(zone, n) == [zone |-> zone, rang |-> n]
EstRef(v) == v \notin Valeurs \cup Objets \cup {Marque, Inconnu}

\* The position of the last DEBUTPARAM of an expression, 0 if there is none.
DerniereMarque(p) == SelectLastInSubSeq(p, 1, Len(p), LAMBDA v : v = Marque)

CadreDe(params, this, v) ==
  [pile |-> <<>>, params |-> params, locales |-> [n \in Locales |-> Inconnu],
   gest |-> Nul, this |-> this, ins |-> v]

Init == \E v \in Lieux : cadres = <<CadreDe(<<>>, Nul, v)>>

Remplacer(c) == cadres' = [cadres EXCEPT ![Len(cadres)] = c]
Empiler(v)   == Remplacer([cadre EXCEPT !.pile = Append(@, v)])

Calculer == \E v \in Valeurs \cup Objets \cup {Marque} : Empiler(v)
Ligne    == \E v \in Lieux : Remplacer([cadre EXCEPT !.pile = <<>>, !.ins = v])
Gerer    == \E h \in Lieux : Remplacer([cadre EXCEPT !.gest = h])

Lire ==
  \/ \E n \in Locales : Empiler(cadre.locales[n])
  \/ \E n \in DOMAIN cadre.params : Empiler(cadre.params[n])

Designer ==
  \/ \E n \in Locales : Empiler(Ref("locale", n))
  \/ \E n \in DOMAIN cadre.params : Empiler(Ref("param", n))

\* The value on top goes to the variable under it.
Definir ==
  LET k == Len(cadre.pile)
      r == cadre.pile[k - 1]
      v == cadre.pile[k]
      reste == SubSeq(cadre.pile, 1, k - 2)
  IN /\ k >= 2
     /\ EstRef(r) /\ ~EstRef(v)
     /\ Remplacer(IF r.zone = "locale"
                  THEN [cadre EXCEPT !.pile = reste, !.locales[r.rang] = v]
                  ELSE [cadre EXCEPT !.pile = reste, !.params[r.rang] = v])

\* A call: what is after the last DEBUTPARAM becomes the parameters.  A plain
\* function keeps the "this" of its caller.
AppelerFonction ==
  LET p == cadre.pile
      m == DerniereMarque(p)
      params == SubSeq(p, m + 1, Len(p))
  IN /\ m > 0
     /\ \A i \in DOMAIN params : ~EstRef(params[i])
     /\ \E v \in Lieux :
          cadres' = Front(cadres) \o <<[cadre EXCEPT !.pile = SubSeq(p, 1, m)],
                                      CadreDe(params, cadre.this, v)>>

\* A call of a method on the object on top.  The "this" of a frame that is not
\* in a method is left to chance: here it takes the new one.
AppelerMethode ==
  LET p == Front(cadre.pile)
      o == Last(cadre.pile)
      m == DerniereMarque(p)
      params == SubSeq(p, m + 1, Len(p))
      appelants == [i \in DOMAIN cadres |->
                     [cadres[i] EXCEPT !.this = IF @ = Nul THEN o ELSE @,
                                       !.pile = IF i = Len(cadres)
                                                THEN SubSeq(p, 1, m) ELSE @]]
  IN /\ cadre.pile # <<>>
     /\ o \in Objets
     /\ m > 0
     /\ \A i \in DOMAIN params : ~EstRef(params[i])
     /\ \E v \in Lieux : cadres' = Append(appelants, CadreDe(params, o, v))

\* GOTOGOTO and GOTOCHEPA: nothing is drawn, or a place to go to, or a function
\* to call, without parameters, that starts with an INCONNU in its expression.
Tirer ==
  LET p == cadre.pile
      m == DerniereMarque(p)
      sans == Append(SubSeq(p, 1, m - 1), Inconnu)
  IN /\ m > 0
     /\ \A i \in m + 1 .. Len(p) : p[i] \in Valeurs
     /\ \/ Remplacer([cadre EXCEPT !.pile = sans])
        \/ /\ m < Len(p)
           /\ \E v \in Lieux :
                \/ Remplacer([cadre EXCEPT !.pile = <<Inconnu>>, !.ins = v])
                \/ cadres' = Front(cadres) \o
                     <<[cadre EXCEPT !.pile = SubSeq(p, 1, m)],
                       [CadreDe(<<>>, cadre.this, v) EXCEPT !.pile = <<Inconnu>>]>>

\* The result takes the place of the last DEBUTPARAM of the caller; a REGOTO
\* without a value leaves the DEBUTPARAM there.
Retourner ==
  LET k == Len(cadres)
      appelant == cadres[k - 1]
  IN /\ k > 1
     /\ cadre.pile # <<>> => ~EstRef(Last(cadre.pile))
     /\ cadres' =
          Append(SubSeq(cadres, 1, k - 2),
                 IF cadre.pile = <<>> THEN appelant
                 ELSE [appelant EXCEPT !.pile[Len(appelant.pile)] = Last(cadre.pile)])

\* An error goes to the handler of the innermost frame that has one.
Echouer ==
  LET avec == {i \in 1 .. Len(cadres) : cadres[i].gest # Nul}
      a == IF avec = {} THEN 1 ELSE Max(avec)
      pile == IF a = Len(cadres) THEN <<>> ELSE cadres[a].pile
  IN cadres' = Append(SubSeq(cadres, 1, a - 1),
                      [cadres[a] EXCEPT !.pile = pile, !.ins = cadres[a].gest])

\* A new universe starts with a copy of the variables of the frame and
\* without its callers: from here on the frames are those of the new one.
Univers ==
  \E v \in Lieux :
    cadres' = <<[CadreDe(cadre.params, Nul, v) EXCEPT !.locales = cadre.locales]>>

Next ==
  \/ Calculer \/ Ligne \/ Gerer \/ Lire \/ Designer \/ Definir
  \/ AppelerFonction \/ AppelerMethode \/ Tirer \/ Retourner \/ Echouer \/ Univers

Spec == Init /\ [][Next]_cadres
=============================================================================
