-------------------------------- MODULE Appels --------------------------------
(***************************************************************************)
(* Function calls in a CInterpreteur.  There are no frames: one array,     *)
(* PileF, holds the parameters, the local variables and the unfinished     *)
(* expressions of all the calls in progress, one stack, Pile, the          *)
(* expression of the current line, and Appel the offsets that              *)
(* AppelerEtiquette, Retour and Exception need to find their way.          *)
(*                                                                         *)
(* Limits of the model: a reference is neither passed as a parameter nor   *)
(* returned nor stored, a function only names the parameters it was given, *)
(* and an instruction that throws is not modelled (it ends the             *)
(* interpreter: see Taches).                                               *)
(***************************************************************************)
EXTENDS SequencesExt

CONSTANTS
  Valeurs, Lieux, Objets, Marque, Inconnu, Nul,
  Locales,      \* 0 .. n: numbers of the local variables of a function
  NMAXAPPELS,   \* size of Appel
  Memoire,      \* bound: cells of PileF the model has (TailleMax in the code)
  MaxPile,      \* bound: length of an expression
  MaxParam,     \* bound: a script names parameters 0 .. MaxParam - 1
  Restes        \* what Appel[].This may hold in an interpreter that starts

VARIABLES
  Pile,        \* the expression of the current line
  PileF, l,    \* PileF.val and PileF.l
  Appel, nAppels,
  DebutParam,  \* first parameter of the current function in PileF
  DebutVarLoc, \* first local variable of the current function in PileF
  BasenParams, \* DebutVarLoc outside any function
  Ins,         \* address of the next instruction
  This

vars == <<Pile, PileF, l, Appel, nAppels, DebutParam, DebutVarLoc, BasenParams,
          Ins, This>>

Cellules == 0 .. Memoire - 1
Refs     == [adr : Cellules]
Simples  == Valeurs \cup Objets \cup {Marque, Inconnu}

ASSUME AppelsAssumption ==
  /\ NMAXAPPELS \in Nat \ {0}
  /\ Memoire \in Nat
  /\ MaxPile \in Nat /\ MaxParam \in Nat
  /\ Locales \in SUBSET Nat
  /\ Restes \subseteq Objets \cup {Nul}
  /\ Simples \cap Refs = {}

\* No value is like a reference of Cadres.
ASSUME CadresAssumption == Simples \cap [zone : {"param", "locale"}, rang : Nat] = {}

\* An element of Appel in the collector's memory.
AppelVide == [Instruction |-> Nul, lPile |-> 0, PosPileF |-> 0, nParams |-> 0,
              This |-> Nul, EnErreur |-> Nul]

\* CInterpreteur() sets Appel[0].EnErreur and leaves each This as it is: Restes
\* is {Nul} when the collector gave the memory, as to the universes, and may be
\* any object on the C stack, where gpp.cpp and GOTODANSTEXTE put theirs.
Init ==
  /\ Pile = <<>>
  /\ PileF = [i \in Cellules |-> Inconnu] /\ l = 0
  /\ \E garde \in [0 .. NMAXAPPELS -> Restes] :
       Appel = [a \in 0 .. NMAXAPPELS |-> [AppelVide EXCEPT !.This = garde[a]]]
  /\ nAppels = 0
  /\ DebutParam = 0 /\ DebutVarLoc = 0 /\ BasenParams = 0
  /\ Ins \in Lieux
  /\ This = Nul

EnMarche  == Ins # Nul
Maxi(a, b) == IF a > b THEN a ELSE b

\* The parameters the current function may name.
Nommes == {n \in 0 .. MaxParam - 1 : DebutParam + n < DebutVarLoc}

\* PileFonction::RedimMin.
RedimMin(taille) == taille <= Memoire /\ l' = Maxi(l, taille)

memoire == <<PileF, l>>
appels  == <<Appel, nAppels, DebutParam, DebutVarLoc, BasenParams, This>>

Empiler(v) ==
  /\ EnMarche
  /\ Len(Pile) < MaxPile
  /\ Pile' = Append(Pile, v)

-----------------------------------------------------------------------------
(* Instructions that stay in the current function. *)

\* I_CONSTANTE and the like, and I_DEBUTPARAM.
Constante ==
  \E v \in Valeurs \cup Objets \cup {Marque} :
    Empiler(v) /\ UNCHANGED <<memoire, appels, Ins>>

\* I_DEBUTLIGNE, at another line if a jump led there.
DebutLigne ==
  /\ EnMarche
  /\ Pile' = <<>>
  /\ Ins' \in Lieux
  /\ UNCHANGED <<memoire, appels>>

\* I_ENERREUR.
EnErreur ==
  /\ EnMarche
  /\ \E h \in Lieux : Appel' = [Appel EXCEPT ![nAppels].EnErreur = h]
  /\ UNCHANGED <<Pile, memoire, nAppels, DebutParam, DebutVarLoc, BasenParams,
                 Ins, This>>

\* Mutant: I_VARIABLELOC forgets RedimMin.
VariableLocSansRedim ==
  \E n \in Locales :
    /\ DebutVarLoc + n < Memoire
    /\ Empiler([adr |-> DebutVarLoc + n])
    /\ UNCHANGED <<memoire, appels, Ins>>

VariableLoc ==
  \E n \in Locales :
    /\ Empiler([adr |-> DebutVarLoc + n])
    /\ RedimMin(DebutVarLoc + n + 1)
    /\ UNCHANGED <<PileF, appels, Ins>>

ValeurVarLoc ==
  \E n \in Locales :
    /\ RedimMin(DebutVarLoc + n + 1)
    /\ Empiler(PileF[DebutVarLoc + n])
    /\ UNCHANGED <<PileF, appels, Ins>>

ParamRef ==
  \E n \in Nommes :
    /\ Empiler([adr |-> DebutParam + n])
    /\ RedimMin(DebutParam + n + 1)
    /\ UNCHANGED <<PileF, appels, Ins>>

ParamVal ==
  \E n \in Nommes :
    /\ DebutParam + n < Memoire
    /\ Empiler(PileF[DebutParam + n])
    /\ UNCHANGED <<memoire, appels, Ins>>

\* I_DEFINIR.
Definir ==
  LET k == Len(Pile)
  IN /\ EnMarche
     /\ k >= 2
     /\ Pile[k] \in Simples
     /\ Pile[k - 1] \in Refs
     /\ Pile[k - 1].adr < l
     /\ PileF' = [PileF EXCEPT ![Pile[k - 1].adr] = Pile[k]]
     /\ Pile' = SubSeq(Pile, 1, k - 2)
     /\ UNCHANGED <<l, appels, Ins>>

-----------------------------------------------------------------------------
(* Calls. *)

DerniereMarque(p) == SelectLastInSubSeq(p, 1, Len(p), LAMBDA v : v = Marque)

\* Mutant: AppelerEtiquette does not reset EnErreur.
AvecGestionnaire(appel, n) == appel

\* A call starts without a handler.
SansGestionnaire(appel, n) == [appel EXCEPT ![n].EnErreur = Nul]

\* PileF with the stack p at its end.
Sauvee(p) == [i \in Cellules |-> IF i \in l .. l + Len(p) - 1 THEN p[i - l + 1] ELSE PileF[i]]

\* AppelerEtiquette, when p is on the stack (the this of a method is not) and
\* the element of Appel will keep "garde" as its this.
AppelerEtiquette(p, v, garde) ==
  LET param == DerniereMarque(p)
  IN /\ nAppels < NMAXAPPELS
     /\ param > 0
     /\ \A i \in param + 1 .. Len(p) : p[i] \in Simples
     /\ l + Len(p) <= Memoire
     /\ Appel' = SansGestionnaire(
          [Appel EXCEPT ![nAppels] =
            [Instruction |-> Ins, lPile |-> param, PosPileF |-> l, nParams |-> Len(p) - param,
             This |-> garde, EnErreur |-> Appel[nAppels].EnErreur]],
          nAppels + 1)
     /\ DebutParam' = l + param
     /\ DebutVarLoc' = l + Len(p)
     /\ PileF' = Sauvee(p)
     /\ l' = l + Len(p)
     /\ nAppels' = nAppels + 1
     /\ Ins' = v
     /\ UNCHANGED BasenParams

\* I_EXEC, I_EXECVAL of a label, I_EXECMEMETHISVAL.
Exec ==
  /\ EnMarche
  /\ \E v \in Lieux : AppelerEtiquette(Pile, v, Appel[nAppels].This)
  /\ Pile' = <<>>
  /\ UNCHANGED This

\* I_EXECTHIS, I_EXECVAL of a method: LireThis.
ExecThis ==
  /\ EnMarche
  /\ Pile # <<>>
  /\ Last(Pile) \in Objets
  /\ \E v \in Lieux :
       AppelerEtiquette(Front(Pile), v,
                        IF This # Nul THEN This ELSE Appel[nAppels].This)
  /\ Pile' = <<>>
  /\ This' = Last(Pile)

\* biGotoMulti: no target is drawn among the parameters, or one is, and is gone
\* to (Goto empties Pile) or called.  The result of the function, INCONNU, is
\* added to what is Pile by then: the expression of another place.
GotoMulti ==
  LET param == DerniereMarque(Pile)
      appelant == SubSeq(Pile, 1, param)
  IN /\ EnMarche
     /\ param > 0
     /\ \A i \in param + 1 .. Len(Pile) : Pile[i] \in Valeurs
     /\ \/ /\ Pile' = Append(SubSeq(Pile, 1, param - 1), Inconnu)
           /\ UNCHANGED <<memoire, appels, Ins>>
        \/ /\ param < Len(Pile)
           /\ Pile' = <<Inconnu>>
           /\ \/ Ins' \in Lieux /\ UNCHANGED <<memoire, appels>>
              \/ /\ \E v \in Lieux : AppelerEtiquette(appelant, v, Appel[nAppels].This)
                 /\ UNCHANGED This

\* The part of the state that Retour works on.
Etat == [Pile |-> Pile, PileF |-> PileF, l |-> l, Appel |-> Appel, n |-> nAppels,
         DebutParam |-> DebutParam, DebutVarLoc |-> DebutVarLoc, Ins |-> Ins,
         This |-> This]

\* Mutant: DebutParam is computed from the call that ends.
DebutMemeAppel(appel, n) == appel[n].PosPileF + appel[n].lPile

\* DebutParam when n calls are in progress.
DebutAppelant(appel, n) ==
  IF n = 0 THEN 0 ELSE appel[n - 1].PosPileF + appel[n - 1].lPile

\* The result takes the place of the DEBUTPARAM of the call.
CelluleResultat(a) == a.PosPileF + a.lPile - 1

\* Mutant: EffacerDernier is forgotten: the local variables are not erased.
EffacerSansLocales(a, longueur) == a.PosPileF .. a.PosPileF + a.lPile - 1

\* The cells a return erases: the saved stack, and what is after it.
Effacees(a, longueur) == a.PosPileF .. longueur - 1

\* Mutant: an off-by-one in what is left of PileF.
LongueurTropPetite(a) == a.PosPileF - 1

LongueurApres(a) == a.PosPileF

\* Retour, as a function of that state.
Retour(s) ==
  LET n == s.n - 1
      a == s.Appel[n]
      base == DebutAppelant(s.Appel, n)
      pilef == IF s.Pile = <<>> THEN s.PileF
               ELSE [s.PileF EXCEPT ![CelluleResultat(a)] = Last(s.Pile)]
  IN [Pile |-> [i \in 1 .. a.lPile |-> pilef[a.PosPileF + i - 1]],
      PileF |-> [i \in Cellules |-> IF i \in Effacees(a, s.l)
                                    THEN Inconnu ELSE pilef[i]],
      l |-> LongueurApres(a),
      Appel |-> [s.Appel EXCEPT ![n].This = Nul],
      n |-> n,
      DebutParam |-> base,
      DebutVarLoc |-> IF n = 0 THEN BasenParams ELSE base + s.Appel[n - 1].nParams,
      Ins |-> a.Instruction,
      This |-> IF a.This # Nul THEN a.This ELSE s.This]

Devenir(s) ==
  /\ Pile' = s.Pile /\ PileF' = s.PileF /\ l' = s.l
  /\ Appel' = s.Appel /\ nAppels' = s.n
  /\ DebutParam' = s.DebutParam /\ DebutVarLoc' = s.DebutVarLoc
  /\ Ins' = s.Ins /\ This' = s.This
  /\ UNCHANGED BasenParams

\* I_RETOUR.
Regoto ==
  /\ EnMarche
  /\ nAppels > 0
  /\ Pile # <<>> => Last(Pile) \in Simples
  /\ Devenir(Retour(Etat))

\* Exception: the stack is emptied once, Retour is called until an element of
\* Appel has a handler, and without one Ins.Goto(NULL) ends the interpreter.
Exception ==
  LET avec == {a \in 0 .. nAppels : a = 0 \/ Appel[a].EnErreur # Nul}
      deroule[a \in 0 .. nAppels] ==
        IF a = nAppels THEN [Etat EXCEPT !.Pile = <<>>] ELSE Retour(deroule[a + 1])
  IN /\ EnMarche
     /\ Devenir([deroule[Max(avec)] EXCEPT !.Ins = Appel[Max(avec)].EnErreur])

\* I_GOTOTACHE, seen from the new interpreter: NouvelleTache gives it a copy
\* of PileF from DebutParam on.  The old one goes on as it was.
NouvelleTache ==
  LET nl == l - DebutParam
  IN /\ EnMarche
     /\ Pile' = <<>>
     /\ PileF' = [i \in Cellules |-> IF i < nl THEN PileF[DebutParam + i] ELSE Inconnu]
     /\ l' = nl
     /\ Appel' = [a \in 0 .. NMAXAPPELS |-> AppelVide]
     /\ nAppels' = 0
     /\ DebutParam' = 0
     /\ DebutVarLoc' = DebutVarLoc - DebutParam
     /\ BasenParams' = DebutVarLoc - DebutParam
     /\ Ins' \in Lieux
     /\ This' = Nul

\* The interpreter has ended.
Termine == ~EnMarche /\ UNCHANGED vars

Next ==
  \/ Constante \/ DebutLigne \/ EnErreur \/ VariableLoc \/ ValeurVarLoc
  \/ ParamRef \/ ParamVal \/ Definir
  \/ Exec \/ ExecThis \/ GotoMulti \/ Regoto \/ Exception \/ NouvelleTache
  \/ Termine

Spec == Init /\ [][Next]_vars

-----------------------------------------------------------------------------
(* Where the frames are. *)

Debut(k) == IF k = 0 THEN 0 ELSE Appel[k - 1].PosPileF + Appel[k - 1].lPile
Locs(k)  == IF k = 0 THEN BasenParams ELSE Debut(k) + Appel[k - 1].nParams
FinDe(k) == IF k = nAppels THEN l ELSE Appel[k].PosPileF

TypeOK ==
  /\ Pile \in Seq(Simples \cup Refs)
  /\ PileF \in [Cellules -> Simples \cup Refs]
  /\ l \in 0 .. Memoire
  /\ Appel \in [0 .. NMAXAPPELS ->
                 [Instruction : Lieux \cup {Nul}, lPile : Nat, PosPileF : Nat,
                  nParams : Nat, This : Objets \cup {Nul},
                  EnErreur : Lieux \cup {Nul}]]
  /\ nAppels \in 0 .. NMAXAPPELS
  /\ {DebutParam, DebutVarLoc, BasenParams} \subseteq Nat
  /\ Ins \in Lieux \cup {Nul}
  /\ This \in Objets \cup {Nul}

\* DebutParam and DebutVarLoc are always those of the current function, and
\* the frames follow one another in PileF without overlapping.
CadresEnOrdre ==
  /\ DebutParam = Debut(nAppels)
  /\ DebutVarLoc = Locs(nAppels)
  /\ \A k \in 0 .. nAppels : Debut(k) <= Locs(k) /\ Locs(k) <= FinDe(k)

\* A function that reads a local variable before it writes it finds INCONNU,
\* never what an earlier call left: nothing survives above PileF.l.
RienAuDela == \A i \in Cellules : i >= l => PileF[i] = Inconnu

\* A reference on a variable, on the stack or saved by a call, stays in the
\* part of PileF of its function: Deref never throws "gourou local".
RefsVivantes ==
  /\ \A i \in DOMAIN Pile : Pile[i] \in Refs =>
       Pile[i].adr \in Debut(nAppels) .. l - 1
  /\ \A k \in 0 .. nAppels - 1 : \A i \in FinDe(k) .. Debut(k + 1) - 1 :
       PileF[i] \in Refs => PileF[i].adr \in Debut(k) .. FinDe(k) - 1

-----------------------------------------------------------------------------
(* Refinement: the frames of a script. *)

Relative(k, v) ==
  IF v \in Refs
  THEN IF v.adr < Locs(k)
       THEN [zone |-> "param", rang |-> v.adr - Debut(k) + 1]
       ELSE [zone |-> "locale", rang |-> v.adr - Locs(k)]
  ELSE v

PileDe(k) ==
  IF k = nAppels THEN Pile
  ELSE [i \in 1 .. Appel[k].lPile |-> PileF[Appel[k].PosPileF + i - 1]]

\* The this of frame k is kept by the first element of Appel that has one.
ThisDe(k) ==
  LET gardes == {a \in k .. nAppels - 1 : Appel[a].This # Nul}
  IN IF gardes = {} THEN This ELSE Appel[Min(gardes)].This

Cadre(k) ==
  [pile |-> [i \in DOMAIN PileDe(k) |-> Relative(k, PileDe(k)[i])],
   params |-> [i \in 1 .. Locs(k) - Debut(k) |-> PileF[Debut(k) + i - 1]],
   locales |-> [n \in Locales |-> IF Locs(k) + n < FinDe(k)
                                  THEN PileF[Locs(k) + n] ELSE Inconnu],
   gest |-> Appel[k].EnErreur,
   this |-> ThisDe(k),
   ins |-> IF k = nAppels THEN Ins ELSE Appel[k].Instruction]

CadresAbs == [k \in 1 .. nAppels + 1 |-> Cadre(k - 1)]

AbsCadres == INSTANCE Cadres WITH cadres <- CadresAbs

\* Whatever a function does, its callers find their variables, their
\* unfinished expression, their handler and their this as they left them, when
\* Restes is {Nul}: a This left in Appel comes out at the first return.
AbsSpec == AbsCadres!Spec
=============================================================================
