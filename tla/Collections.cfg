CONSTANTS
  x1 = x1
  x2 = x2
  p1 = p1
  o1 = o1
  o2 = o2
  k1 = k1
  k2 = k2
  k3 = k3
  v1 = v1
  y1 = y1
  b1 = b1
  b2 = b2
  Nul = Nul
  Inconnu = Inconnu
  Aucun = Aucun
  Bout = Bout
  Variables = {x1, x2}
  Pointeurs = {p1}
  Objets = {o1, o2}
  Clefs = {k1, k2, k3}
  Valeurs = {v1}
  Empreinte <- Empreintes
  Rang <- Rangs
  Pas = 2
SPECIFICATION SpecCollections
SYMMETRY Symetrie
CONSTRAINT Petites
ACTION_CONSTRAINT PeuDeTaches
INVARIANTS
  TypeOK
  Trie
  ClefsUniques
  JamaisVide
  NatifsJustes
PROPERTIES
  RechercheDivise
  TablesDictionnaires
  TroupeauxListes
