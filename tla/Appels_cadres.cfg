CONSTANTS
  x = x
  y = y
  o1 = o1
  o2 = o2
  v1 = v1
  v2 = v2
  Marque = Marque
  Inconnu = Inconnu
  Nul = Nul
  Valeurs = {x}
  Objets = {o1}
  Lieux = {v1}
  Locales = {0}
  NMAXAPPELS = 2
  Memoire = 3
  MaxPile = 2
  MaxParam = 1
  Restes = {Nul}
SPECIFICATION Spec
SYMMETRY Symetrie
INVARIANTS
  TypeOK
  CadresEnOrdre
  RienAuDela
  RefsVivantes
PROPERTIES
  AbsSpec
