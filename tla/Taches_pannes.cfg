CONSTANTS
  u1 = u1
  u2 = u2
  Principal = Principal
  Aucun = Aucun
  Univers = {u1, u2}
  Travail = 2
  Imprevus = {"gotoerreur", "parametres", "natif", "module", "operation", "texte"}
  Attentes <- ToutLeMondeAttend
  Interactif = FALSE
  MaxCommandes = 1
SPECIFICATION SpecTable
SYMMETRY Symetrie
CHECK_DEADLOCK FALSE
INVARIANTS
  AccesExclusif
  DegatsBornes
  CompteurExact
  TableExacte
