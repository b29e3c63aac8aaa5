CONSTANTS
  u1 = u1
  u2 = u2
  Principal = Principal
  Aucun = Aucun
  Univers = {u1}
  Travail = 1
  Imprevus = {"operation"}
  Attentes <- UnSeulAttend
  Interactif = FALSE
  MaxCommandes = 1
SPECIFICATION SpecEquitable
CHECK_DEADLOCK FALSE
PROPERTIES
  ChacunSonTour
