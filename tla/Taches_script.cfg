CONSTANTS
  u1 = u1
  u2 = u2
  Principal = Principal
  Aucun = Aucun
  Univers = {u1, u2}
  Travail = 1
  Imprevus = {"gotoerreur", "parametres"}
  Attentes <- ToutLeMondeAttend
  Interactif = TRUE
  MaxCommandes = 3
SPECIFICATION SpecScript
INVARIANTS
  VerrouJamaisPerdu
PROPERTIES
  AttenteJustifiee
  ChacunSonTour
