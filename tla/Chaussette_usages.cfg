CONSTANTS
  t1 = t1
  t2 = t2
  Taches = {t1, t2}
  Paquet = 3
  Octets = 5
  Memoire = 12
  Longueurs <- DeZeroASept
  Modulo = 16
  Pannes = 2
  Scripts <- Usages
SPECIFICATION Spec
CHECK_DEADLOCK FALSE
INVARIANTS
  Flux
  ChacunUneFois
  UneLigne
  ArretALaFin
  CadeauEntier
