SPECIFICATION Spec
CHECK_DEADLOCK FALSE
CONSTANTS
  Programmes <- MCSommes
  Malformes <- MCAucun
  Egarants = {}
  Valeurs = {0, 1, 2}
  Flottants = {2}
  MaxLectures = 3
  Elements <- MCElements
  EtOuAvant = 0
INVARIANT EntiersSeuls
