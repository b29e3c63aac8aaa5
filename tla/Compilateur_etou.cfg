SPECIFICATION Spec
CHECK_DEADLOCK FALSE
CONSTANTS
  Programmes <- MCMeles
  Malformes <- MCAucun
  Egarants = {}
  Valeurs = {0, 1, 2}
  Flottants = {}
  MaxLectures = 3
  Elements <- MCElements
  EtOuAvant = 0
INVARIANT SensGarde
