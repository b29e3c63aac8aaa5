SPECIFICATION Spec
CHECK_DEADLOCK FALSE
CONSTANTS
  Programmes <- MCProgrammes
  Malformes <- MCMalformes
  Egarants <- MCEgarants
  Valeurs = {0, 1, 2}
  Flottants = {2}
  MaxLectures = 3
  Elements <- MCElements
  EtOuAvant = 0
INVARIANTS SensGarde ErreursVues PileSuffit
PROPERTY SArrete
