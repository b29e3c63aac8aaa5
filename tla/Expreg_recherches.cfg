SPECIFICATION Spec
CONSTANTS
    NSUBEXP = 3
    Arbres <- MCArbres
    Malformes <- MCMalformes
    Programmes <- Compiles
    Textes <- MCTextes
    Usages = {"chercher", "couper", "un", "tous"}
    Par <- MCPar
    MaxMorceaux = 6
    MaxTexte = 3
CHECK_DEADLOCK FALSE
INVARIANT TrouveJuste
INVARIANT PremierTrouve
INVARIANT PasDeBoucle
INVARIANT CompileJuste
INVARIANT SortieJuste
PROPERTY Aboutit
