SPECIFICATION Spec
CONSTANTS
  ana = ana
  bia = bia
  key = key
  Names <- MCNames
  Roles = {"admin", "leitor"}
  Keys = {key}
  MaxPeriod = 3
  MaxSecrets = 2
  MaxTokens = 2
  MaxGrants = 3
SYMMETRY Symmetry
INVARIANTS
  TypeOK
  AdminRemains
  AcceptedOnce
  EnforcedFactorWasProved
