SPECIFICATION Spec
CONSTANTS
  kebab <- MCKebab
  Numerals = {"5", "0"}
  Commands <- MCCommands
  Envs <- MCEnvs
  aleoSuffixed <- MCAleoSuffixed
  refKind <- MCRefKind
  rank <- MCRank
CHECK_DEADLOCK FALSE
INVARIANTS
  InputHonoured
  LoadOrderValid
  WorkersAgree
