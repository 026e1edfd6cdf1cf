SPECIFICATION Spec
CONSTANTS
  MaxConnections = 2
  Signers = {k1, k2}
  Networks = {n1, n2}
  NoNetwork = NoNetwork
INVARIANT OneOpenPerNetwork
INVARIANT AccountsOfActive
INVARIANT KeysReachable
SYMMETRY MCSymmetry
