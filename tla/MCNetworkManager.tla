-------------------------- MODULE MCNetworkManager --------------------------
(* An instance of NetworkManager for TLC.  Nothing tells two networks, or   *)
(* two signers, apart.                                                      *)
EXTENDS NetworkManager, TLC

MCSymmetry == Permutations(Networks) \cup Permutations(Signers)

=============================================================================
