------------------------------ MODULE MCKmsNpm ------------------------------
(* Values for the constants of KmsNpm: the KMS NPM registers for two urls. *)
EXTENDS KmsNpm, TLC

CONSTANTS u1, u2

MCSupports == Kms :> {u1, u2}

MCSymmetry == Permutations(Threads) \cup Permutations(SessionIds)

=============================================================================
