----------------------------- MODULE MCKeyCache -----------------------------
(* Values for the constants of KeyCache.                                    *)
EXTENDS KeyCache, TLC

CONSTANTS p1, p2, rsa, rsa2, aes

MCSymmetry == Permutations(Processes) \cup Permutations(RsaUrls)

=============================================================================
