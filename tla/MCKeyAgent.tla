----------------------------- MODULE MCKeyAgent -----------------------------
(* Values for the constants of KeyAgent: two NPMs, of which one knows a    *)
(* single url, so that a search can go past an NPM in either way.          *)
EXTENDS KeyAgent, TLC, FiniteSets

CONSTANTS n1, n2, u1, u2

MCSupports == n1 :> {u1, u2} @@ n2 :> {u1} 

MCSymmetry ==
  Permutations(Threads) \cup Permutations(Stms) \cup Permutations(SessionIds)

=============================================================================
