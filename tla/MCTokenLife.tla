----------------------------- MODULE MCTokenLife -----------------------------
(* Two processes, an RSA and an AES key. *)
EXTENDS TokenLife, TLC

CONSTANTS rsa, aes, p1, p2, h1, h2

MCUrls == {rsa, aes}
MCAesUrls == {aes}

With(labels, kinds, keys, tokens, times) ==
  [tokens |-> labels, faults |-> kinds, urls |-> keys, made |-> tokens, restarts |-> times]

\* No token at first, and nothing fails or all calls but C_GetTokenInfo may; or a
\* token KMS of an earlier run, with our pin or not, and C_GetTokenInfo may fail; or
\* a token whose label begins with KMS.
MCSettings ==
  {With(<<>>, {}, {rsa, aes}, 1, 3), With(<<>>, {"calls"}, {aes}, 2, 2),
   With(<<"KMS">>, {"info"}, {aes}, 1, 2), With(<<"KMS and more">>, {}, {rsa, aes}, 1, 2)}
MCAllMayFail == {With(<<>>, {"info", "calls"}, {aes}, 1, 2)}

MCSymmetry == Permutations({p1, p2}) \cup Permutations({h1, h2})

=============================================================================
