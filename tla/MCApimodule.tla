---------------------------- MODULE MCApimodule ----------------------------
(* Values for the constants of Apimodule.  The uris: of an AES key and an   *)
(* RSA key, the line of the preload_keys file for the latter, and one with  *)
(* another pin.                                                             *)
EXTENDS Apimodule, TLC

CONSTANTS aes, rsa, line, other, aesKey, rsaKey, pin, wrong

MCObjectOf == [u \in Urls |-> IF u = aes THEN aesKey ELSE rsaKey]
MCPinOf == [u \in Urls |-> IF u = other THEN wrong ELSE pin]

MCPreloadFile == <<line, aes>>
MCPreloadOther == <<aes, other>>

MCSymmetry == Permutations(Threads) \cup Permutations(Handles)

=============================================================================
