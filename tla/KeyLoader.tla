----------------------------- MODULE KeyLoader -----------------------------
(***************************************************************************)
(* What the key agent promises to the threads that load keys through it,   *)
(* without its lock, its tables or its modules.                            *)
(*                                                                         *)
(* A load that succeeds was for a key the agent knows; a load that fails   *)
(* was for a key that no token has received; a token receives the key of a *)
(* url at most once; the agent never forgets a key.  It is not promised    *)
(* that a successful load finds the key in the token.                      *)
(***************************************************************************)
EXTENDS Naturals

CONSTANTS Threads, Urls, NoUrl

VARIABLES
  asked,      \* asked[t]: the url t is loading, or NoUrl
  answer,     \* answer[t]: the result of the last load of t
  known,      \* the urls whose key the agent has
  delivered   \* delivered[u]: how often a token received the key of u

loaderVars == <<asked, answer, known, delivered>>

Init ==
  /\ asked = [t \in Threads |-> NoUrl]
  /\ answer = [t \in Threads |-> FALSE]
  /\ known = {}
  /\ delivered = [u \in Urls |-> 0]

Ask(t, u) ==
  /\ asked[t] = NoUrl
  /\ asked' = [asked EXCEPT ![t] = u]
  /\ answer' = [answer EXCEPT ![t] = FALSE]
  /\ UNCHANGED <<known, delivered>>

\* A load that is turned away before anything is looked up.
Reject(t) ==
  /\ asked[t] = NoUrl
  /\ answer' = [answer EXCEPT ![t] = FALSE]
  /\ UNCHANGED <<asked, known, delivered>>

Learn(t) ==
  /\ asked[t] # NoUrl
  /\ known' = known \cup {asked[t]}
  /\ UNCHANGED <<asked, answer, delivered>>

Deliver(t) ==
  /\ asked[t] \in known
  /\ delivered[asked[t]] = 0
  /\ delivered' = [delivered EXCEPT ![asked[t]] = 1]
  /\ UNCHANGED <<asked, answer, known>>

Answer(t, ok) ==
  /\ asked[t] # NoUrl
  /\ IF ok THEN asked[t] \in known ELSE delivered[asked[t]] = 0
  /\ asked' = [asked EXCEPT ![t] = NoUrl]
  /\ answer' = [answer EXCEPT ![t] = ok]
  /\ UNCHANGED <<known, delivered>>

Next == \E t \in Threads :
  \/ \E u \in Urls : Ask(t, u)
  \/ Reject(t)
  \/ Learn(t)
  \/ Deliver(t)
  \/ \E ok \in BOOLEAN : Answer(t, ok)

Spec == Init /\ [][Next]_loaderVars

=============================================================================
