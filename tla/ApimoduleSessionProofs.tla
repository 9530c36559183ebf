----------------------- MODULE ApimoduleSessionProofs -----------------------
(***************************************************************************)
(* Proofs about what the threads of Apimodule share: the table of opened   *)
(* tokens, the sessions, searches, logins and objects in the PKCS#11       *)
(* library, and the wrapping keys.  For every set of threads, uris, keys,  *)
(* pins and sessions.                                                      *)
(*                                                                         *)
(* ApimoduleProofs says where each thread can be; here a second invariant  *)
(* says what the token is like while it is there.  Its parts are proved    *)
(* together: that a key is in the token rests on the session in the table  *)
(* being usable, and that on the token having been opened by one thread.   *)
(***************************************************************************)
EXTENDS ApimoduleProofs

USE ApimoduleAssumption, FiniteAssumption

-----------------------------------------------------------------------------
(* The inductive invariant. *)

\* A thread that has found the token, or is to create it, and has not cached it.
Opening == OpenPcs \ {"findtoken"}

\* The PKCS#11 library, and what its state says of the threads: once C_Initialize
\* was called it is finalized only by a thread about to initialize it again (which
\* may fail to, if calls may fail), no key number is used before it is generated,
\* the token is there for whoever found it, and nobody loads a key the agent knows.
LibraryInv ==
  /\ p11.searching \subseteq p11.open
  /\ p11.initialized \/ p11.open = {}
  /\ ~TokenMayFail /\ preload_keys_flag /\ ~p11.initialized =>
       \E t \in Threads : api[t].pc = "initialize"
  /\ p11.pairs \subseteq 1..p11.generated /\ p11.swks \subseteq 1..p11.generated
  /\ \A o \in Objects : p11.copies[o] # 0 => p11.present
  /\ token_hash # 0 => p11.present
  /\ \A t \in Threads : api[t].pc \in Opening \ {"inittoken"} => p11.present
  /\ agent.known # {} => token_hash # 0
  /\ \A t \in Threads : api[t].pc \in {"npm", "generate", "quote"} \/ api[t].create =>
       api[t].url \notin agent.known

\* Every active search has a load that will end it.
SearchInv == ~TokenMayFail => SearchesEnd

\* A thread opens the token or has put its entry in the table: once there is one,
\* no other thread begins to.
CountInv ==
  /\ token_hash = 0 => Len(atokens) = 0
  /\ Len(atokens) + Cardinality({t \in Threads : api[t].pc \in OpenPcs}) <= Cardinality(Threads)

\* Where a load has to open the token, and what the token is then like.
StageOK(l) ==
  /\ l.pc \in {"inittoken", "opensession_so"} => p11.open = {}
  /\ l.pc \in {"inittoken", "opensession_so", "login_so"} => p11.login = "none"
  /\ l.pc \in {"logout_so", "login_created", "finalize"} => p11.pin = PinOf[l.url]
  /\ l.pc = "finalize" => p11.login = "user"
  /\ l.pc \in {"initialize", "opensession", "logout", "login"} =>
       p11.login = "none" \/ (p11.login = "user" /\ p11.pin = PinOf[l.url])
  /\ l.pc = "cache" => Private(l.session) /\ p11.pin = PinOf[l.url]
  /\ l.pc \in CreatingPcs \ {"inittoken"} => \A o \in Objects : p11.copies[o] = 0

\* One thread opened the token.  Until it has cached it there is no entry, and from
\* then on the entry can be used.
OnceInv == OpenedOnce =>
  /\ \A s, t \in Threads : api[s].pc \in Opening /\ api[t].pc \in Opening => s = t
  /\ \A t \in Threads : api[t].pc \in Opening => token_hash = 0 /\ openings = 1
  /\ openings = 0 => token_hash = 0 /\ p11.open = {} /\ p11.login = "none"
  /\ Len(atokens) <= 1
  /\ \A t \in Threads : StageOK(api[t])
  /\ token_hash # 0 => /\ Private(atokens[token_hash].session)
                       /\ atokens[token_hash].pin = p11.pin

\* Where a load is creating the token, the next call that sets its user pin has
\* what it needs, until the pin is set.
PinOK(l) ==
  /\ l.pc = "opensession_so" => p11.initialized
  /\ l.pc \in {"login_so", "initpin"} => Open(l.session)
  /\ l.pc = "initpin" => p11.login = "so"
  /\ l.pc \in {"logout_so", "login_created", "finalize", "initialize"} => p11.pin # NoPin

PinInv == ~TokenMayFail /\ Handles # {} /\ OpenedOnce =>
  /\ \A t \in Threads : PinOK(api[t])
  /\ TokenKeepsPin

\* The wrapping key for a key pair comes into the token once, and only after its
\* challenge was handed out; a key pair whose challenge is still out has none.
WrapInv == OpenedOnce =>
  /\ \A t \in Threads :
       /\ api[t].quoted # 0 => /\ api[t].quoted \in p11.pairs
                               /\ atokens[token_hash].pair = api[t].quoted
                               /\ api[t].quoted \notin p11.swks
       /\ api[t].pc = "quote" => atokens[token_hash].pair \notin p11.swks
  /\ agent.announced \in p11.swks => atokens[token_hash].wrappingkey = agent.announced
  /\ ~crashed

\* What the agent knows and the token did not refuse is in the token.
SuccessInv == OpenedOnce =>
  /\ \A u \in agent.known \ agent.refused : p11.copies[ObjectOf[u]] # 0
  /\ \A t \in Threads :
       api[t].pc \in {"returned", "unlock"} /\ api[t].ok /\ api[t].url \notin agent.refused =>
         /\ token_hash # 0 /\ api[t].url \in Urls
         /\ p11.copies[ObjectOf[api[t].url]] # 0

\* A load that will not search any more before its key comes into the token.
Past(l) ==
  \/ l.pc \in {"lock", "npm", "generate", "quote"} \/ l.create
  \/ l.pc = "findobjectsfinal" /\ ~l.found

\* The one thread that opened the token failed to: no load can succeed any more
\* unless the token is opened again.
Dead == openings = 1 /\ token_hash = 0 /\ \A t \in Threads : api[t].pc \notin Opening

\* Every copy of a key is from a uri the agent knows, but for an RSA key that was
\* there before: of that there is one, and no load has missed it.
CopiesInv == ~TokenMayFail /\ OpenedOnce => \A o \in Objects :
  \/ p11.copies[o] <= Cardinality(agent.known \cap UrisNaming(o))
  \/ /\ p11.copies[o] = 1 /\ agent.known \cap UrisNaming(o) = {}
     /\ Dead \/ \A t \in Threads : api[t].url \in UrisNaming(o) => ~Past(api[t])

SessionInv ==
  /\ LibraryInv /\ SearchInv /\ CountInv /\ OnceInv
  /\ PinInv /\ WrapInv /\ SuccessInv /\ CopiesInv

-----------------------------------------------------------------------------
(* What a step does to the load of its thread. *)

Others(t) == \A s \in Threads \ {t} : api'[s] = api[s]

Keeps(l, m) ==
  /\ m.url = l.url /\ m.ok = l.ok /\ m.create = l.create /\ m.session = l.session
  /\ m.atoken = l.atoken /\ m.inner = l.inner /\ m.found = l.found /\ m.quoted = l.quoted

\* t goes on to pc.
MovesTo(t, pc) == Others(t) /\ api'[t].pc = pc /\ Keeps(api[t], api'[t])

\* t goes to pc with nothing left in its variables.
Leaves(t, pc, ok) ==
  /\ Others(t)
  /\ api'[t].pc = pc /\ api'[t].url = api[t].url /\ api'[t].ok = ok
  /\ ~api'[t].create /\ api'[t].quoted = 0 /\ ~api'[t].found /\ api'[t].atoken = 0

\* init_apimodule_token of t returns NULL.
GivesUp(t) == Leaves(t, IF api[t].create THEN "unlock" ELSE "lock", FALSE)

LEMMA FreshFields ==
  ASSUME NEW u \in Urls \cup {NoUrl}, NEW todo \in Seq(Urls), NEW pc \in ApiPcs,
         NEW ok \in BOOLEAN
  PROVE  LET l == [Fresh(u, todo) EXCEPT !.pc = pc, !.ok = ok]
         IN /\ l.pc = pc /\ l.url = u /\ l.ok = ok /\ ~l.create /\ l.quoted = 0
            /\ ~l.found /\ l.atoken = 0
  BY DEF Fresh

LEMMA GoesEffect ==
  ASSUME ApiInv, NEW t \in Threads, NEW pc \in ApiPcs, api' = Goes(t, pc)
  PROVE  MovesTo(t, pc)
  <1>1. api \in [Threads -> Load] /\ api[t] \in Load
    BY DEF ApiInv, ApimoduleTypeOK
  <1>2. Others(t) /\ api'[t] = [api[t] EXCEPT !.pc = pc]
    BY <1>1 DEF Goes, Others
  <1> QED BY <1>1, <1>2 DEF MovesTo, Keeps, Load

LEMMA LeavesEffect ==
  ASSUME ApiInv, NEW t \in Threads, NEW ok \in BOOLEAN
  PROVE  /\ api' = Ends(t, ok) => Leaves(t, "unlock", ok)
         /\ api' = Returns(t, ok) => Leaves(t, "returned", ok)
         /\ api' = Asks(t) => Leaves(t, "lock", FALSE)
  <1>1. /\ api \in [Threads -> Load] /\ api[t].url \in Urls \cup {NoUrl}
        /\ api[t].todo \in Seq(Urls) /\ todo_after(t, ok) \in Seq(Urls)
    BY TodoAfterType DEF ApiInv, ApimoduleTypeOK, Load
  <1>2. ASSUME api' = Ends(t, ok)  PROVE Leaves(t, "unlock", ok)
    BY <1>1, <1>2 DEF Ends, Fresh, Leaves, Others
  <1>3. ASSUME api' = Returns(t, ok)  PROVE Leaves(t, "returned", ok)
    BY <1>1, <1>3 DEF Returns, Fresh, Leaves, Others
  <1>4. ASSUME api' = Asks(t)  PROVE Leaves(t, "lock", FALSE)
    BY <1>1, <1>4 DEF Asks, Fresh, Leaves, Others
  <1> QED BY <1>2, <1>3, <1>4

LEMMA NoTokenEffect ==
  ASSUME ApiInv, NEW t \in Threads, api' = NoToken(t)
  PROVE  GivesUp(t)
  BY LeavesEffect DEF NoToken, GivesUp

\* A call that is made if cond holds, and may fail.
LEMMA TokenCallEffect ==
  ASSUME ApiInv, NEW t \in Threads, NEW cond \in BOOLEAN, NEW p, NEW pc \in ApiPcs,
         token_call(t, cond, p, pc)
  PROVE  /\ UNCHANGED <<token_hash, atokens, preload_keys_flag, agent, openings, crashed>>
         /\ \/ cond /\ p11' = p /\ MovesTo(t, pc)
            \/ p11' = p11 /\ GivesUp(t) /\ (~TokenMayFail => ~cond)
  <1>1. PICK ok \in Outcome(cond) : /\ p11' = IF ok THEN p ELSE p11
                                    /\ api' = IF ok THEN Goes(t, pc) ELSE NoToken(t)
    BY DEF token_call
  <1>2. (ok => cond) /\ (~ok /\ ~TokenMayFail => ~cond) /\ ok \in BOOLEAN
    BY <1>1 DEF Outcome
  <1>3. CASE ok
    BY <1>1, <1>2, <1>3, GoesEffect DEF token_call, history
  <1>4. CASE ~ok
    BY <1>1, <1>2, <1>4, NoTokenEffect DEF token_call, history
  <1> QED BY <1>2, <1>3, <1>4

LEMMA SessionCallEffect ==
  ASSUME ApiInv, NEW t \in Threads, NEW pc \in ApiPcs, session_call(t, pc)
  PROVE  /\ UNCHANGED <<token_hash, atokens, preload_keys_flag, agent, openings, crashed>>
         /\ \/ \E h \in Handles \ p11.open :
                 /\ p11' = [p11 EXCEPT !.open = @ \cup {h}]
                 /\ p11.initialized /\ p11.present
                 /\ Others(t) /\ api'[t].pc = pc /\ api'[t].session = h
                 /\ api'[t].url = api[t].url /\ api'[t].create = api[t].create
                 /\ api'[t].quoted = api[t].quoted
            \/ /\ p11' = p11 /\ GivesUp(t)
               /\ ~TokenMayFail => ~(p11.initialized /\ p11.present /\ p11.open # Handles)
  <1>1. api \in [Threads -> Load] /\ api[t] \in Load /\ p11.initialized \in BOOLEAN
        /\ p11.present \in BOOLEAN
    BY DEF ApiInv, ApimoduleTypeOK, Token
  <1> DEFINE cond == p11.initialized /\ p11.present /\ p11.open # Handles
  <1>2. PICK ok \in Outcome(cond) :
          IF ok
            THEN \E h \in Handles \ p11.open :
                   /\ p11' = [p11 EXCEPT !.open = @ \cup {h}]
                   /\ api' = [api EXCEPT ![t].pc = pc, ![t].session = h]
            ELSE api' = NoToken(t) /\ UNCHANGED p11
    BY DEF session_call
  <1>3. (ok => cond) /\ (~ok /\ ~TokenMayFail => ~cond) /\ ok \in BOOLEAN /\ cond \in BOOLEAN
    BY <1>1, <1>2 DEF Outcome
  <1>4. CASE ok
    <2>1. PICK h \in Handles \ p11.open :
            /\ p11' = [p11 EXCEPT !.open = @ \cup {h}]
            /\ api' = [api EXCEPT ![t].pc = pc, ![t].session = h]
      BY <1>2, <1>4
    <2>2. /\ Others(t) /\ api'[t].pc = pc /\ api'[t].session = h
          /\ api'[t].url = api[t].url /\ api'[t].create = api[t].create
          /\ api'[t].quoted = api[t].quoted
      BY <1>1, <2>1 DEF Others, Load
    <2> QED BY <1>3, <1>4, <2>1, <2>2 DEF session_call, history
  <1>5. CASE ~ok
    BY <1>2, <1>3, <1>5, NoTokenEffect DEF session_call, history
  <1> QED BY <1>3, <1>4, <1>5

LEMMA LogoutCallEffect ==
  ASSUME ApiInv, NEW t \in Threads, NEW pc \in ApiPcs, logout_call(t, pc)
  PROVE  /\ UNCHANGED <<token_hash, atokens, preload_keys_flag, agent, openings, crashed>>
         /\ p11' = p11 \/ p11' = LoggedOut(p11)
         /\ MovesTo(t, pc)
  BY GoesEffect DEF logout_call, history, Outcome

LEMMA LoggedOutFields ==
  ASSUME NEW p \in Token
  PROVE  /\ LoggedOut(p).initialized = p.initialized /\ LoggedOut(p).present = p.present
         /\ LoggedOut(p).pin = p.pin /\ LoggedOut(p).login = "none"
         /\ LoggedOut(p).open = p.open /\ LoggedOut(p).searching = p.searching
         /\ LoggedOut(p).generated = p.generated
         /\ LoggedOut(p).pairs = {} /\ LoggedOut(p).swks = {}
         /\ \A o \in Objects : LoggedOut(p).copies[o] \in {0, p.copies[o]}
         /\ ~Finalized(p).initialized /\ Finalized(p).present = p.present
         /\ Finalized(p).pin = p.pin /\ Finalized(p).login = "none"
         /\ Finalized(p).open = {} /\ Finalized(p).searching = {}
         /\ Finalized(p).generated = p.generated
         /\ Finalized(p).pairs = {} /\ Finalized(p).swks = {}
         /\ \A o \in Objects : Finalized(p).copies[o] \in {0, p.copies[o]}
  <1>1. /\ LoggedOut(p).initialized = p.initialized /\ LoggedOut(p).present = p.present
        /\ LoggedOut(p).pin = p.pin /\ LoggedOut(p).login = "none"
        /\ LoggedOut(p).open = p.open /\ LoggedOut(p).searching = p.searching
        /\ LoggedOut(p).generated = p.generated
        /\ LoggedOut(p).pairs = {} /\ LoggedOut(p).swks = {}
    BY DEF LoggedOut, Token
  <1>2. LoggedOut(p).copies = [o \in Objects |-> IF o \in AesObjects THEN 0 ELSE p.copies[o]]
    BY DEF LoggedOut, Token
  <1>3. \A o \in Objects : LoggedOut(p).copies[o] \in {0, p.copies[o]}
    BY <1>2
  <1>4. LoggedOut(p) \in Token
    BY LoggedOutType
  <1> DEFINE q == LoggedOut(p)
  <1>5. Finalized(p) = [q EXCEPT !.initialized = FALSE, !.open = {}, !.searching = {}]
    BY DEF Finalized
  <1> HIDE DEF q
  <1>6. /\ ~Finalized(p).initialized /\ Finalized(p).present = q.present
        /\ Finalized(p).pin = q.pin /\ Finalized(p).login = q.login
        /\ Finalized(p).open = {} /\ Finalized(p).searching = {}
        /\ Finalized(p).generated = q.generated
        /\ Finalized(p).pairs = q.pairs /\ Finalized(p).swks = q.swks
        /\ Finalized(p).copies = q.copies
    BY <1>4, <1>5 DEF Token, q
  <1> QED BY <1>1, <1>3, <1>6 DEF q

-----------------------------------------------------------------------------
(* Steps that leave parts of the invariant alone. *)

\* Entries are never taken out of the table, or given another session.
EntriesStay ==
  /\ Len(atokens) <= Len(atokens') /\ Len(atokens') \in Nat
  /\ \A k \in 1..Len(atokens) :
       atokens'[k].session = atokens[k].session /\ atokens'[k].pin = atokens[k].pin

\* A thread that is not searching goes on.
LEMMA SearchStays ==
  ASSUME ApiInv, SearchInv, NEW t \in Threads, Others(t), EntriesStay,
         p11'.searching \subseteq p11.searching,
         api[t].pc \notin {"findobjects", "findobjectsfinal"}
  PROVE  SearchInv'
  <1> SUFFICES ASSUME ~TokenMayFail, NEW h \in p11'.searching
               PROVE  \E s \in Threads : /\ api'[s].pc \in {"findobjects", "findobjectsfinal"}
                                         /\ h = atokens'[api'[s].atoken].session
    BY DEF SearchInv, SearchesEnd, SessionOf
  <1>1. PICK s \in Threads : /\ api[s].pc \in {"findobjects", "findobjectsfinal"}
                             /\ h = atokens[api[s].atoken].session
    BY DEF SearchInv, SearchesEnd, SessionOf
  <1>2. s # t /\ api'[s] = api[s]
    BY <1>1 DEF Others
  <1>3. api[s].atoken \in 1..Len(atokens)
    BY <1>1 DEF ApiInv, PlaceOK, ApimoduleTypeOK, Load
  <1> QED BY <1>1, <1>2, <1>3 DEF EntriesStay

\* No thread begins to open the token once there is an entry.
LEMMA CountStays ==
  ASSUME ApiInv, CountInv, NEW t \in Threads, Others(t),
         Len(atokens') = Len(atokens), token_hash' = token_hash,
         api'[t].pc \in OpenPcs => api[t].pc \in OpenPcs \/ token_hash = 0
  PROVE  CountInv'
  <1> DEFINE O == {s \in Threads : api[s].pc \in OpenPcs}
             P == {s \in Threads : api'[s].pc \in OpenPcs}
  <1>1. /\ IsFiniteSet(O) /\ IsFiniteSet(P) /\ Cardinality(O) \in Nat /\ Cardinality(P) \in Nat
        /\ Cardinality(Threads) \in Nat /\ Cardinality(P) <= Cardinality(Threads)
    <2>1. O \subseteq Threads /\ P \subseteq Threads
      OBVIOUS
    <2> HIDE DEF O, P
    <2> QED BY <2>1, FS_Subset, FS_CardinalityType
  <1>2. CASE token_hash = 0
    <2>1. Len(atokens) = 0
      BY <1>2 DEF CountInv
    <2> HIDE DEF O
    <2> QED BY <1>1, <1>2, <2>1 DEF CountInv
  <1>3. CASE token_hash # 0
    <2>1. P \subseteq O
      BY <1>3 DEF Others
    <2> HIDE DEF P
    <2>2. Cardinality(P) <= Cardinality(O)
      BY <1>1, <2>1, FS_Subset
    <2>3. Len(atokens) \in Nat /\ Len(atokens) + Cardinality(O) <= Cardinality(Threads)
      BY DEF CountInv, ApiInv, ApimoduleTypeOK
    <2> HIDE DEF O
    <2>4. Len(atokens) + Cardinality(P) <= Cardinality(Threads)
      BY <1>1, <2>2, <2>3
    <2> QED BY <1>3, <2>4 DEF CountInv, P
  <1> QED BY <1>2, <1>3

\* The token is neither opened nor created in the step.
Calm(t) ==
  /\ Others(t) /\ api[t].pc \notin Opening /\ api'[t].pc \notin Opening
  /\ UNCHANGED <<token_hash, openings>> /\ EntriesStay /\ Len(atokens') = Len(atokens)
  /\ UNCHANGED <<p11.present, p11.pin, p11.login, p11.open>>
  /\ p11.initialized => p11'.initialized
  /\ p11'.copies = p11.copies \/ agent.holder = t

LEMMA CalmOnce ==
  ASSUME ApiInv, OnceInv, NEW t \in Threads, Calm(t)
  PROVE  OnceInv'
  <1> SUFFICES ASSUME OpenedOnce  PROVE OnceInv'
    BY DEF OnceInv, OpenedOnce, Calm
  <1>1. \A s \in Threads : api'[s].pc \in Opening => s # t /\ api'[s] = api[s]
    BY DEF Calm, Others
  <1>2. \A s \in Threads : StageOK(api[s])'
    <2> SUFFICES ASSUME NEW s \in Threads  PROVE StageOK(api[s])'
      OBVIOUS
    <2>1. CASE s = t
      BY <2>1 DEF Calm, StageOK, Opening, OpenPcs, CreatingPcs
    <2>2. CASE s # t
      <3>1. api'[s] = api[s] /\ StageOK(api[s])
        BY <2>2 DEF OnceInv, Calm, Others
      <3>2. api[s].pc \in CreatingPcs => p11'.copies = p11.copies
        BY <2>2 DEF ApiInv, PlaceOK, Calm
      <3>3. /\ api[s].pc \in {"inittoken", "opensession_so"} => p11'.open = {}
            /\ api[s].pc \in {"inittoken", "opensession_so", "login_so"} => p11'.login = "none"
            /\ api[s].pc \in {"logout_so", "login_created", "finalize"} =>
                 p11'.pin = PinOf[api[s].url]
            /\ api[s].pc = "finalize" => p11'.login = "user"
            /\ api[s].pc \in {"initialize", "opensession", "logout", "login"} =>
                 p11'.login = "none" \/ (p11'.login = "user" /\ p11'.pin = PinOf[api[s].url])
            /\ api[s].pc \in CreatingPcs \ {"inittoken"} => \A o \in Objects : p11'.copies[o] = 0
        BY <3>1, <3>2 DEF StageOK, Calm
      <3>4. api[s].pc = "cache" => Private(api[s].session)' /\ p11'.pin = PinOf[api[s].url]
        BY <3>1 DEF StageOK, Calm, Private, Open
      <3> QED BY <3>1, <3>3, <3>4 DEF StageOK
    <2> QED BY <2>1, <2>2
  <1>3. token_hash # 0 => /\ Private(atokens[token_hash].session)'
                          /\ atokens'[token_hash].pin = p11'.pin
    <2> SUFFICES ASSUME token_hash # 0
                 PROVE  /\ Private(atokens[token_hash].session)'
                        /\ atokens'[token_hash].pin = p11'.pin
      OBVIOUS
    <2>1. token_hash \in 1..Len(atokens) /\ token_hash' = token_hash
      BY DEF ApiInv, ApimoduleTypeOK, Calm
    <2>2. Private(atokens[token_hash].session) /\ atokens[token_hash].pin = p11.pin
      BY DEF OnceInv
    <2> QED BY <2>1, <2>2 DEF Calm, EntriesStay, Private, Open
  <1>4. /\ \A s, r \in Threads : api'[s].pc \in Opening /\ api'[r].pc \in Opening => s = r
        /\ \A s \in Threads : api'[s].pc \in Opening => token_hash' = 0 /\ openings' = 1
    BY <1>1 DEF OnceInv, Calm
  <1>5. /\ openings' = 0 => token_hash' = 0 /\ p11'.open = {} /\ p11'.login = "none"
        /\ Len(atokens') <= 1
    BY DEF OnceInv, Calm
  <1>6. token_hash' = token_hash
    BY DEF Calm
  <1> QED BY <1>2, <1>3, <1>4, <1>5, <1>6 DEF OnceInv

LEMMA CalmPin ==
  ASSUME ApiInv, PinInv, NEW t \in Threads, Calm(t)
  PROVE  PinInv'
  <1> SUFFICES ASSUME ~TokenMayFail, Handles # {}, OpenedOnce
               PROVE  (\A s \in Threads : PinOK(api[s])') /\ TokenKeepsPin'
    BY DEF PinInv, OpenedOnce, Calm
  <1>1. (\A s \in Threads : PinOK(api[s])) /\ TokenKeepsPin
    BY DEF PinInv
  <1>2. \A s \in Threads : PinOK(api[s])'
    <2> SUFFICES ASSUME NEW s \in Threads  PROVE PinOK(api[s])'
      OBVIOUS
    <2>1. CASE s = t
      BY <2>1 DEF Calm, PinOK, Opening, OpenPcs, CreatingPcs
    <2>2. CASE s # t
      BY <1>1, <2>2 DEF Calm, Others, PinOK, Open
    <2> QED BY <2>1, <2>2
  <1>3. (\A s \in Threads : api'[s].pc \notin CreatingPcs)
          => \A s \in Threads : api[s].pc \notin CreatingPcs
    BY DEF Calm, Others, Opening, OpenPcs, CreatingPcs
  <1>4. TokenKeepsPin'
    BY <1>1, <1>3 DEF TokenKeepsPin, OpenedOnce, Calm
  <1> QED BY <1>2, <1>4

\* A calm step in which no key comes into the token.
Keyless(t) == Calm(t) /\ UNCHANGED <<p11.copies, agent.known, agent.refused>>

\* A keyless step that leaves the wrapping keys alone.
Quiet(t) ==
  /\ Keyless(t) /\ UNCHANGED <<atokens, crashed>>
  /\ UNCHANGED <<p11.generated, p11.pairs, p11.swks, agent.announced>>
  /\ preload_keys_flag' = preload_keys_flag \/ p11'.initialized

LEMMA QuietLibrary ==
  ASSUME ApiInv, LibraryInv, NEW t \in Threads, Quiet(t),
         p11'.searching \subseteq p11.open,
         api'[t].pc \in {"npm", "generate", "quote"} \/ api'[t].create =>
           api'[t].url \notin agent.known
  PROVE  LibraryInv'
  <1>1. p11'.searching \subseteq p11'.open /\ (p11'.initialized \/ p11'.open = {})
    BY DEF LibraryInv, Quiet, Keyless, Calm
  <1>2. ~TokenMayFail /\ preload_keys_flag' /\ ~p11'.initialized =>
          \E s \in Threads : api'[s].pc = "initialize"
    <2> SUFFICES ASSUME ~TokenMayFail, preload_keys_flag', ~p11'.initialized
                 PROVE  \E s \in Threads : api'[s].pc = "initialize"
      OBVIOUS
    <2>1. preload_keys_flag /\ ~p11.initialized
      BY DEF Quiet, Keyless, Calm
    <2>2. PICK s \in Threads : api[s].pc = "initialize"
      BY <2>1 DEF LibraryInv
    <2>3. s # t /\ api'[s] = api[s]
      BY <2>2 DEF Quiet, Keyless, Calm, Others, Opening, OpenPcs, CreatingPcs
    <2> QED BY <2>2, <2>3
  <1>3. /\ p11'.pairs \subseteq 1..p11'.generated /\ p11'.swks \subseteq 1..p11'.generated
        /\ \A o \in Objects : p11'.copies[o] # 0 => p11'.present
        /\ token_hash' # 0 => p11'.present
        /\ agent'.known # {} => token_hash' # 0
    BY DEF LibraryInv, Quiet, Keyless, Calm
  <1>4. ASSUME NEW s \in Threads
        PROVE  /\ api'[s].pc \in Opening \ {"inittoken"} => p11'.present
               /\ api'[s].pc \in {"npm", "generate", "quote"} \/ api'[s].create =>
                    api'[s].url \notin agent'.known
    BY DEF LibraryInv, Quiet, Keyless, Calm, Others
  <1> QED BY <1>1, <1>2, <1>3, <1>4 DEF LibraryInv

LEMMA QuietWrap ==
  ASSUME ApiInv, WrapInv, NEW t \in Threads, Quiet(t),
         api'[t].quoted \in {0, api[t].quoted}, api'[t].pc # "quote"
  PROVE  WrapInv'
  <1> SUFFICES ASSUME OpenedOnce  PROVE WrapInv'
    BY DEF WrapInv, OpenedOnce, Quiet, Keyless, Calm
  <1>1. ASSUME NEW s \in Threads
        PROVE  /\ api'[s].quoted # 0 => /\ api'[s].quoted \in p11'.pairs
                                        /\ atokens'[token_hash'].pair = api'[s].quoted
                                        /\ api'[s].quoted \notin p11'.swks
               /\ api'[s].pc = "quote" => atokens'[token_hash'].pair \notin p11'.swks
    BY DEF WrapInv, Quiet, Keyless, Calm, Others
  <1>2. /\ agent'.announced \in p11'.swks => atokens'[token_hash'].wrappingkey = agent'.announced
        /\ ~crashed'
    BY DEF WrapInv, Quiet, Keyless, Calm
  <1> QED BY <1>1, <1>2 DEF WrapInv

LEMMA KeylessSuccess ==
  ASSUME ApiInv, SuccessInv, NEW t \in Threads, Keyless(t),
         OpenedOnce /\ api'[t].pc \in {"returned", "unlock"} /\ api'[t].ok
             /\ api'[t].url \notin agent.refused =>
           /\ token_hash # 0 /\ api'[t].url \in Urls
           /\ p11.copies[ObjectOf[api'[t].url]] # 0
  PROVE  SuccessInv'
  <1> SUFFICES ASSUME OpenedOnce  PROVE SuccessInv'
    BY DEF SuccessInv, OpenedOnce, Keyless, Calm
  <1>1. \A u \in agent'.known \ agent'.refused : p11'.copies[ObjectOf[u]] # 0
    BY DEF SuccessInv, Keyless
  <1>2. ASSUME NEW s \in Threads, api'[s].pc \in {"returned", "unlock"}, api'[s].ok,
               api'[s].url \notin agent'.refused
        PROVE  /\ token_hash' # 0 /\ api'[s].url \in Urls
               /\ p11'.copies[ObjectOf[api'[s].url]] # 0
    BY <1>2 DEF SuccessInv, Keyless, Calm, Others
  <1> QED BY <1>1, <1>2 DEF SuccessInv

LEMMA KeylessCopies ==
  ASSUME ApiInv, CopiesInv, NEW t \in Threads, Keyless(t),
         ~TokenMayFail /\ OpenedOnce /\ Past(api'[t]) =>
           \/ Past(api[t]) /\ api'[t].url = api[t].url
           \/ api'[t].url \in Urls /\ p11.copies[ObjectOf[api'[t].url]] = 0
  PROVE  CopiesInv'
  <1> SUFFICES ASSUME ~TokenMayFail, OpenedOnce, NEW o \in Objects
               PROVE  \/ p11'.copies[o] <= Cardinality(agent'.known \cap UrisNaming(o))
                      \/ /\ p11'.copies[o] = 1 /\ agent'.known \cap UrisNaming(o) = {}
                         /\ \/ Dead'
                            \/ \A s \in Threads : api'[s].url \in UrisNaming(o) => ~Past(api'[s])
    BY DEF CopiesInv, OpenedOnce, Keyless, Calm, UrisNaming, Past
  <1>1. p11'.copies = p11.copies /\ agent'.known = agent.known
    BY DEF Keyless
  <1>2. CASE p11.copies[o] <= Cardinality(agent.known \cap UrisNaming(o))
    BY <1>1, <1>2
  <1>3. CASE /\ p11.copies[o] = 1 /\ agent.known \cap UrisNaming(o) = {}
             /\ Dead
    BY <1>1, <1>3 DEF Dead, Keyless, Calm, Others
  <1>4. CASE /\ p11.copies[o] = 1 /\ agent.known \cap UrisNaming(o) = {}
             /\ \A s \in Threads : api[s].url \in UrisNaming(o) => ~Past(api[s])
    <2>1. ASSUME NEW s \in Threads, api'[s].url \in UrisNaming(o), Past(api'[s])
          PROVE  FALSE
      <3>1. CASE s = t
        BY <1>4, <2>1, <3>1 DEF UrisNaming
      <3>2. CASE s # t
        BY <1>4, <2>1, <3>2 DEF Keyless, Calm, Others
      <3> QED BY <3>1, <3>2
    <2> QED BY <1>1, <1>4, <2>1
  <1> QED BY <1>2, <1>3, <1>4 DEF CopiesInv

-----------------------------------------------------------------------------
(* Opening the token.  As long as it was opened once, the thread that opens it *)
(* is alone with it: no other thread has a session, a search or a challenge.   *)

LEMMA Alone ==
  ASSUME ApiInv, SessionInv, OpenedOnce, NEW t \in Threads, api[t].pc \in Opening
  PROVE  /\ token_hash = 0 /\ openings = 1 /\ agent.known = {} /\ agent.announced = 0
         /\ Len(atokens) = 0
         /\ \A s \in Threads \ {t} : api[s].pc \notin Opening
         /\ \A s \in Threads : api[s].quoted = 0 /\ api[s].pc # "quote"
         /\ \A s \in Threads : api[s].pc \in {"returned", "unlock"} /\ api[s].ok =>
              api[s].url \in agent.refused
         /\ StageOK(api[t]) /\ ~crashed
         /\ ~TokenMayFail /\ Handles # {} =>
              /\ PinOK(api[t])
              /\ api[t].pc \notin CreatingPcs /\ p11.present => p11.pin # NoPin
  <1>1. token_hash = 0 /\ openings = 1 /\ StageOK(api[t])
        /\ \A s \in Threads \ {t} : api[s].pc \notin Opening
    BY DEF SessionInv, OnceInv
  <1>2. agent.known = {} /\ Len(atokens) = 0 /\ ~crashed
    BY <1>1 DEF SessionInv, LibraryInv, CountInv, WrapInv
  <1>3. agent.announced = 0 /\ \A s \in Threads : api[s].quoted = 0 /\ api[s].pc # "quote"
    BY <1>1 DEF ApiInv, PlaceOK
  <1>4. \A s \in Threads : api[s].pc \in {"returned", "unlock"} /\ api[s].ok =>
          api[s].url \in agent.refused
    BY <1>1 DEF SessionInv, SuccessInv
  <1>5. ASSUME ~TokenMayFail, Handles # {}
        PROVE  /\ PinOK(api[t])
               /\ api[t].pc \notin CreatingPcs /\ p11.present => p11.pin # NoPin
    <2>1. PinOK(api[t]) /\ TokenKeepsPin
      BY <1>5 DEF SessionInv, PinInv
    <2>2. \A s \in Threads \ {t} : api[s].pc \notin CreatingPcs
      BY <1>1 DEF Opening, OpenPcs, CreatingPcs
    <2> QED BY <2>1, <2>2 DEF TokenKeepsPin
  <1> QED BY <1>1, <1>2, <1>3, <1>4, <1>5

\* A step of t while it opens the token, with which it goes on or gives up.
OpeningStep(t) ==
  /\ api[t].pc \in Opening /\ Others(t) /\ api'[t].url = api[t].url
  /\ \/ api'[t].pc \in Opening /\ api'[t].create = api[t].create
     \/ api'[t].pc \in {"unlock", "lock"} /\ ~api'[t].ok /\ ~api'[t].create
  /\ api'[t].quoted \in {0, api[t].quoted}
  /\ UNCHANGED <<token_hash, atokens, agent, openings, crashed>>
  /\ p11'.searching \subseteq p11.searching /\ p11'.searching \subseteq p11'.open
  /\ p11'.generated = p11.generated
  /\ p11'.pairs \subseteq p11.pairs /\ p11'.swks \subseteq p11.swks
  /\ p11.present => p11'.present
  /\ \A o \in Objects : p11'.copies[o] \in {0, p11.copies[o]}
  /\ p11'.initialized \/ p11'.open = {}
  /\ \/ p11'.initialized
     \/ api'[t].pc = "initialize"
     \/ /\ ~p11.initialized /\ preload_keys_flag' = preload_keys_flag
        /\ TokenMayFail \/ api[t].pc # "initialize"

LEMMA OpeningLibrary ==
  ASSUME ApiInv, LibraryInv, NEW t \in Threads, OpeningStep(t),
         api'[t].pc \in Opening \ {"inittoken"} => p11'.present
  PROVE  LibraryInv'
  <1>1. p11'.searching \subseteq p11'.open /\ (p11'.initialized \/ p11'.open = {})
    BY DEF OpeningStep
  <1>2. ~TokenMayFail /\ preload_keys_flag' /\ ~p11'.initialized =>
          \E s \in Threads : api'[s].pc = "initialize"
    <2> SUFFICES ASSUME ~TokenMayFail, preload_keys_flag', ~p11'.initialized, api'[t].pc # "initialize"
                 PROVE  \E s \in Threads : api'[s].pc = "initialize"
      OBVIOUS
    <2>1. preload_keys_flag /\ ~p11.initialized /\ api[t].pc # "initialize"
      BY DEF OpeningStep
    <2>2. PICK s \in Threads : api[s].pc = "initialize"
      BY <2>1 DEF LibraryInv
    <2> QED BY <2>1, <2>2 DEF OpeningStep, Others
  <1>3. p11'.pairs \subseteq 1..p11'.generated /\ p11'.swks \subseteq 1..p11'.generated
    BY DEF LibraryInv, OpeningStep
  <1>4. \A o \in Objects : p11'.copies[o] # 0 => p11'.present
    BY DEF LibraryInv, OpeningStep
  <1>5. /\ token_hash' # 0 => p11'.present
        /\ agent'.known # {} => token_hash' # 0
    BY DEF LibraryInv, OpeningStep
  <1>6. ASSUME NEW s \in Threads, s # t
        PROVE  /\ api'[s].pc \in Opening \ {"inittoken"} => p11'.present
               /\ api'[s].pc \in {"npm", "generate", "quote"} \/ api'[s].create =>
                    api'[s].url \notin agent'.known
    BY <1>6 DEF LibraryInv, OpeningStep, Others
  <1>7. api'[t].pc \in {"npm", "generate", "quote"} \/ api'[t].create =>
          api'[t].url \notin agent'.known
    BY DEF LibraryInv, OpeningStep, Opening, OpenPcs, CreatingPcs
  <1> QED BY <1>1, <1>2, <1>3, <1>4, <1>5, <1>6, <1>7 DEF LibraryInv

LEMMA OpeningOnce ==
  ASSUME ApiInv, SessionInv, NEW t \in Threads, OpeningStep(t),
         OpenedOnce => StageOK(api[t])'
  PROVE  OnceInv'
  <1> SUFFICES ASSUME OpenedOnce  PROVE OnceInv'
    BY DEF OnceInv, OpenedOnce, OpeningStep
  <1>1. /\ token_hash' = 0 /\ openings' = 1 /\ Len(atokens') = 0
        /\ \A s \in Threads \ {t} : api'[s] = api[s] /\ api'[s].pc \notin Opening
    BY Alone DEF OpeningStep, Others
  <1>2. \A s \in Threads \ {t} : StageOK(api[s])'
    BY <1>1 DEF StageOK, Opening, OpenPcs, CreatingPcs
  <1> QED BY <1>1, <1>2 DEF OnceInv

LEMMA OpeningPin ==
  ASSUME ApiInv, SessionInv, NEW t \in Threads, OpeningStep(t),
         ~TokenMayFail /\ Handles # {} /\ OpenedOnce =>
           /\ PinOK(api[t])'
           /\ api'[t].pc \notin CreatingPcs /\ p11'.present => p11'.pin # NoPin
  PROVE  PinInv'
  <1> SUFFICES ASSUME ~TokenMayFail, Handles # {}, OpenedOnce
               PROVE  (\A s \in Threads : PinOK(api[s])') /\ TokenKeepsPin'
    BY DEF PinInv, OpenedOnce, OpeningStep
  <1>1. \A s \in Threads \ {t} : api'[s].pc \notin Opening
    BY Alone DEF OpeningStep, Others
  <1>2. \A s \in Threads \ {t} : PinOK(api[s])'
    BY <1>1 DEF PinOK, Opening, OpenPcs, CreatingPcs
  <1> QED BY <1>2 DEF TokenKeepsPin

LEMMA OpeningWrap ==
  ASSUME ApiInv, SessionInv, LibraryInv', NEW t \in Threads, OpeningStep(t)
  PROVE  WrapInv'
  <1> SUFFICES ASSUME OpenedOnce  PROVE WrapInv'
    BY DEF WrapInv, OpenedOnce, OpeningStep
  <1>1. /\ agent'.announced = 0 /\ ~crashed'
        /\ \A s \in Threads : api'[s].quoted = 0 /\ api'[s].pc # "quote"
    BY Alone DEF OpeningStep, Others, Opening, OpenPcs, CreatingPcs
  <1>2. p11.generated \in Nat /\ 0 \notin p11'.swks
    BY DEF LibraryInv, OpeningStep, ApiInv, ApimoduleTypeOK, Token
  <1> QED BY <1>1, <1>2 DEF WrapInv

LEMMA OpeningSuccess ==
  ASSUME ApiInv, SessionInv, NEW t \in Threads, OpeningStep(t)
  PROVE  SuccessInv'
  <1> SUFFICES ASSUME OpenedOnce  PROVE SuccessInv'
    BY DEF SuccessInv, OpenedOnce, OpeningStep
  <1>1. /\ agent'.known = {}
        /\ \A s \in Threads : api'[s].pc \in {"returned", "unlock"} /\ api'[s].ok =>
             api'[s].url \in agent'.refused
    BY Alone DEF OpeningStep, Others, Opening, OpenPcs, CreatingPcs
  <1> QED BY <1>1 DEF SuccessInv

LEMMA OpeningCopies ==
  ASSUME ApiInv, SessionInv, NEW t \in Threads, OpeningStep(t)
  PROVE  CopiesInv'
  <1> SUFFICES ASSUME ~TokenMayFail, OpenedOnce, NEW o \in Objects
               PROVE  \/ p11'.copies[o] <= Cardinality(agent'.known \cap UrisNaming(o))
                      \/ /\ p11'.copies[o] = 1 /\ agent'.known \cap UrisNaming(o) = {}
                         /\ \/ Dead'
                            \/ \A s \in Threads : api'[s].url \in UrisNaming(o) => ~Past(api'[s])
    BY DEF CopiesInv, OpenedOnce, OpeningStep, UrisNaming, Past
  <1>1. /\ agent'.known = {} /\ token_hash' = 0 /\ openings' = 1
        /\ \A s \in Threads \ {t} : api'[s].pc \notin Opening
        /\ ~Dead
    BY Alone DEF OpeningStep, Others, Dead
  <1>2. agent'.known \cap UrisNaming(o) = {} /\ Cardinality(agent'.known \cap UrisNaming(o)) = 0
    BY <1>1, FS_EmptySet
  <1>3. CASE p11'.copies[o] = 0
    BY <1>2, <1>3
  <1>4. CASE p11'.copies[o] # 0
    <2>1. p11'.copies[o] = p11.copies[o] /\ p11.copies[o] # 0 /\ p11.copies[o] \in Nat
      BY <1>4 DEF OpeningStep, ApiInv, ApimoduleTypeOK, Token
    <2>2. ~(p11.copies[o] <= Cardinality(agent.known \cap UrisNaming(o)))
      BY <1>2, <2>1 DEF OpeningStep
    <2>3. /\ p11.copies[o] = 1
          /\ \A s \in Threads : api[s].url \in UrisNaming(o) => ~Past(api[s])
      BY <1>1, <2>2 DEF SessionInv, CopiesInv
    <2>4. CASE api'[t].pc \notin Opening
      BY <1>1, <1>2, <2>1, <2>3, <2>4 DEF Dead
    <2>5. CASE api'[t].pc \in Opening
      <3>1. Past(api'[t]) => Past(api[t])
        BY <2>5 DEF Past, OpeningStep, Opening, OpenPcs, CreatingPcs
      <3>2. \A s \in Threads : api'[s].url \in UrisNaming(o) => ~Past(api'[s])
        BY <2>3, <3>1 DEF OpeningStep, Others
      <3> QED BY <1>2, <2>1, <2>3, <3>2
    <2> QED BY <2>4, <2>5
  <1> QED BY <1>3, <1>4

LEMMA OpeningKeeps ==
  ASSUME ApiInv, SessionInv, NEW t \in Threads, OpeningStep(t),
         api'[t].pc \in Opening \ {"inittoken"} => p11'.present,
         OpenedOnce => StageOK(api[t])',
         ~TokenMayFail /\ Handles # {} /\ OpenedOnce =>
           /\ PinOK(api[t])'
           /\ api'[t].pc \notin CreatingPcs /\ p11'.present => p11'.pin # NoPin
  PROVE  SessionInv'
  <1>1. LibraryInv'
    BY OpeningLibrary DEF SessionInv
  <1>2. EntriesStay /\ Len(atokens') = Len(atokens)
    BY DEF OpeningStep, EntriesStay, ApiInv, ApimoduleTypeOK
  <1>3. SearchInv'
    BY <1>2, SearchStays DEF SessionInv, OpeningStep, Opening, OpenPcs, CreatingPcs
  <1>4. CountInv'
    BY <1>2, CountStays DEF SessionInv, OpeningStep, Opening
  <1>5. OnceInv' /\ PinInv'
    BY OpeningOnce, OpeningPin
  <1>6. WrapInv' /\ SuccessInv' /\ CopiesInv'
    BY <1>1, OpeningWrap, OpeningSuccess, OpeningCopies
  <1> QED BY <1>1, <1>3, <1>4, <1>5, <1>6 DEF SessionInv

\* Giving up is never the end of a token without a user pin.
LEMMA GivesUpKeeps ==
  ASSUME ApiInv, SessionInv, NEW t \in Threads, api[t].pc \in Opening, GivesUp(t),
         UNCHANGED <<token_hash, atokens, preload_keys_flag, p11, agent, openings, crashed>>,
         ~TokenMayFail /\ Handles # {} /\ OpenedOnce =>
           api[t].pc \notin {"opensession_so", "login_so", "initpin"},
         api[t].pc # "initialize"
  PROVE  SessionInv'
  <1>1. /\ Others(t) /\ api'[t].url = api[t].url /\ api'[t].pc \in {"unlock", "lock"}
        /\ ~api'[t].ok /\ ~api'[t].create /\ api'[t].quoted = 0
    BY DEF GivesUp, Leaves
  <1>2. OpeningStep(t)
    BY <1>1 DEF OpeningStep, SessionInv, LibraryInv
  <1>3. StageOK(api[t])' /\ PinOK(api[t])'
    BY <1>1 DEF StageOK, PinOK, CreatingPcs
  <1>4. ASSUME ~TokenMayFail, Handles # {}, OpenedOnce, p11'.present
        PROVE  p11'.pin # NoPin
    <2>1. /\ PinOK(api[t])
          /\ api[t].pc \notin CreatingPcs /\ p11.present => p11.pin # NoPin
      BY <1>4, Alone
    <2>2. api[t].pc # "inittoken"
      BY <1>4 DEF ApiInv, PlaceOK
    <2> QED BY <1>4, <2>1, <2>2 DEF PinOK, CreatingPcs
  <1> QED BY <1>1, <1>2, <1>3, <1>4, OpeningKeeps DEF Opening, OpenPcs, CreatingPcs

\* What OpeningStep says of the token, for a record that keeps most of it.
LEMMA TokenKeeps ==
  ASSUME ApiInv, SessionInv, NEW t \in Threads, api[t].pc \in Opening, NEW pc \in Opening,
         MovesTo(t, pc), api[t].pc # "initialize",
         UNCHANGED <<token_hash, atokens, preload_keys_flag, agent, openings, crashed>>,
         UNCHANGED <<p11.initialized, p11.present, p11.open, p11.searching, p11.generated>>,
         p11'.pairs \subseteq p11.pairs, p11'.swks \subseteq p11.swks,
         \A o \in Objects : p11'.copies[o] \in {0, p11.copies[o]}
  PROVE  OpeningStep(t)
  BY DEF OpeningStep, MovesTo, Keeps, SessionInv, LibraryInv

LEMMA InittokenSession ==
  ASSUME ApiInv, SessionInv, NEW t \in Threads, inittoken(t)
  PROVE  SessionInv'
  <1>1. /\ api[t].pc = "inittoken" /\ p11 \in Token
        /\ UNCHANGED <<token_hash, atokens, preload_keys_flag, agent, openings, crashed>>
    BY DEF inittoken, In, ApiInv, ApimoduleTypeOK
  <1>2. PICK ok \in Outcome(p11.initialized /\ p11.open = {}) :
          /\ p11' = IF ok THEN [p11 EXCEPT !.present = TRUE, !.pin = NoPin,
                                           !.copies = [o \in Objects |-> 0]]
                    ELSE p11
          /\ api' = IF ok THEN Goes(t, "opensession_so") ELSE NoToken(t)
    BY DEF inittoken
  <1>3. (ok => p11.initialized /\ p11.open = {}) /\ ok \in BOOLEAN
    BY <1>1, <1>2 DEF Outcome, Token
  <1>4. CASE ok
    <2>1. /\ UNCHANGED <<p11.initialized, p11.login, p11.open, p11.searching, p11.generated,
                         p11.pairs, p11.swks>>
          /\ p11'.present /\ p11'.copies = [o \in Objects |-> 0]
      BY <1>1, <1>2, <1>4 DEF Token
    <2>2. MovesTo(t, "opensession_so")
      BY <1>2, <1>4, GoesEffect DEF ApiPcs
    <2>3. OpeningStep(t)
      BY <1>1, <2>1, <2>2 DEF OpeningStep, MovesTo, Keeps, SessionInv, LibraryInv,
                               Opening, OpenPcs, CreatingPcs
    <2>4. OpenedOnce => StageOK(api[t])'
      BY <1>1, <1>3, <1>4, <2>1, <2>2, Alone DEF StageOK, MovesTo, Opening, OpenPcs, CreatingPcs
    <2>5. PinOK(api[t])' /\ api'[t].pc \in CreatingPcs
      BY <1>3, <1>4, <2>1, <2>2 DEF PinOK, MovesTo, CreatingPcs
    <2> QED BY <2>1, <2>3, <2>4, <2>5, OpeningKeeps
  <1>5. CASE ~ok
    <2>1. GivesUp(t) /\ p11' = p11
      BY <1>2, <1>5, NoTokenEffect
    <2> QED BY <1>1, <2>1, GivesUpKeeps DEF Opening, OpenPcs, CreatingPcs
  <1> QED BY <1>3, <1>4, <1>5

LEMMA OpensessionSession ==
  ASSUME ApiInv, SessionInv, NEW t \in Threads, opensession_so(t) \/ opensession(t)
  PROVE  SessionInv'
  <1> DEFINE pc == IF api[t].pc = "opensession_so" THEN "login_so" ELSE "logout"
  <1>1. /\ api[t].pc \in {"opensession_so", "opensession"} /\ p11 \in Token
        /\ session_call(t, pc)
    BY DEF opensession_so, opensession, In, ApiInv, ApimoduleTypeOK
  <1>2. pc \in ApiPcs /\ pc \in Opening /\ api[t].pc \in Opening
    BY <1>1 DEF ApiPcs, Opening, OpenPcs, CreatingPcs
  <1>3. /\ api[t].pc = "opensession_so" => pc = "login_so"
        /\ api[t].pc = "opensession" => pc = "logout"
    OBVIOUS
  <1> HIDE DEF pc
  <1>4. UNCHANGED <<token_hash, atokens, preload_keys_flag, agent, openings, crashed>>
    BY <1>1, <1>2, SessionCallEffect
  <1>5. ASSUME NEW h \in Handles, p11' = [p11 EXCEPT !.open = @ \cup {h}],
               p11.initialized, p11.present,
               Others(t), api'[t].pc = pc, api'[t].session = h,
               api'[t].url = api[t].url, api'[t].create = api[t].create,
               api'[t].quoted = api[t].quoted
        PROVE  SessionInv'
    <2>1. /\ UNCHANGED <<p11.initialized, p11.present, p11.login, p11.pin, p11.searching,
                         p11.generated, p11.pairs, p11.swks, p11.copies>>
          /\ p11'.open = p11.open \cup {h}
      BY <1>1, <1>5 DEF Token
    <2>2. OpeningStep(t)
      BY <1>2, <1>4, <1>5, <2>1 DEF OpeningStep, SessionInv, LibraryInv
    <2>3. OpenedOnce => StageOK(api[t])'
      BY <1>1, <1>2, <1>3, <1>5, <2>1, Alone DEF StageOK, CreatingPcs
    <2>4. PinOK(api[t])'
      BY <1>1, <1>3, <1>5, <2>1 DEF PinOK, Open
    <2>5. ~TokenMayFail /\ Handles # {} /\ OpenedOnce =>
            (api'[t].pc \notin CreatingPcs /\ p11'.present => p11'.pin # NoPin)
      BY <1>1, <1>2, <1>3, <1>5, <2>1, Alone DEF CreatingPcs
    <2> QED BY <1>5, <2>1, <2>2, <2>3, <2>4, <2>5, OpeningKeeps
  <1>6. ASSUME p11' = p11, GivesUp(t),
               ~TokenMayFail => ~(p11.initialized /\ p11.present /\ p11.open # Handles)
        PROVE  SessionInv'
    <2>1. ~TokenMayFail /\ Handles # {} /\ OpenedOnce => api[t].pc # "opensession_so"
      <3> SUFFICES ASSUME ~TokenMayFail, Handles # {}, OpenedOnce, api[t].pc = "opensession_so"
                   PROVE  FALSE
        OBVIOUS
      <3>1. p11.initialized /\ p11.open = {}
        BY <1>2, Alone DEF PinOK, StageOK
      <3>2. p11.present
        BY <1>2 DEF SessionInv, LibraryInv
      <3> QED BY <1>6, <3>1, <3>2
    <2> QED BY <1>1, <1>2, <1>4, <1>6, <2>1, GivesUpKeeps
  <1> QED BY <1>1, <1>2, <1>5, <1>6, SessionCallEffect

LEMMA LoginSoSession ==
  ASSUME ApiInv, SessionInv, NEW t \in Threads, login_so(t)
  PROVE  SessionInv'
  <1> DEFINE cond == Open(api[t].session) /\ p11.login # "user"
             p    == [p11 EXCEPT !.login = "so"]
  <1>1. /\ api[t].pc = "login_so" /\ p11 \in Token /\ cond \in BOOLEAN
        /\ token_call(t, cond, p, "initpin") /\ "initpin" \in ApiPcs
        /\ api[t].pc \in Opening /\ "initpin" \in Opening
    BY DEF login_so, In, ApiInv, ApimoduleTypeOK, Open, Token, ApiPcs,
           Opening, OpenPcs, CreatingPcs
  <1>2. /\ p.initialized = p11.initialized /\ p.present = p11.present /\ p.open = p11.open
        /\ p.searching = p11.searching /\ p.generated = p11.generated /\ p.pairs = p11.pairs
        /\ p.swks = p11.swks /\ p.copies = p11.copies /\ p.pin = p11.pin /\ p.login = "so"
    BY <1>1 DEF Token
  <1> HIDE DEF cond, p
  <1>3. UNCHANGED <<token_hash, atokens, preload_keys_flag, agent, openings, crashed>>
    BY <1>1, TokenCallEffect
  <1>4. CASE cond /\ p11' = p /\ MovesTo(t, "initpin")
    <2>1. OpeningStep(t)
      BY <1>1, <1>2, <1>3, <1>4, TokenKeeps
    <2>2. OpenedOnce => StageOK(api[t])'
      BY <1>1, <1>2, <1>4, Alone DEF StageOK, MovesTo, Keeps, CreatingPcs
    <2>3. PinOK(api[t])' /\ api'[t].pc \in CreatingPcs
      BY <1>1, <1>2, <1>4 DEF PinOK, MovesTo, Keeps, Open, CreatingPcs, cond
    <2>4. p11'.present
      BY <1>1, <1>2, <1>4 DEF SessionInv, LibraryInv
    <2> QED BY <2>1, <2>2, <2>3, <2>4, OpeningKeeps
  <1>5. CASE p11' = p11 /\ GivesUp(t) /\ (~TokenMayFail => ~cond)
    <2>1. ~(~TokenMayFail /\ Handles # {} /\ OpenedOnce)
      <3> SUFFICES ASSUME ~TokenMayFail, Handles # {}, OpenedOnce  PROVE FALSE
        OBVIOUS
      <3>1. Open(api[t].session) /\ p11.login = "none"
        BY <1>1, Alone DEF PinOK, StageOK
      <3> QED BY <1>5, <3>1 DEF cond
    <2> QED BY <1>1, <1>3, <1>5, <2>1, GivesUpKeeps
  <1> QED BY <1>1, <1>4, <1>5, TokenCallEffect

LEMMA InitpinSession ==
  ASSUME ApiInv, SessionInv, NEW t \in Threads, initpin(t)
  PROVE  SessionInv'
  <1> DEFINE cond == Open(api[t].session) /\ p11.login = "so"
             p    == [p11 EXCEPT !.pin = PinOf[api[t].url]]
  <1>1. /\ api[t].pc = "initpin" /\ p11 \in Token /\ cond \in BOOLEAN
        /\ token_call(t, cond, p, "logout_so") /\ "logout_so" \in ApiPcs
        /\ api[t].pc \in Opening /\ "logout_so" \in Opening
    BY DEF initpin, In, ApiInv, ApimoduleTypeOK, Open, Token, ApiPcs,
           Opening, OpenPcs, CreatingPcs
  <1>2. /\ p.initialized = p11.initialized /\ p.present = p11.present /\ p.open = p11.open
        /\ p.searching = p11.searching /\ p.generated = p11.generated /\ p.pairs = p11.pairs
        /\ p.swks = p11.swks /\ p.copies = p11.copies /\ p.pin = PinOf[api[t].url]
    BY <1>1 DEF Token
  <1>a. PinOf[api[t].url] # NoPin
    BY <1>1 DEF ApiInv, PlaceOK
  <1> HIDE DEF cond, p
  <1>3. UNCHANGED <<token_hash, atokens, preload_keys_flag, agent, openings, crashed>>
    BY <1>1, TokenCallEffect
  <1>4. CASE cond /\ p11' = p /\ MovesTo(t, "logout_so")
    <2>1. OpeningStep(t)
      BY <1>1, <1>2, <1>3, <1>4, TokenKeeps
    <2>2. OpenedOnce => StageOK(api[t])'
      BY <1>1, <1>2, <1>4, Alone DEF StageOK, MovesTo, Keeps, CreatingPcs
    <2>3. PinOK(api[t])' /\ api'[t].pc \in CreatingPcs
      BY <1>1, <1>2, <1>a, <1>4 DEF PinOK, MovesTo, CreatingPcs
    <2>4. p11'.present
      BY <1>1, <1>2, <1>4 DEF SessionInv, LibraryInv
    <2> QED BY <2>1, <2>2, <2>3, <2>4, OpeningKeeps
  <1>5. CASE p11' = p11 /\ GivesUp(t) /\ (~TokenMayFail => ~cond)
    <2>1. ~(~TokenMayFail /\ Handles # {} /\ OpenedOnce)
      BY <1>1, <1>5, Alone DEF PinOK, cond
    <2> QED BY <1>1, <1>3, <1>5, <2>1, GivesUpKeeps
  <1> QED BY <1>1, <1>4, <1>5, TokenCallEffect

\* C_Login as the user, of a token just created or of one that was there.
LEMMA LoginSession ==
  ASSUME ApiInv, SessionInv, NEW t \in Threads, login_created(t) \/ login(t)
  PROVE  SessionInv'
  <1> DEFINE cond == CanLogin(api[t].session, api[t].url)
             p    == [p11 EXCEPT !.login = "user"]
             pc   == IF api[t].pc = "login_created" THEN "finalize" ELSE "cache"
  <1>1. /\ api[t].pc \in {"login_created", "login"} /\ p11 \in Token /\ cond \in BOOLEAN
        /\ token_call(t, cond, p, pc) /\ pc \in ApiPcs
        /\ api[t].pc \in Opening /\ pc \in Opening
    BY DEF login_created, login, In, ApiInv, ApimoduleTypeOK, CanLogin, Open, Token, ApiPcs,
           Opening, OpenPcs, CreatingPcs
  <1>2. /\ p.initialized = p11.initialized /\ p.present = p11.present /\ p.open = p11.open
        /\ p.searching = p11.searching /\ p.generated = p11.generated /\ p.pairs = p11.pairs
        /\ p.swks = p11.swks /\ p.copies = p11.copies /\ p.pin = p11.pin /\ p.login = "user"
    BY <1>1 DEF Token
  <1>a. /\ api[t].pc = "login_created" => pc = "finalize"
        /\ api[t].pc = "login" => pc = "cache"
    OBVIOUS
  <1> HIDE DEF cond, p, pc
  <1>3. UNCHANGED <<token_hash, atokens, preload_keys_flag, agent, openings, crashed>>
    BY <1>1, TokenCallEffect
  <1>4. CASE cond /\ p11' = p /\ MovesTo(t, pc)
    <2>1. OpeningStep(t)
      BY <1>1, <1>2, <1>3, <1>4, TokenKeeps
    <2>2. OpenedOnce => StageOK(api[t])'
      <3> SUFFICES ASSUME OpenedOnce  PROVE StageOK(api[t])'
        OBVIOUS
      <3>1. StageOK(api[t])
        BY <1>1, Alone
      <3>2. CASE api[t].pc = "login_created"
        BY <1>2, <1>a, <1>4, <3>1, <3>2 DEF StageOK, MovesTo, Keeps, CreatingPcs
      <3>3. CASE api[t].pc = "login"
        <4>1. Open(api[t].session) /\ p11.pin = PinOf[api[t].url]
          BY <1>4, <3>1, <3>3 DEF cond, CanLogin, StageOK
        <4>2. api'[t].pc = "cache" /\ api'[t].session = api[t].session
              /\ api'[t].url = api[t].url
          BY <1>a, <1>4, <3>3 DEF MovesTo, Keeps
        <4>3. Private(api[t].session)' /\ p11'.pin = PinOf[api'[t].url]
          BY <1>2, <1>4, <4>1, <4>2 DEF Private, Open
        <4> QED BY <4>2, <4>3 DEF StageOK, CreatingPcs
      <3> QED BY <1>1, <3>2, <3>3
    <2>3. ~TokenMayFail /\ Handles # {} /\ OpenedOnce =>
            /\ PinOK(api[t])'
            /\ api'[t].pc \notin CreatingPcs /\ p11'.present => p11'.pin # NoPin
      BY <1>1, <1>2, <1>a, <1>4, Alone DEF PinOK, MovesTo, CreatingPcs
    <2>4. p11'.present
      BY <1>1, <1>2, <1>4 DEF SessionInv, LibraryInv
    <2> QED BY <2>1, <2>2, <2>3, <2>4, OpeningKeeps
  <1>5. CASE p11' = p11 /\ GivesUp(t) /\ (~TokenMayFail => ~cond)
    BY <1>1, <1>3, <1>5, GivesUpKeeps
  <1> QED BY <1>1, <1>4, <1>5, TokenCallEffect

LEMMA LogoutSession ==
  ASSUME ApiInv, SessionInv, NEW t \in Threads, logout_so(t) \/ logout(t)
  PROVE  SessionInv'
  <1> DEFINE pc == IF api[t].pc = "logout_so" THEN "login_created" ELSE "login"
  <1>1. /\ api[t].pc \in {"logout_so", "logout"} /\ p11 \in Token
        /\ logout_call(t, pc) /\ pc \in ApiPcs
        /\ api[t].pc \in Opening /\ pc \in Opening
    BY DEF logout_so, logout, In, ApiInv, ApimoduleTypeOK, ApiPcs, Opening, OpenPcs, CreatingPcs
  <1>2. /\ api[t].pc = "logout_so" => pc = "login_created"
        /\ api[t].pc = "logout" => pc = "login"
    OBVIOUS
  <1> HIDE DEF pc
  <1>3. /\ UNCHANGED <<token_hash, atokens, preload_keys_flag, agent, openings, crashed>>
        /\ p11' = p11 \/ p11' = LoggedOut(p11)
        /\ MovesTo(t, pc)
    BY <1>1, LogoutCallEffect
  <1>4. /\ UNCHANGED <<p11.initialized, p11.present, p11.open, p11.searching, p11.generated>>
        /\ p11'.pin = p11.pin /\ p11'.login \in {"none", p11.login}
        /\ p11'.pairs \subseteq p11.pairs /\ p11'.swks \subseteq p11.swks
        /\ \A o \in Objects : p11'.copies[o] \in {0, p11.copies[o]}
    BY <1>1, <1>3, LoggedOutFields
  <1>5. OpeningStep(t)
    BY <1>1, <1>3, <1>4, TokenKeeps
  <1>6. OpenedOnce => StageOK(api[t])'
    BY <1>1, <1>2, <1>3, <1>4, Alone DEF StageOK, MovesTo, Keeps, CreatingPcs
  <1>7. ~TokenMayFail /\ Handles # {} /\ OpenedOnce =>
          /\ PinOK(api[t])'
          /\ api'[t].pc \notin CreatingPcs /\ p11'.present => p11'.pin # NoPin
    BY <1>1, <1>2, <1>3, <1>4, Alone DEF PinOK, MovesTo, CreatingPcs
  <1>8. p11'.present
    BY <1>1, <1>4 DEF SessionInv, LibraryInv
  <1> QED BY <1>5, <1>6, <1>7, <1>8, OpeningKeeps

LEMMA FinalizeSession ==
  ASSUME ApiInv, SessionInv, NEW t \in Threads, finalize(t)
  PROVE  SessionInv'
  <1> DEFINE closed(q) == [q EXCEPT !.open = @ \ {api[t].session},
                                    !.searching = @ \ {api[t].session}]
  <1>1. /\ api[t].pc = "finalize" /\ p11 \in Token
        /\ \/ p11' = Finalized(p11)
           \/ \E q \in {p11, LoggedOut(p11)} : p11' \in {q, closed(q)}
        /\ UNCHANGED <<token_hash, atokens, preload_keys_flag, agent, openings, crashed>>
        /\ api[t].pc \in Opening /\ "initialize" \in Opening
    BY DEF finalize, In, history, ApiInv, ApimoduleTypeOK, Opening, OpenPcs, CreatingPcs
  <1>2. MovesTo(t, "initialize")
    BY GoesEffect DEF finalize, ApiPcs
  <1>3. /\ p11'.present = p11.present /\ p11'.pin = p11.pin
        /\ p11'.login \in {"none", p11.login} /\ p11'.generated = p11.generated
        /\ p11'.searching \subseteq p11.searching /\ p11'.searching \subseteq p11'.open
        /\ p11'.initialized \/ p11'.open = {}
        /\ p11'.pairs \subseteq p11.pairs /\ p11'.swks \subseteq p11.swks
        /\ \A o \in Objects : p11'.copies[o] \in {0, p11.copies[o]}
    <2>1. p11.searching \subseteq p11.open /\ (p11.initialized \/ p11.open = {})
      BY DEF SessionInv, LibraryInv
    <2>2. CASE p11' = Finalized(p11)
      BY <1>1, <2>2, LoggedOutFields
    <2>3. ASSUME NEW q \in {p11, LoggedOut(p11)}, p11' \in {q, closed(q)}
          PROVE  <1>3
      <3>1. /\ q \in Token /\ q.present = p11.present /\ q.pin = p11.pin
            /\ q.login \in {"none", p11.login} /\ q.generated = p11.generated
            /\ q.initialized = p11.initialized /\ q.open = p11.open
            /\ q.searching = p11.searching
            /\ q.pairs \subseteq p11.pairs /\ q.swks \subseteq p11.swks
            /\ \A o \in Objects : q.copies[o] \in {0, p11.copies[o]}
        BY <1>1, LoggedOutFields, LoggedOutType
      <3>2. /\ p11'.present = q.present /\ p11'.pin = q.pin /\ p11'.login = q.login
            /\ p11'.generated = q.generated /\ p11'.initialized = q.initialized
            /\ p11'.pairs = q.pairs /\ p11'.swks = q.swks /\ p11'.copies = q.copies
            /\ \/ p11'.open = q.open /\ p11'.searching = q.searching
               \/ /\ p11'.open = q.open \ {api[t].session}
                  /\ p11'.searching = q.searching \ {api[t].session}
        <4>1. /\ closed(q).present = q.present /\ closed(q).pin = q.pin
              /\ closed(q).login = q.login /\ closed(q).generated = q.generated
              /\ closed(q).initialized = q.initialized
              /\ closed(q).pairs = q.pairs /\ closed(q).swks = q.swks
              /\ closed(q).copies = q.copies
              /\ closed(q).open = q.open \ {api[t].session}
              /\ closed(q).searching = q.searching \ {api[t].session}
          BY <3>1 DEF Token
        <4> HIDE DEF closed
        <4> QED BY <2>3, <4>1
      <3> QED BY <2>1, <3>1, <3>2
    <2> HIDE DEF closed
    <2> QED BY <1>1, <2>2, <2>3
  <1>4. OpeningStep(t)
    BY <1>1, <1>2, <1>3 DEF OpeningStep, MovesTo, Keeps
  <1>5. OpenedOnce => StageOK(api[t])'
    BY <1>1, <1>2, <1>3, Alone DEF StageOK, MovesTo, Keeps, CreatingPcs
  <1>6. ~TokenMayFail /\ Handles # {} /\ OpenedOnce => PinOK(api[t])'
    BY <1>1, <1>2, <1>3, Alone DEF PinOK, MovesTo
  <1>7. api'[t].pc \in CreatingPcs /\ p11'.present
    BY <1>1, <1>2, <1>3 DEF MovesTo, CreatingPcs, SessionInv, LibraryInv
  <1> QED BY <1>4, <1>5, <1>6, <1>7, OpeningKeeps

LEMMA InitializeSession ==
  ASSUME ApiInv, SessionInv, NEW t \in Threads, initialize(t)
  PROVE  SessionInv'
  <1>1. /\ api[t].pc = "initialize" /\ p11 \in Token /\ preload_keys_flag \in BOOLEAN
        /\ \/ p11' = [p11 EXCEPT !.initialized = TRUE]
           \/ p11' = p11 /\ TokenMayFail /\ preload_keys_flag' = preload_keys_flag
        /\ UNCHANGED <<token_hash, atokens, agent, openings, crashed>>
        /\ api[t].pc \in Opening /\ "opensession" \in Opening
    BY DEF initialize, Outcome, In, history, ApiInv, ApimoduleTypeOK, Opening, OpenPcs,
           CreatingPcs
  <1>2. MovesTo(t, "opensession")
    <2>1. preload_keys_flag
      BY <1>1 DEF ApiInv, PlaceOK
    <2> QED BY <2>1, GoesEffect DEF initialize, ApiPcs
  <1>3. /\ \/ p11'.initialized
           \/ /\ ~p11.initialized /\ TokenMayFail
              /\ preload_keys_flag' = preload_keys_flag
        /\ UNCHANGED <<p11.present, p11.pin, p11.login, p11.open, p11.searching, p11.generated,
                       p11.pairs, p11.swks, p11.copies>>
    BY <1>1 DEF Token
  <1>4. OpeningStep(t)
    BY <1>1, <1>2, <1>3 DEF OpeningStep, MovesTo, Keeps, SessionInv, LibraryInv
  <1>5. OpenedOnce => StageOK(api[t])'
    BY <1>1, <1>2, <1>3, Alone DEF StageOK, MovesTo, Keeps, CreatingPcs
  <1>6. ~TokenMayFail /\ Handles # {} /\ OpenedOnce =>
          PinOK(api[t])' /\ p11'.pin # NoPin
    BY <1>1, <1>2, <1>3, Alone DEF PinOK, MovesTo
  <1>7. p11'.present
    BY <1>1, <1>3 DEF SessionInv, LibraryInv, Opening
  <1> QED BY <1>4, <1>5, <1>6, <1>7, OpeningKeeps

\* Nothing of the token's state is lost when the entry is cached.
LEMMA CacheSession ==
  ASSUME ApiInv, SessionInv, NEW t \in Threads, cache_token(t)
  PROVE  SessionInv'
  <1> DEFINE k == [pin |-> PinOf[api[t].url], session |-> api[t].session,
                   pair |-> 0, challenge |-> 0, wrappingkey |-> 0]
             n == Len(atokens) + 1
             O == {s \in Threads : api[s].pc \in OpenPcs}
  <1>1. /\ api[t].pc = "cache" /\ api[t] \in Load /\ api \in [Threads -> Load]
        /\ atokens \in Seq(AToken) /\ Len(atokens) \in Nat /\ p11 \in Token
        /\ PlaceOK(t, api[t]) /\ api[t].pc \in Opening
    BY DEF cache_token, In, ApiInv, ApimoduleTypeOK, Opening, OpenPcs, CreatingPcs
  <1>2. k.session = api[t].session /\ k.pin = PinOf[api[t].url] /\ k \in AToken
    <2>1. api[t].url \in Urls /\ api[t].session \in Handles /\ 0 \in 0..MaxPairs
      BY <1>1 DEF PlaceOK
    <2> QED BY <2>1 DEF AToken
  <1>3. /\ atokens' = Append(atokens, k)
        /\ UNCHANGED <<preload_keys_flag, p11, agent, openings, crashed>>
        /\ token_hash' = Len(atokens')
        /\ api' = [api EXCEPT ![t].atoken = Len(atokens'),
                        ![t].pc = IF api[t].create THEN "generate" ELSE "findobjectsinit"]
    BY DEF cache_token, cached_session, history
  <1> HIDE DEF k
  <1>4. /\ Len(atokens') = n /\ token_hash' = n /\ atokens'[n] = k
        /\ \A i \in 1..Len(atokens) : atokens'[i] = atokens[i]
    BY <1>1, <1>2, <1>3
  <1>5. /\ Others(t) /\ api'[t].pc \in {"generate", "findobjectsinit"}
        /\ api'[t].pc = "generate" <=> api[t].create
        /\ api'[t].url = api[t].url /\ api'[t].create = api[t].create
        /\ api'[t].quoted = api[t].quoted
    BY <1>1, <1>3 DEF Others, Load
  <1>6. LibraryInv'
    <2>1. p11.present /\ (api[t].create => api[t].url \notin agent.known)
      BY <1>1 DEF SessionInv, LibraryInv
    <2>2. ~TokenMayFail /\ preload_keys_flag' /\ ~p11'.initialized =>
            \E s \in Threads : api'[s].pc = "initialize"
      BY <1>1, <1>3, <1>5 DEF SessionInv, LibraryInv, Others
    <2>3. \A s \in Threads :
            /\ api'[s].pc \in Opening \ {"inittoken"} => p11'.present
            /\ api'[s].pc \in {"npm", "generate", "quote"} \/ api'[s].create =>
                 api'[s].url \notin agent'.known
      BY <1>3, <1>5, <2>1 DEF SessionInv, LibraryInv, Others
    <2>4. /\ p11'.searching \subseteq p11'.open /\ (p11'.initialized \/ p11'.open = {})
          /\ p11'.pairs \subseteq 1..p11'.generated /\ p11'.swks \subseteq 1..p11'.generated
          /\ \A o \in Objects : p11'.copies[o] # 0 => p11'.present
      BY <1>3 DEF SessionInv, LibraryInv
    <2> QED BY <1>3, <1>1, <1>4, <2>1, <2>2, <2>3, <2>4 DEF LibraryInv
  <1>7. SearchInv'
    <2>1. EntriesStay
      BY <1>1, <1>4 DEF EntriesStay
    <2> QED BY <1>1, <1>3, <1>5, <2>1, SearchStays DEF SessionInv
  <1>8. CountInv'
    <2>1. {s \in Threads : api'[s].pc \in OpenPcs} = O \ {t} /\ t \in O
      BY <1>1, <1>5 DEF Others, OpenPcs, CreatingPcs
    <2>2. IsFiniteSet(O) /\ Cardinality(O) \in Nat /\ Cardinality(Threads) \in Nat
      <3>1. O \subseteq Threads
        OBVIOUS
      <3> HIDE DEF O
      <3> QED BY <3>1, FS_Subset, FS_CardinalityType
    <2>3. Len(atokens) + Cardinality(O) <= Cardinality(Threads)
      BY DEF SessionInv, CountInv
    <2> HIDE DEF O
    <2>4. Cardinality(O \ {t}) = Cardinality(O) - 1
      BY <2>1, <2>2, FS_RemoveElement
    <2>5. Len(atokens') + Cardinality(O \ {t}) <= Cardinality(Threads)
      BY <1>1, <1>4, <2>2, <2>3, <2>4
    <2>6. token_hash' # 0
      BY <1>1, <1>4
    <2> QED BY <2>1, <2>5, <2>6 DEF CountInv
  <1>9. OnceInv'
    <2> SUFFICES ASSUME OpenedOnce  PROVE OnceInv'
      BY <1>3 DEF OnceInv, OpenedOnce
    <2>1. openings = 1 /\ Len(atokens) = 0 /\ StageOK(api[t])
          /\ \A s \in Threads \ {t} : api[s].pc \notin Opening
      BY <1>1, Alone
    <2>2. \A s \in Threads : api'[s].pc \notin Opening
      BY <1>5, <2>1 DEF Others, Opening, OpenPcs, CreatingPcs
    <2>3. \A s \in Threads : StageOK(api[s])'
      BY <2>2 DEF StageOK, Opening, OpenPcs, CreatingPcs
    <2>4. Private(api[t].session) /\ p11.pin = PinOf[api[t].url]
      BY <1>1, <2>1 DEF StageOK
    <2>5. atokens'[token_hash'] = k /\ Len(atokens') <= 1
      BY <1>4, <2>1
    <2>6. /\ atokens'[token_hash'].session = api[t].session
          /\ atokens'[token_hash'].pin = p11.pin
      BY <1>2, <2>4, <2>5
    <2>7. p11' = p11
      BY <1>3
    <2>8. Private(atokens[token_hash].session)' /\ atokens'[token_hash'].pin = p11'.pin
      BY <2>4, <2>6, <2>7 DEF Private, Open
    <2>9. openings' # 0
      BY <1>3, <2>1
    <2>10. \A s \in Threads : api'[s].pc \in Opening => FALSE
      BY <2>2
    <2> QED BY <2>3, <2>5, <2>8, <2>9, <2>10 DEF OnceInv
  <1>10. PinInv'
    <2> SUFFICES ASSUME ~TokenMayFail, Handles # {}, OpenedOnce
                 PROVE  (\A s \in Threads : PinOK(api[s])') /\ TokenKeepsPin'
      BY <1>3 DEF PinInv, OpenedOnce
    <2>1. /\ \A s \in Threads \ {t} : api[s].pc \notin Opening
          /\ p11.present => p11.pin # NoPin
      BY <1>1, Alone DEF CreatingPcs
    <2>2. \A s \in Threads : api'[s].pc \notin Opening
      BY <1>5, <2>1 DEF Others, Opening, OpenPcs, CreatingPcs
    <2>3. \A s \in Threads : PinOK(api[s])'
      BY <2>2 DEF PinOK, Opening, OpenPcs, CreatingPcs
    <2> QED BY <1>3, <2>1, <2>3 DEF TokenKeepsPin
  <1>11. WrapInv' /\ SuccessInv'
    <2> SUFFICES ASSUME OpenedOnce  PROVE WrapInv' /\ SuccessInv'
      BY <1>3 DEF WrapInv, SuccessInv, OpenedOnce
    <2>1. /\ agent'.announced = 0 /\ agent'.known = {} /\ ~crashed'
          /\ \A s \in Threads : api'[s].quoted = 0 /\ api'[s].pc # "quote"
          /\ \A s \in Threads : api'[s].pc \in {"returned", "unlock"} /\ api'[s].ok =>
               api'[s].url \in agent'.refused
      BY <1>1, <1>3, <1>5, Alone DEF Others
    <2>2. 0 \notin p11'.swks
      BY <1>1, <1>3 DEF SessionInv, LibraryInv, Token
    <2> QED BY <2>1, <2>2 DEF WrapInv, SuccessInv
  <1>12. CopiesInv'
    <2> SUFFICES ASSUME ~TokenMayFail, OpenedOnce, NEW o \in Objects
                 PROVE  \/ p11'.copies[o] <= Cardinality(agent'.known \cap UrisNaming(o))
                        \/ /\ p11'.copies[o] = 1 /\ agent'.known \cap UrisNaming(o) = {}
                           /\ \/ Dead'
                              \/ \A s \in Threads : api'[s].url \in UrisNaming(o) => ~Past(api'[s])
      BY <1>3 DEF CopiesInv, OpenedOnce, UrisNaming, Past
    <2>1. ~Dead
      BY <1>1 DEF Dead
    <2>2. Past(api'[t]) => Past(api[t])
      BY <1>5 DEF Past
    <2>3. (\A s \in Threads : api[s].url \in UrisNaming(o) => ~Past(api[s]))
            => \A s \in Threads : api'[s].url \in UrisNaming(o) => ~Past(api'[s])
      BY <1>5, <2>2 DEF Others
    <2> QED BY <1>3, <2>1, <2>3 DEF SessionInv, CopiesInv
  <1> QED BY <1>6, <1>7, <1>8, <1>9, <1>10, <1>11, <1>12 DEF SessionInv

-----------------------------------------------------------------------------
(* Beginning, searching and ending a load. *)

LEMMA QuietKeeps ==
  ASSUME ApiInv, SessionInv, NEW t \in Threads, Quiet(t), SearchInv',
         p11'.searching \subseteq p11.open,
         api'[t].pc = "findtoken" => api[t].pc \in OpenPcs \/ token_hash = 0,
         api'[t].pc \in {"npm", "generate", "quote"} \/ api'[t].create =>
           api'[t].url \notin agent.known,
         api'[t].quoted \in {0, api[t].quoted}, api'[t].pc # "quote",
         OpenedOnce /\ api'[t].pc \in {"returned", "unlock"} /\ api'[t].ok
             /\ api'[t].url \notin agent.refused =>
           /\ token_hash # 0 /\ api'[t].url \in Urls
           /\ p11.copies[ObjectOf[api'[t].url]] # 0,
         ~TokenMayFail /\ OpenedOnce /\ Past(api'[t]) =>
           \/ Past(api[t]) /\ api'[t].url = api[t].url
           \/ api'[t].url \in Urls /\ p11.copies[ObjectOf[api'[t].url]] = 0
  PROVE  SessionInv'
  <1>1. Keyless(t) /\ Calm(t)
    BY DEF Quiet, Keyless
  <1>2. LibraryInv' /\ WrapInv'
    BY QuietLibrary, QuietWrap DEF SessionInv
  <1>3. SuccessInv'
    BY <1>1, KeylessSuccess DEF SessionInv
  <1>4. CopiesInv'
    BY <1>1, KeylessCopies DEF SessionInv
  <1>5. OnceInv' /\ PinInv'
    BY <1>1, CalmOnce, CalmPin DEF SessionInv
  <1>6. CountInv'
    <2>1. api'[t].pc \in OpenPcs => api[t].pc \in OpenPcs \/ token_hash = 0
      BY <1>1 DEF Calm, Opening
    <2> QED BY <1>1, <2>1, CountStays DEF SessionInv, Calm
  <1> QED BY <1>2, <1>3, <1>4, <1>5, <1>6 DEF SessionInv

\* A step that changes nothing but where t is, t being neither opening the token
\* nor searching.
LEMMA PlainKeeps ==
  ASSUME ApiInv, SessionInv, NEW t \in Threads, Others(t),
         api[t].pc \notin Opening \cup {"findobjects", "findobjectsfinal"},
         api'[t].pc \notin Opening \cup {"quote"},
         UNCHANGED <<token_hash, atokens, p11, openings, crashed>>,
         UNCHANGED <<preload_keys_flag, agent.known, agent.refused, agent.announced>>,
         api'[t].pc = "findtoken" => api[t].pc \in OpenPcs \/ token_hash = 0,
         api'[t].pc \in {"npm", "generate", "quote"} \/ api'[t].create =>
           api'[t].url \notin agent.known,
         api'[t].quoted \in {0, api[t].quoted},
         OpenedOnce /\ api'[t].pc \in {"returned", "unlock"} /\ api'[t].ok
             /\ api'[t].url \notin agent.refused =>
           /\ token_hash # 0 /\ api'[t].url \in Urls
           /\ p11.copies[ObjectOf[api'[t].url]] # 0,
         ~TokenMayFail /\ OpenedOnce /\ Past(api'[t]) =>
           \/ Past(api[t]) /\ api'[t].url = api[t].url
           \/ api'[t].url \in Urls /\ p11.copies[ObjectOf[api'[t].url]] = 0
  PROVE  SessionInv'
  <1>1. EntriesStay /\ Len(atokens') = Len(atokens)
    BY DEF EntriesStay, ApiInv, ApimoduleTypeOK
  <1>2. Quiet(t)
    BY <1>1 DEF Quiet, Keyless, Calm
  <1>3. SearchInv' /\ p11'.searching \subseteq p11.open
    BY <1>1, SearchStays DEF SessionInv, LibraryInv
  <1>4. api'[t].pc # "quote"
    OBVIOUS
  <1> QED BY <1>2, <1>3, <1>4, QuietKeeps

LEMMA InitialiseSession ==
  ASSUME ApiInv, SessionInv, NEW t \in Threads, C_Initialize(t)
  PROVE  SessionInv'
  <1>1. /\ api \in [Threads -> Load] /\ api[t] \in Load /\ p11 \in Token
        /\ api[t].pc \in {"idle", "returned"} /\ PlaceOK(t, api[t])
    BY DEF ApiInv, ApimoduleTypeOK, C_Initialize, Outside
  <1>2. /\ UNCHANGED <<token_hash, atokens, agent, openings, crashed>>
        /\ p11' = [p11 EXCEPT !.initialized = TRUE]
        /\ api' = IF preload_keys_flag THEN api ELSE [api EXCEPT ![t].todo = PreloadFile]
    BY DEF C_Initialize, history
  <1>3. /\ p11'.initialized
        /\ UNCHANGED <<p11.present, p11.pin, p11.login, p11.open, p11.searching, p11.generated,
                       p11.pairs, p11.swks, p11.copies>>
    BY <1>1, <1>2 DEF Token
  <1>4. Others(t) /\ api'[t].pc = api[t].pc /\ Keeps(api[t], api'[t])
    BY <1>1, <1>2 DEF Others, Keeps, Load
  <1>5. EntriesStay /\ Len(atokens') = Len(atokens)
    BY <1>2 DEF EntriesStay, ApiInv, ApimoduleTypeOK
  <1>6. Quiet(t)
    BY <1>1, <1>2, <1>3, <1>4, <1>5 DEF Quiet, Keyless, Calm, Opening, OpenPcs, CreatingPcs
  <1>7. SearchInv' /\ p11'.searching \subseteq p11.open
    BY <1>1, <1>3, <1>4, <1>5, SearchStays DEF SessionInv, LibraryInv
  <1>8. OpenedOnce /\ api'[t].pc \in {"returned", "unlock"} /\ api'[t].ok
            /\ api'[t].url \notin agent.refused =>
          /\ token_hash # 0 /\ api'[t].url \in Urls
          /\ p11.copies[ObjectOf[api'[t].url]] # 0
    BY <1>4 DEF SessionInv, SuccessInv, Keeps
  <1>9. ~Past(api'[t]) /\ ~api'[t].create
    BY <1>1, <1>4 DEF Past, PlaceOK, Keeps, OpenPcs, CreatingPcs
  <1>10. api'[t].quoted \in {0, api[t].quoted}
    BY <1>4 DEF Keeps
  <1> QED BY <1>1, <1>4, <1>6, <1>7, <1>8, <1>9, <1>10, QuietKeeps

LEMMA KeyLoadSession ==
  ASSUME ApiInv, SessionInv, NEW t \in Threads, NEW u \in Urls, C_OnDemand_KeyLoad(t, u)
  PROVE  SessionInv'
  <1>1. /\ api \in [Threads -> Load] /\ api[t].pc \in {"idle", "returned"}
        /\ api[t].todo \in Seq(Urls)
        /\ UNCHANGED <<token_hash, atokens, preload_keys_flag, p11, agent, openings, crashed>>
    BY DEF ApiInv, ApimoduleTypeOK, Load, C_OnDemand_KeyLoad, Outside, history
  <1> DEFINE f  == Fresh(u, api[t].todo)
             pc == IF token_hash = 0 THEN "findtoken" ELSE "findobjectsinit"
             l  == [f EXCEPT !.pc = pc, !.atoken = token_hash]
  <1>2. f \in Load /\ ~f.create /\ f.quoted = 0 /\ ~f.ok
    BY <1>1, FreshType DEF Fresh
  <1>3. api' = [api EXCEPT ![t] = l]
    BY DEF C_OnDemand_KeyLoad
  <1>4. pc \in {"findtoken", "findobjectsinit"} /\ (pc = "findtoken" => token_hash = 0)
    OBVIOUS
  <1> HIDE DEF f, pc
  <1>5. /\ l.pc = pc /\ ~l.create /\ l.quoted = 0
    BY <1>2 DEF Load
  <1> HIDE DEF l
  <1>6. api'[t] = l /\ Others(t)
    BY <1>1, <1>3 DEF Others
  <1>7. /\ api'[t].pc \in {"findtoken", "findobjectsinit"} /\ ~api'[t].create
        /\ api'[t].quoted = 0 /\ (api'[t].pc = "findtoken" => token_hash = 0)
    BY <1>4, <1>5, <1>6
  <1>8. ~Past(api'[t])
    BY <1>7 DEF Past
  <1>9. /\ api[t].pc \notin Opening \cup {"findobjects", "findobjectsfinal"}
        /\ api'[t].pc \notin Opening \cup {"quote"}
    BY <1>1, <1>7 DEF Opening, OpenPcs, CreatingPcs
  <1>10. UNCHANGED <<agent.known, agent.refused, agent.announced>>
    BY <1>1
  <1> QED BY <1>1, <1>6, <1>7, <1>8, <1>9, <1>10, PlainKeeps

\* findtoken counts the opening that goes on: the first one finds no other.
LEMMA FindtokenSession ==
  ASSUME ApiInv, SessionInv, NEW t \in Threads, findtoken(t)
  PROVE  SessionInv'
  <1>1. /\ api[t].pc = "findtoken" /\ PlaceOK(t, api[t]) /\ p11 \in Token /\ openings \in 0..2
        /\ UNCHANGED <<token_hash, atokens, preload_keys_flag, p11, agent, crashed>>
        /\ Len(atokens) \in Nat
    BY DEF ApiInv, ApimoduleTypeOK, findtoken, In
  <1>a. EntriesStay /\ Len(atokens') = Len(atokens)
    BY <1>1 DEF EntriesStay, ApiInv, ApimoduleTypeOK
  <1>2. PICK ok \in Outcome(p11.initialized) :
          LET goes_on == ok /\ (p11.present \/ may_create(t))
          IN /\ api' = IF goes_on
                         THEN Goes(t, IF p11.present THEN "opensession" ELSE "inittoken")
                         ELSE NoToken(t)
             /\ openings' = IF goes_on /\ openings < 2 THEN openings + 1 ELSE openings
    BY DEF findtoken
  <1>3. ok \in BOOLEAN /\ (~ok /\ ~TokenMayFail => ~p11.initialized)
    BY <1>1, <1>2 DEF Outcome, Token
  <1>4. CASE ok /\ (p11.present \/ api[t].create)
    <2> DEFINE pc == IF p11.present THEN "opensession" ELSE "inittoken"
    <2>1. pc \in {"opensession", "inittoken"} /\ (pc = "opensession" => p11.present)
      OBVIOUS
    <2>2. api' = Goes(t, pc) /\ openings' = IF openings < 2 THEN openings + 1 ELSE openings
      BY <1>2, <1>4 DEF may_create
    <2> HIDE DEF pc
    <2>3. MovesTo(t, pc)
      BY <2>1, <2>2, GoesEffect DEF ApiPcs
    <2>4. /\ Others(t) /\ api'[t].pc = pc /\ api'[t].create = api[t].create
          /\ api'[t].url = api[t].url /\ api'[t].quoted = api[t].quoted
      BY <2>3 DEF MovesTo, Keeps
    <2>5. OpenedOnce' => openings = 0 /\ openings' = 1
      BY <1>1, <2>2 DEF OpenedOnce
    <2>6. OpenedOnce' => /\ token_hash = 0 /\ p11.open = {} /\ p11.login = "none"
                         /\ OpenedOnce /\ Len(atokens) = 0 /\ agent.known = {}
                         /\ \A s \in Threads : api[s].pc \notin Opening
      BY <2>5 DEF SessionInv, OnceInv, OpenedOnce, CountInv, LibraryInv
    <2>7. LibraryInv'
      <3>1. \A s \in Threads :
              /\ api'[s].pc \in Opening \ {"inittoken"} => p11'.present
              /\ api'[s].pc \in {"npm", "generate", "quote"} \/ api'[s].create =>
                   api'[s].url \notin agent'.known
        BY <1>1, <2>1, <2>4 DEF SessionInv, LibraryInv, Others
      <3>2. ~TokenMayFail /\ preload_keys_flag' /\ ~p11'.initialized =>
              \E s \in Threads : api'[s].pc = "initialize"
        BY <1>1, <2>4 DEF SessionInv, LibraryInv, Others
      <3> QED BY <1>1, <3>1, <3>2 DEF SessionInv, LibraryInv
    <2>8. SearchInv' /\ CountInv'
      <3>1. SearchInv'
        BY <1>1, <1>a, <2>4, SearchStays DEF SessionInv
      <3>2. CountInv'
        BY <1>1, <1>a, <2>4, CountStays DEF SessionInv, OpenPcs
      <3> QED BY <3>1, <3>2
    <2>9. OnceInv'
      <3> SUFFICES ASSUME OpenedOnce'  PROVE OnceInv'
        BY DEF OnceInv
      <3>1. \A s \in Threads \ {t} : api'[s].pc \notin Opening
        BY <2>4, <2>6 DEF Others
      <3>2. \A s \in Threads : StageOK(api[s])'
        <4>1. \A s \in Threads \ {t} : StageOK(api[s])'
          BY <3>1 DEF StageOK, Opening, OpenPcs, CreatingPcs
        <4>2. StageOK(api[t])'
          BY <1>1, <2>1, <2>4, <2>6 DEF StageOK, CreatingPcs
        <4> QED BY <4>1, <4>2
      <3>3. openings' = 1 /\ token_hash' = 0 /\ Len(atokens') <= 1
        BY <1>1, <2>5, <2>6
      <3> QED BY <3>1, <3>2, <3>3 DEF OnceInv
    <2>10. PinInv'
      <3> SUFFICES ASSUME ~TokenMayFail, Handles # {}, OpenedOnce'
                   PROVE  (\A s \in Threads : PinOK(api[s])') /\ TokenKeepsPin'
        BY DEF PinInv
      <3>1. \A s \in Threads \ {t} : api'[s].pc \notin Opening
        BY <2>4, <2>6 DEF Others
      <3>2. \A s \in Threads : PinOK(api[s])'
        BY <2>1, <2>4, <3>1 DEF PinOK, Opening, OpenPcs, CreatingPcs
      <3>3. TokenKeepsPin /\ \A s \in Threads : api[s].pc \notin CreatingPcs
        BY <2>6 DEF SessionInv, PinInv, Opening, OpenPcs, CreatingPcs
      <3> QED BY <1>1, <2>6, <3>2, <3>3 DEF TokenKeepsPin
    <2>11. WrapInv' /\ SuccessInv'
      <3> SUFFICES ASSUME OpenedOnce'  PROVE WrapInv' /\ SuccessInv'
        BY DEF WrapInv, SuccessInv
      <3>1. \A s \in Threads : api'[s].quoted = 0 /\ api'[s].pc # "quote"
        BY <2>1, <2>4, <2>6 DEF Others, ApiInv, PlaceOK
      <3>2. agent.announced = 0 /\ 0 \notin p11.swks /\ ~crashed
        BY <1>1, <2>6 DEF ApiInv, SessionInv, LibraryInv, WrapInv, Token
      <3>3. \A s \in Threads : api'[s].pc \in {"returned", "unlock"} /\ api'[s].ok =>
              api'[s].url \in agent.refused
        BY <2>1, <2>4, <2>6 DEF Others, SessionInv, SuccessInv
      <3> QED BY <1>1, <2>6, <3>1, <3>2, <3>3 DEF WrapInv, SuccessInv
    <2>12. CopiesInv'
      <3> SUFFICES ASSUME ~TokenMayFail, OpenedOnce', NEW o \in Objects
                   PROVE  \/ p11'.copies[o] <= Cardinality(agent'.known \cap UrisNaming(o))
                          \/ /\ p11'.copies[o] = 1 /\ agent'.known \cap UrisNaming(o) = {}
                             /\ \/ Dead'
                                \/ \A s \in Threads : api'[s].url \in UrisNaming(o) => ~Past(api'[s])
        BY DEF CopiesInv, UrisNaming, Past
      <3>1. ~Dead
        BY <2>5 DEF Dead
      <3>2. Past(api'[t]) => Past(api[t])
        BY <2>1, <2>4 DEF Past
      <3>3. (\A s \in Threads : api[s].url \in UrisNaming(o) => ~Past(api[s]))
              => \A s \in Threads : api'[s].url \in UrisNaming(o) => ~Past(api'[s])
        BY <2>4, <3>2 DEF Others
      <3> QED BY <1>1, <2>6, <3>1, <3>3 DEF SessionInv, CopiesInv
    <2> QED BY <2>7, <2>8, <2>9, <2>10, <2>11, <2>12 DEF SessionInv
  <1>5. CASE ~(ok /\ (p11.present \/ api[t].create))
    <2>1. GivesUp(t) /\ openings' = openings
      BY <1>2, <1>5, NoTokenEffect DEF may_create
    <2>2. /\ Others(t) /\ api'[t].url = api[t].url /\ api'[t].pc \in {"unlock", "lock"}
          /\ ~api'[t].ok /\ ~api'[t].create /\ api'[t].quoted = 0
          /\ api'[t].pc = "lock" <=> ~api[t].create
      BY <2>1 DEF GivesUp, Leaves
    \* Without the token, or while it is being created, no key is in it.
    <2>3. ~TokenMayFail /\ OpenedOnce /\ Past(api'[t]) =>
            \/ Past(api[t]) /\ api'[t].url = api[t].url
            \/ api'[t].url \in Urls /\ p11.copies[ObjectOf[api'[t].url]] = 0
      <3> SUFFICES ASSUME ~TokenMayFail, OpenedOnce, ~api[t].create
                   PROVE  api[t].url \in Urls /\ p11.copies[ObjectOf[api[t].url]] = 0
        BY <2>2 DEF Past
      <3>1. api[t].url \in Urls /\ preload_keys_flag /\ ObjectOf[api[t].url] \in Objects
        BY <1>1 DEF PlaceOK
      <3>2. CASE ~p11.present
        BY <3>1, <3>2 DEF SessionInv, LibraryInv
      <3>3. CASE ~p11.initialized
        <4>1. PICK s \in Threads : api[s].pc = "initialize"
          BY <3>1, <3>3 DEF SessionInv, LibraryInv
        <4>2. StageOK(api[s])
          BY DEF SessionInv, OnceInv
        <4> QED BY <3>1, <4>1, <4>2 DEF StageOK, CreatingPcs
      <3> QED BY <1>3, <1>5, <3>2, <3>3
    <2>4. /\ api[t].pc \notin Opening \cup {"findobjects", "findobjectsfinal"}
          /\ api'[t].pc \notin Opening \cup {"quote"}
      BY <1>1, <2>2 DEF Opening, OpenPcs, CreatingPcs
    <2>5. UNCHANGED <<agent.known, agent.refused, agent.announced>>
      BY <1>1
    <2> QED BY <1>1, <2>1, <2>2, <2>3, <2>4, <2>5, PlainKeeps
  <1> QED BY <1>4, <1>5

\* A step of a search: only the session's search changes, and SearchInv is shown
\* for each by itself.
LEMMA FindKeeps ==
  ASSUME ApiInv, SessionInv, NEW t \in Threads, Others(t), SearchInv',
         api[t].pc \in {"findobjectsinit", "findobjects", "findobjectsfinal"},
         api'[t].pc \in {"findobjects", "findobjectsfinal", "returned", "lock"},
         UNCHANGED <<token_hash, atokens, preload_keys_flag, agent, openings, crashed>>,
         UNCHANGED <<p11.initialized, p11.present, p11.pin, p11.login, p11.open>>,
         UNCHANGED <<p11.generated, p11.pairs, p11.swks, p11.copies>>,
         p11'.searching \subseteq p11.open,
         api'[t].url = api[t].url, ~api'[t].create, api'[t].quoted = 0,
         api'[t].pc = "returned" /\ api'[t].ok => p11.copies[ObjectOf[api'[t].url]] # 0,
         ~TokenMayFail /\ OpenedOnce /\ Past(api'[t]) =>
           \/ Past(api[t])
           \/ p11.copies[ObjectOf[api'[t].url]] = 0
  PROVE  SessionInv'
  <1>1. PlaceOK(t, api[t]) /\ EntriesStay /\ Len(atokens') = Len(atokens)
    BY DEF EntriesStay, ApiInv, ApimoduleTypeOK
  <1>2. api[t].url \in Urls /\ token_hash # 0
    BY <1>1 DEF PlaceOK
  <1>3. Calm(t)
    BY <1>1 DEF Calm, Opening, OpenPcs, CreatingPcs
  <1>4. UNCHANGED <<agent.known, agent.refused, agent.announced>>
    OBVIOUS
  <1>5. Quiet(t)
    BY <1>3, <1>4 DEF Quiet, Keyless
  <1>6. ~TokenMayFail /\ OpenedOnce /\ Past(api'[t]) =>
          \/ Past(api[t]) /\ api'[t].url = api[t].url
          \/ api'[t].url \in Urls /\ p11.copies[ObjectOf[api'[t].url]] = 0
    BY <1>2
  <1>7. OpenedOnce /\ api'[t].pc \in {"returned", "unlock"} /\ api'[t].ok
            /\ api'[t].url \notin agent.refused =>
          /\ token_hash # 0 /\ api'[t].url \in Urls
          /\ p11.copies[ObjectOf[api'[t].url]] # 0
    BY <1>2
  <1> QED BY <1>5, <1>6, <1>7, QuietKeeps

\* The entry a search uses is the table's, as long as there is only one.
LEMMA SearchedEntry ==
  ASSUME ApiInv, SessionInv, NEW t \in Threads,
         api[t].pc \in {"findobjectsinit", "findobjects", "findobjectsfinal"}
  PROVE  /\ api[t].url \in Urls /\ token_hash # 0 /\ ~api[t].create /\ api[t].quoted = 0
         /\ OpenedOnce => Private(SessionOf(t))
  <1>1. /\ api[t] \in Load /\ PlaceOK(t, api[t]) /\ Len(atokens) \in Nat
        /\ token_hash \in 0..Len(atokens)
    BY DEF ApiInv, ApimoduleTypeOK
  <1>2. /\ api[t].url \in Urls /\ token_hash # 0 /\ ~api[t].create /\ api[t].quoted = 0
        /\ api[t].atoken # 0 /\ api[t].atoken <= Len(atokens) /\ api[t].atoken \in Nat
    BY <1>1 DEF PlaceOK, OpenPcs, CreatingPcs, Load
  <1>3. ASSUME OpenedOnce  PROVE Private(SessionOf(t))
    <2>1. Len(atokens) <= 1 /\ Private(atokens[token_hash].session)
      BY <1>2, <1>3 DEF SessionInv, OnceInv
    <2>2. api[t].atoken = token_hash
      BY <1>1, <1>2, <2>1
    <2> QED BY <2>1, <2>2 DEF SessionOf
  <1> QED BY <1>2, <1>3

\* A search that ends, or was not there to begin with.
LEMMA SearchEnds ==
  ASSUME ApiInv, SessionInv, NEW t \in Threads, Others(t), UNCHANGED atokens,
         p11'.searching \subseteq p11.searching,
         ~TokenMayFail => SessionOf(t) \notin p11'.searching
  PROVE  SearchInv'
  <1> SUFFICES ASSUME ~TokenMayFail, NEW h \in p11'.searching
               PROVE  \E s \in Threads : /\ api'[s].pc \in {"findobjects", "findobjectsfinal"}
                                         /\ h = atokens'[api'[s].atoken].session
    BY DEF SearchInv, SearchesEnd, SessionOf
  <1>1. PICK s \in Threads : /\ api[s].pc \in {"findobjects", "findobjectsfinal"}
                             /\ h = SessionOf(s)
    BY DEF SessionInv, SearchInv, SearchesEnd
  <1>2. s # t
    BY <1>1
  <1>3. api'[s] = api[s]
    BY <1>2 DEF Others
  <1> QED BY <1>1, <1>3 DEF SessionOf

\* A search that begins or goes on.
LEMMA SearchGoesOn ==
  ASSUME ApiInv, SessionInv, NEW t \in Threads, Others(t), UNCHANGED atokens,
         p11'.searching \subseteq p11.searching \cup {SessionOf(t)},
         api'[t].pc \in {"findobjects", "findobjectsfinal"}, api'[t].atoken = api[t].atoken
  PROVE  SearchInv'
  <1> SUFFICES ASSUME ~TokenMayFail, NEW h \in p11'.searching
               PROVE  \E s \in Threads : /\ api'[s].pc \in {"findobjects", "findobjectsfinal"}
                                         /\ h = atokens'[api'[s].atoken].session
    BY DEF SearchInv, SearchesEnd, SessionOf
  <1>1. CASE h = SessionOf(t)
    BY <1>1 DEF SessionOf
  <1>2. CASE h # SessionOf(t)
    <2>1. PICK s \in Threads : /\ api[s].pc \in {"findobjects", "findobjectsfinal"}
                               /\ h = SessionOf(s)
      BY <1>2 DEF SessionInv, SearchInv, SearchesEnd
    <2>2. s # t
      BY <1>2, <2>1
    <2>3. api'[s] = api[s]
      BY <2>2 DEF Others
    <2> QED BY <2>1, <2>3 DEF SessionOf
  <1> QED BY <1>1, <1>2

\* The search fails: the load returns, and has nothing to end.
LEMMA SearchFails ==
  ASSUME ApiInv, SessionInv, NEW t \in Threads,
         api[t].pc \in {"findobjectsinit", "findobjects", "findobjectsfinal"},
         UNCHANGED <<token_hash, atokens, preload_keys_flag, p11, agent, openings, crashed>>,
         api' = Returns(t, FALSE),
         ~TokenMayFail /\ api[t].pc # "findobjectsinit" => SessionOf(t) \notin p11.searching
  PROVE  SessionInv'
  <1>1. Leaves(t, "returned", FALSE)
    BY LeavesEffect
  <1>2. /\ Others(t) /\ api'[t].pc = "returned" /\ api'[t].url = api[t].url /\ ~api'[t].ok
        /\ ~api'[t].create /\ api'[t].quoted = 0
    BY <1>1 DEF Leaves
  <1>3. EntriesStay
    BY DEF EntriesStay, ApiInv, ApimoduleTypeOK
  <1>4. SearchInv'
    <2>1. CASE api[t].pc = "findobjectsinit"
      BY <1>2, <1>3, <2>1, SearchStays DEF SessionInv
    <2>2. CASE api[t].pc # "findobjectsinit"
      BY <1>2, <2>2, SearchEnds
    <2> QED BY <2>1, <2>2
  <1>5. p11'.searching \subseteq p11.open /\ ~Past(api'[t])
    BY <1>2 DEF SessionInv, LibraryInv, Past
  <1> QED BY <1>2, <1>4, <1>5, FindKeeps

LEMMA FindObjectSession ==
  ASSUME ApiInv, SessionInv, NEW t \in Threads, FindObject(t)
  PROVE  SessionInv'
  <1> DEFINE h == SessionOf(t)
  <1>1. /\ api \in [Threads -> Load] /\ api[t] \in Load /\ p11 \in Token
        /\ api[t].pc \in {"findobjectsinit", "findobjects", "findobjectsfinal"}
        /\ UNCHANGED <<token_hash, atokens, preload_keys_flag, agent, openings, crashed>>
    BY DEF ApiInv, ApimoduleTypeOK, FindObject, findobjectsinit, findobjects,
           findobjectsfinal, In, history
  <1>2. /\ api[t].url \in Urls /\ token_hash # 0 /\ ~api[t].create /\ api[t].quoted = 0
        /\ OpenedOnce => Private(h)
    BY <1>1, SearchedEntry
  <1>3. ~Open(h) => h \notin p11.searching
    BY DEF Open, SessionInv, LibraryInv
  <1>4. CASE findobjectsinit(t)
    <2>1. PICK ok \in Outcome(Open(h) /\ h \notin p11.searching) :
            IF ok /\ pin_matches(t)
              THEN /\ p11' = [p11 EXCEPT !.searching = @ \cup {h}]
                   /\ api' = Goes(t, "findobjects")
              ELSE api' = Returns(t, FALSE) /\ UNCHANGED p11
      BY <1>4 DEF findobjectsinit
    <2>2. api[t].pc = "findobjectsinit" /\ (ok => Open(h))
      BY <1>4, <2>1 DEF findobjectsinit, In, Outcome, Open
    <2> HIDE DEF h
    <2>3. CASE ok /\ pin_matches(t)
      <3>1. /\ p11'.searching = p11.searching \cup {h}
            /\ UNCHANGED <<p11.initialized, p11.present, p11.pin, p11.login, p11.open>>
            /\ UNCHANGED <<p11.generated, p11.pairs, p11.swks, p11.copies>>
        BY <1>1, <2>1, <2>3 DEF Token
      <3>2. MovesTo(t, "findobjects")
        BY <2>1, <2>3, GoesEffect DEF ApiPcs
      <3>3. /\ Others(t) /\ api'[t].pc = "findobjects" /\ api'[t].atoken = api[t].atoken
            /\ api'[t].url = api[t].url /\ ~api'[t].create /\ api'[t].quoted = 0
        BY <1>2, <3>2 DEF MovesTo, Keeps
      <3>4. SearchInv'
        BY <1>1, <3>1, <3>3, SearchGoesOn DEF h
      <3>5. p11'.searching \subseteq p11.open /\ ~Past(api'[t])
        BY <2>2, <2>3, <3>1, <3>3 DEF SessionInv, LibraryInv, Past, Open
      <3> QED BY <1>1, <3>1, <3>3, <3>4, <3>5, FindKeeps
    <2>4. CASE ~(ok /\ pin_matches(t))
      BY <1>1, <2>1, <2>2, <2>4, SearchFails
    <2> QED BY <2>3, <2>4
  <1>5. CASE findobjects(t)
    <2>1. PICK ok \in Outcome(Open(h) /\ h \in p11.searching) :
            api' = IF ok THEN [api EXCEPT ![t].pc = "findobjectsfinal",
                                          ![t].found = Visible(h, api[t].url)]
                   ELSE Returns(t, FALSE)
      BY <1>5 DEF findobjects
    <2>2. /\ p11' = p11 /\ ok \in BOOLEAN
          /\ ~TokenMayFail /\ ~ok => h \notin p11.searching
      BY <1>3, <1>5, <2>1 DEF findobjects, Outcome, Open
    <2>3. CASE ok
      <3> DEFINE found == Visible(h, api[t].url)
      <3>1. api' = [api EXCEPT ![t].pc = "findobjectsfinal", ![t].found = found]
        BY <2>1, <2>3
      <3>2. OpenedOnce /\ ~found => p11.copies[ObjectOf[api[t].url]] = 0
        <4>1. p11.copies[ObjectOf[api[t].url]] \in Nat
          BY <1>1, <1>2 DEF Token
        <4> QED BY <1>2, <4>1 DEF Visible
      <3> HIDE DEF found
      <3>3. /\ Others(t) /\ api'[t].pc = "findobjectsfinal" /\ api'[t].atoken = api[t].atoken
            /\ api'[t].url = api[t].url /\ ~api'[t].create /\ api'[t].quoted = 0
        BY <1>1, <1>2, <3>1 DEF Others, Load
      <3>4. api'[t].found = found
        BY <1>1, <3>1 DEF Load
      <3>5. SearchInv'
        BY <1>1, <2>2, <3>3, SearchGoesOn
      <3>6. p11'.searching \subseteq p11.open
        BY <2>2 DEF SessionInv, LibraryInv
      <3>7. OpenedOnce /\ Past(api'[t]) => p11.copies[ObjectOf[api'[t].url]] = 0
        BY <3>2, <3>3, <3>4 DEF Past
      <3> QED BY <1>1, <2>2, <3>3, <3>5, <3>6, <3>7, FindKeeps
    <2>4. CASE ~ok
      BY <1>1, <2>1, <2>2, <2>4, SearchFails
    <2> QED BY <2>2, <2>3, <2>4
  <1>6. CASE findobjectsfinal(t)
    <2>1. PICK ok \in Outcome(Open(h) /\ h \in p11.searching) :
            IF ok
              THEN /\ p11' = [p11 EXCEPT !.searching = search_over(t, @)]
                   /\ \E read \in Outcome(Visible(h, api[t].url)) :
                        api' = IF api[t].found THEN Returns(t, read) ELSE Asks(t)
              ELSE api' = Returns(t, FALSE) /\ UNCHANGED p11
      BY <1>6 DEF findobjectsfinal
    <2>2. /\ api[t].pc = "findobjectsfinal" /\ ok \in BOOLEAN
          /\ ~TokenMayFail /\ ~ok => h \notin p11.searching
      BY <1>3, <1>6, <2>1 DEF findobjectsfinal, In, Outcome, Open
    <2>3. CASE ok
      <3>1. /\ p11'.searching = p11.searching \ {h}
            /\ UNCHANGED <<p11.initialized, p11.present, p11.pin, p11.login, p11.open>>
            /\ UNCHANGED <<p11.generated, p11.pairs, p11.swks, p11.copies>>
        BY <1>1, <2>1, <2>3 DEF Token, search_over
      <3>2. PICK read \in Outcome(Visible(h, api[t].url)) :
              api' = IF api[t].found THEN Returns(t, read) ELSE Asks(t)
        BY <2>1, <2>3
      <3>3. read \in BOOLEAN /\ (read => p11.copies[ObjectOf[api[t].url]] # 0)
        <4> DEFINE seen == Visible(h, api[t].url)
        <4>1. seen \in BOOLEAN
          BY DEF Visible, Private, Open
        <4>2. seen => p11.copies[ObjectOf[api[t].url]] # 0
          BY DEF Visible
        <4> HIDE DEF seen
        <4>3. read \in Outcome(seen)
          BY DEF seen
        <4>4. read \in BOOLEAN /\ (read => seen)
          BY <4>1, <4>3, OutcomeType
        <4> QED BY <4>2, <4>4
      <3> HIDE DEF h
      <3>4. /\ Others(t) /\ api'[t].pc \in {"returned", "lock"} /\ api'[t].url = api[t].url
            /\ ~api'[t].create /\ api'[t].quoted = 0
            /\ api'[t].pc = "returned" /\ api'[t].ok => read
            /\ api'[t].pc = "lock" => ~api[t].found
        <4>1. CASE api[t].found
          <5>1. Leaves(t, "returned", read)
            BY <3>2, <3>3, <4>1, LeavesEffect
          <5> QED BY <5>1 DEF Leaves
        <4>2. CASE ~api[t].found
          <5>1. Leaves(t, "lock", FALSE)
            BY <3>2, <4>2, LeavesEffect
          <5> QED BY <4>2, <5>1 DEF Leaves
        <4> QED BY <4>1, <4>2
      <3>5. SearchInv'
        BY <1>1, <3>1, <3>4, SearchEnds DEF h
      <3>6. p11'.searching \subseteq p11.open
        BY <3>1 DEF SessionInv, LibraryInv
      <3>7. Past(api'[t]) => Past(api[t])
        BY <2>2, <3>4 DEF Past
      <3> QED BY <1>1, <3>1, <3>3, <3>4, <3>5, <3>6, <3>7, FindKeeps
    <2>4. CASE ~ok
      BY <1>1, <2>1, <2>2, <2>4, SearchFails
    <2> QED BY <2>2, <2>3, <2>4
  <1> QED BY <1>4, <1>5, <1>6 DEF FindObject

-----------------------------------------------------------------------------
(* The agent's lock and the callbacks. *)

LEMMA LockSession ==
  ASSUME ApiInv, SessionInv, NEW t \in Threads, load_locked(t) \/ load_unlocked(t)
  PROVE  SessionInv'
  <1>1. /\ api \in [Threads -> Load] /\ api[t] \in Load /\ agent \in Agent
        /\ PlaceOK(t, api[t]) /\ api[t].pc \in {"lock", "unlock"}
        /\ UNCHANGED <<token_hash, atokens, preload_keys_flag, p11, openings, crashed>>
    BY DEF ApiInv, ApimoduleTypeOK, load_locked, load_unlocked, In, history
  <1>2. api[t].url \in Urls /\ ~api[t].create /\ api[t].quoted = 0
    BY <1>1 DEF PlaceOK, OpenPcs, CreatingPcs
  <1>3. UNCHANGED <<agent.known, agent.refused, agent.announced>>
    BY <1>1 DEF load_locked, load_unlocked, Agent
  <1>4. api[t].pc \notin Opening \cup {"findobjects", "findobjectsfinal"}
    BY <1>1 DEF Opening, OpenPcs, CreatingPcs
  <1>5. CASE load_locked(t)
    <2>1. api[t].pc = "lock"
      BY <1>5 DEF load_locked, In
    <2>2. CASE api[t].url \in agent.known
      <3>1. Leaves(t, "unlock", TRUE)
        BY <1>5, <2>2, LeavesEffect DEF load_locked
      <3>2. /\ Others(t) /\ api'[t].pc = "unlock" /\ api'[t].url = api[t].url
            /\ ~api'[t].create /\ api'[t].quoted = 0
        BY <3>1 DEF Leaves
      <3>3. ~Past(api'[t]) /\ api'[t].pc \notin Opening \cup {"quote", "findtoken"}
        BY <3>2 DEF Past, Opening, OpenPcs, CreatingPcs
      <3>4. OpenedOnce /\ api'[t].url \notin agent.refused =>
              /\ token_hash # 0 /\ api'[t].url \in Urls
              /\ p11.copies[ObjectOf[api'[t].url]] # 0
        BY <1>2, <2>2, <3>2 DEF SessionInv, SuccessInv, LibraryInv
      <3> QED BY <1>1, <1>2, <1>3, <1>4, <3>2, <3>3, <3>4, PlainKeeps
    <2>3. CASE api[t].url \notin agent.known
      <3>1. MovesTo(t, "npm")
        BY <1>5, <2>3, GoesEffect DEF load_locked, ApiPcs
      <3>2. /\ Others(t) /\ api'[t].pc = "npm" /\ api'[t].url = api[t].url
            /\ ~api'[t].create /\ api'[t].quoted = 0
        BY <1>2, <3>1 DEF MovesTo, Keeps
      <3>3. Past(api[t]) /\ api'[t].pc \notin Opening \cup {"quote", "findtoken"}
        BY <2>1, <3>2 DEF Past, Opening, OpenPcs, CreatingPcs
      <3> QED BY <1>1, <1>2, <1>3, <1>4, <2>3, <3>2, <3>3, PlainKeeps
    <2> QED BY <2>2, <2>3
  <1>6. CASE load_unlocked(t)
    <2>1. api[t].pc = "unlock" /\ api[t].ok \in BOOLEAN
      BY <1>1, <1>6 DEF load_unlocked, In, Load
    <2>2. Leaves(t, "returned", api[t].ok)
      BY <1>6, <2>1, LeavesEffect, ZenonT(30) DEF load_unlocked
    <2>3. /\ Others(t) /\ api'[t].pc = "returned" /\ api'[t].url = api[t].url
          /\ ~api'[t].create /\ api'[t].quoted = 0
      BY <2>2 DEF Leaves
    <2>4. api'[t].ok = api[t].ok
      BY <2>2 DEF Leaves
    <2>5. ~Past(api'[t]) /\ api'[t].pc \notin Opening \cup {"quote", "findtoken"}
      BY <2>3 DEF Past, Opening, OpenPcs, CreatingPcs
    <2>6. OpenedOnce /\ api'[t].ok /\ api'[t].url \notin agent.refused =>
            /\ token_hash # 0 /\ api'[t].url \in Urls
            /\ p11.copies[ObjectOf[api'[t].url]] # 0
      BY <2>1, <2>3, <2>4 DEF SessionInv, SuccessInv
    <2> QED BY <1>1, <1>2, <1>3, <1>4, <2>3, <2>5, <2>6, PlainKeeps
  <1> QED BY <1>5, <1>6

\* A thread with a callback holds the agent's lock: no other is in one.
LEMMA Holds ==
  ASSUME ApiInv, SessionInv, NEW t \in Threads, api[t].pc \in {"npm", "generate", "quote"}
  PROVE  /\ agent.holder = t /\ api[t].url \in Urls /\ api[t].url \notin agent.known
         /\ Past(api[t]) /\ api[t].pc \notin Opening \cup {"findobjects", "findobjectsfinal"}
         /\ api[t].pc # "npm" => api[t].quoted = 0
         /\ \A s \in Threads \ {t} :
              /\ api[s].pc \notin {"npm", "generate", "quote", "unlock"} /\ ~api[s].create
              /\ api[s].quoted = 0
  <1>1. \A s \in Threads : PlaceOK(s, api[s])
    BY DEF ApiInv
  <1>2. agent.holder = t /\ api[t].url \in Urls /\ (api[t].pc # "npm" => api[t].quoted = 0)
    BY <1>1 DEF PlaceOK
  <1>3. \A s \in Threads \ {t} :
          /\ api[s].pc \notin {"npm", "generate", "quote", "unlock"} /\ ~api[s].create
          /\ api[s].quoted = 0
    BY <1>1, <1>2 DEF PlaceOK
  <1>4. Past(api[t]) /\ api[t].pc \notin Opening \cup {"findobjects", "findobjectsfinal"}
    BY DEF Past, Opening, OpenPcs, CreatingPcs
  <1> QED BY <1>2, <1>3, <1>4 DEF SessionInv, LibraryInv

LEMMA FailedSession ==
  ASSUME ApiInv, SessionInv, NEW t \in Threads, api[t].pc \in {"npm", "generate", "quote"},
         api' = Ends(t, FALSE),
         UNCHANGED <<token_hash, atokens, preload_keys_flag, p11, agent, openings, crashed>>
  PROVE  SessionInv'
  <1>1. Leaves(t, "unlock", FALSE)
    BY LeavesEffect
  <1>2. /\ Others(t) /\ api'[t].pc = "unlock" /\ ~api'[t].ok /\ ~api'[t].create
        /\ api'[t].quoted = 0
    BY <1>1 DEF Leaves
  <1>3. ~Past(api'[t]) /\ api'[t].pc \notin Opening \cup {"quote", "findtoken"}
    BY <1>2 DEF Past, Opening, OpenPcs, CreatingPcs
  <1>4. UNCHANGED <<agent.known, agent.refused, agent.announced>>
    OBVIOUS
  <1> QED BY <1>2, <1>3, <1>4, Holds, PlainKeeps

LEMMA GetChallengeSession ==
  ASSUME ApiInv, SessionInv, NEW t \in Threads, get_challenge(t)
  PROVE  SessionInv'
  <1>1. /\ api \in [Threads -> Load] /\ api[t] \in Load /\ api[t].pc = "npm"
        /\ api[t].quoted = 0
        /\ UNCHANGED <<token_hash, atokens, preload_keys_flag, p11, agent, openings, crashed>>
    BY DEF ApiInv, ApimoduleTypeOK, get_challenge, In, history
  <1>2. api' = IF token_hash = 0
                 THEN [api EXCEPT ![t].pc = "findtoken", ![t].create = TRUE]
                 ELSE [api EXCEPT ![t].pc = "generate", ![t].atoken = token_hash]
    BY DEF get_challenge, cached_token
  <1>3. /\ Others(t) /\ api'[t].url = api[t].url /\ api'[t].quoted = api[t].quoted
        /\ api'[t].pc = IF token_hash = 0 THEN "findtoken" ELSE "generate"
    BY <1>1, <1>2 DEF Others, Load
  <1>4. api'[t].pc \notin Opening \cup {"quote", "returned", "unlock"}
    BY <1>3 DEF Opening, OpenPcs, CreatingPcs
  <1>5. /\ api[t].url \notin agent.known /\ Past(api[t])
        /\ api[t].pc \notin Opening \cup {"findobjects", "findobjectsfinal"}
    BY <1>1, Holds
  <1>6. UNCHANGED <<agent.known, agent.refused, agent.announced>>
    BY <1>1
  <1> QED BY <1>1, <1>3, <1>4, <1>5, <1>6, PlainKeeps

\* What a callback keeps besides the keys.
LEMMA CalmKeeps ==
  ASSUME ApiInv, SessionInv, NEW t \in Threads, api[t].pc \in {"npm", "generate", "quote"},
         Calm(t), p11'.searching = p11.searching, api'[t].pc # "findtoken"
  PROVE  SearchInv' /\ CountInv' /\ OnceInv' /\ PinInv'
  <1>1. SearchInv'
    BY SearchStays DEF SessionInv, Calm
  <1>2. CountInv'
    BY CountStays DEF SessionInv, Calm, Opening
  <1> QED BY <1>1, <1>2, CalmOnce, CalmPin DEF SessionInv

\* LibraryInv, when a callback brings keys into the token or the agent.
LEMMA HeldLibrary ==
  ASSUME ApiInv, SessionInv, NEW t \in Threads, api[t].pc \in {"npm", "generate", "quote"},
         Calm(t), p11'.searching = p11.searching, p11'.initialized = p11.initialized,
         preload_keys_flag' = preload_keys_flag,
         p11'.pairs \subseteq 1..p11'.generated, p11'.swks \subseteq 1..p11'.generated,
         p11'.copies = p11.copies \/ token_hash # 0,
         \/ agent'.known = agent.known /\ api'[t].url = api[t].url
         \/ token_hash # 0 /\ api'[t].pc = "unlock" /\ ~api'[t].create
  PROVE  LibraryInv'
  <1>1. p11'.searching \subseteq p11'.open /\ (p11'.initialized \/ p11'.open = {})
    BY DEF SessionInv, LibraryInv, Calm
  <1>2. ~TokenMayFail /\ preload_keys_flag' /\ ~p11'.initialized =>
          \E s \in Threads : api'[s].pc = "initialize"
    BY DEF SessionInv, LibraryInv, Calm, Others
  <1>3. /\ \A o \in Objects : p11'.copies[o] # 0 => p11'.present
        /\ token_hash' # 0 => p11'.present
        /\ agent'.known # {} => token_hash' # 0
    BY DEF SessionInv, LibraryInv, Calm
  <1>4. ASSUME NEW s \in Threads  PROVE api'[s].pc \in Opening \ {"inittoken"} => p11'.present
    BY DEF SessionInv, LibraryInv, Calm, Others
  <1>5. ASSUME NEW s \in Threads
        PROVE  api'[s].pc \in {"npm", "generate", "quote"} \/ api'[s].create =>
                 api'[s].url \notin agent'.known
    <2>1. CASE s = t
      BY <2>1, Holds
    <2>2. CASE s # t
      BY <2>2, Holds DEF Calm, Others
    <2> QED BY <2>1, <2>2
  <1> QED BY <1>1, <1>2, <1>3, <1>4, <1>5 DEF LibraryInv

\* What a callback that brings no key into the token says of later loads.
LEMMA HeldKeyless ==
  ASSUME ApiInv, SessionInv, NEW t \in Threads, api[t].pc \in {"npm", "generate", "quote"},
         Keyless(t), api'[t].url = api[t].url, api'[t].pc \in {"returned", "unlock"} => ~api'[t].ok
  PROVE  SuccessInv' /\ CopiesInv'
  <1>1. SuccessInv'
    BY KeylessSuccess DEF SessionInv
  <1>2. CopiesInv'
    BY Holds, KeylessCopies DEF SessionInv
  <1> QED BY <1>1, <1>2

\* A key pair is new: no wrapping key in the token was wrapped for it.
LEMMA GenerateSession ==
  ASSUME ApiInv, SessionInv, NEW t \in Threads, generate_rsa_keypair(t)
  PROVE  SessionInv'
  <1> DEFINE cond == Private(atokens[token_hash].session)
             n    == p11.generated + 1
  <1>1. /\ api \in [Threads -> Load] /\ api[t] \in Load /\ api[t].pc = "generate"
        /\ atokens \in Seq(AToken) /\ p11 \in Token /\ p11.generated \in Nat
        /\ token_hash \in 1..Len(atokens) /\ Len(atokens) \in Nat
        /\ UNCHANGED <<token_hash, preload_keys_flag, agent, openings, crashed>>
    BY DEF ApiInv, ApimoduleTypeOK, PlaceOK, generate_rsa_keypair, In, history, Token
  <1>2. PICK ok \in Outcome(cond) :
          /\ atokens' = [atokens EXCEPT ![token_hash].pair = IF ok THEN n ELSE 0]
          /\ p11' = IF ok THEN [p11 EXCEPT !.generated = n, !.pairs = @ \cup {n}] ELSE p11
          /\ api' = IF ok THEN [api EXCEPT ![t].pc = "quote", ![t].inner = token_hash]
                    ELSE Ends(t, FALSE)
    BY DEF generate_rsa_keypair
  <1>3. ok \in BOOLEAN
    BY <1>2 DEF Outcome, Private, Open
  <1>4. /\ Len(atokens') = Len(atokens)
        /\ \A k \in 1..Len(atokens) : /\ atokens'[k].session = atokens[k].session
                                      /\ atokens'[k].pin = atokens[k].pin
        /\ atokens'[token_hash].wrappingkey = atokens[token_hash].wrappingkey
        /\ atokens'[token_hash].pair = IF ok THEN n ELSE 0
    <2> DEFINE v == IF ok THEN n ELSE 0
    <2>1. atokens' = [atokens EXCEPT ![token_hash].pair = v]
      BY <1>2
    <2> HIDE DEF v
    <2>2. Len(atokens') = Len(atokens)
      BY <1>1, <2>1
    <2>3. \A k \in 1..Len(atokens) :
            atokens'[k] = IF k = token_hash THEN [atokens[k] EXCEPT !.pair = v] ELSE atokens[k]
      BY <1>1, <2>1
    <2>4. \A k \in 1..Len(atokens) : atokens[k] \in AToken
      BY <1>1
    <2>5. \A k \in 1..Len(atokens) : /\ atokens'[k].session = atokens[k].session
                                     /\ atokens'[k].pin = atokens[k].pin
                                     /\ atokens'[k].wrappingkey = atokens[k].wrappingkey
      BY <2>3, <2>4 DEF AToken
    <2>6. atokens'[token_hash].pair = v
      BY <1>1, <2>3, <2>4 DEF AToken
    <2> QED BY <1>1, <2>2, <2>5, <2>6 DEF v
  <1>5. EntriesStay
    BY <1>1, <1>4 DEF EntriesStay
  <1>6. /\ UNCHANGED <<p11.initialized, p11.present, p11.pin, p11.login, p11.open>>
        /\ UNCHANGED <<p11.searching, p11.swks, p11.copies>>
        /\ p11'.generated = (IF ok THEN n ELSE p11.generated)
        /\ p11'.pairs = (IF ok THEN p11.pairs \cup {n} ELSE p11.pairs)
    <2>1. CASE ok
      BY <1>1, <1>2, <2>1 DEF Token
    <2>2. CASE ~ok
      BY <1>2, <2>2
    <2> QED BY <1>3, <2>1, <2>2
  <1>7. /\ Others(t) /\ api'[t].url = api[t].url /\ api'[t].quoted = 0
        /\ api'[t].pc = (IF ok THEN "quote" ELSE "unlock") /\ (~ok => ~api'[t].ok)
    <2>0. api[t].quoted = 0
      BY <1>1, Holds
    <2>1. CASE ok
      BY <1>1, <1>2, <2>0, <2>1 DEF Others, Load
    <2>2. CASE ~ok
      <3>1. Leaves(t, "unlock", FALSE)
        BY <1>2, <2>2, LeavesEffect
      <3> QED BY <2>2, <3>1 DEF Leaves
    <2> QED BY <1>3, <2>1, <2>2
  <1>a. /\ p11.pairs \subseteq 1..p11.generated /\ p11.swks \subseteq 1..p11.generated
        /\ n \notin p11.swks /\ 0 \notin p11.swks
    BY <1>1 DEF SessionInv, LibraryInv
  <1>8. Keyless(t) /\ Calm(t)
    BY <1>1, <1>4, <1>5, <1>6, <1>7, Holds
       DEF Keyless, Calm, Opening, OpenPcs, CreatingPcs
  <1>9. LibraryInv'
    <2>1. p11'.pairs \subseteq 1..p11'.generated /\ p11'.swks \subseteq 1..p11'.generated
      BY <1>1, <1>6, <1>a
    <2> QED BY <1>1, <1>6, <1>7, <1>8, <2>1, HeldLibrary
  <1>10. WrapInv'
    <2> SUFFICES ASSUME OpenedOnce  PROVE WrapInv'
      BY <1>1 DEF WrapInv, OpenedOnce
    <2>1. \A s \in Threads : api'[s].quoted = 0 /\ (api'[s].pc = "quote" => s = t)
      BY <1>1, <1>7, Holds DEF Others
    <2>2. api'[t].pc = "quote" => atokens'[token_hash'].pair \notin p11'.swks
      BY <1>1, <1>4, <1>6, <1>7, <1>a
    <2>3. agent'.announced \in p11'.swks => atokens'[token_hash'].wrappingkey = agent'.announced
      BY <1>1, <1>4, <1>6 DEF SessionInv, WrapInv
    <2> QED BY <1>1, <2>1, <2>2, <2>3 DEF WrapInv, SessionInv
  <1>11. SearchInv' /\ CountInv' /\ OnceInv' /\ PinInv'
    BY <1>1, <1>6, <1>7, <1>8, CalmKeeps
  <1>12. SuccessInv' /\ CopiesInv'
    BY <1>1, <1>7, <1>8, HeldKeyless
  <1> QED BY <1>9, <1>10, <1>11, <1>12 DEF SessionInv

\* The challenge handed out is that of the key pair just made.
LEMMA ExportSession ==
  ASSUME ApiInv, SessionInv, NEW t \in Threads, export_quote(t)
  PROVE  SessionInv'
  <1> DEFINE k == atokens[api[t].inner]
             n == k.pair
  <1>1. /\ api \in [Threads -> Load] /\ api[t] \in Load /\ api[t].pc = "quote"
        /\ atokens \in Seq(AToken) /\ Len(atokens) \in Nat /\ token_hash \in 1..Len(atokens)
        /\ api[t].inner \in 1..Len(atokens) /\ api[t].atoken \in 1..Len(atokens)
        /\ UNCHANGED <<token_hash, preload_keys_flag, p11, agent, openings>>
        /\ p11 \in Token
    BY DEF ApiInv, ApimoduleTypeOK, PlaceOK, Load, export_quote, In, history
  <1>2. CASE api' = Ends(t, FALSE) /\ UNCHANGED <<atokens, crashed>>
    BY <1>1, <1>2, FailedSession
  <1>3. CASE /\ n \in p11.pairs
             /\ atokens' = [atokens EXCEPT ![api[t].inner].challenge = challenge_of(k)]
             /\ crashed' = (atokens'[api[t].atoken].challenge = 0)
             /\ api' = [api EXCEPT ![t].pc = "npm",
                                   ![t].quoted = atokens'[api[t].atoken].challenge]
    <2> DEFINE handed == atokens'[api[t].atoken].challenge
    <2>a. /\ atokens' = [atokens EXCEPT ![api[t].inner].challenge = n]
          /\ api' = [api EXCEPT ![t].pc = "npm", ![t].quoted = handed]
          /\ crashed' = (handed = 0)
      BY <1>3 DEF challenge_of
    <2> HIDE DEF n
    <2>1. /\ Len(atokens') = Len(atokens)
          /\ \A i \in 1..Len(atokens) :
               atokens'[i] = IF i = api[t].inner THEN [atokens[i] EXCEPT !.challenge = n]
                             ELSE atokens[i]
      <3> DEFINE j == api[t].inner
      <3>1. /\ atokens' = [atokens EXCEPT ![j].challenge = n]
            /\ j \in 1..Len(atokens) /\ atokens \in Seq(AToken)
        BY <1>1, <2>a
      <3> HIDE DEF j
      <3>2. Len(atokens') = Len(atokens)
        BY <3>1
      <3>3. \A i \in 1..Len(atokens) :
              atokens'[i] = IF i = j THEN [atokens[i] EXCEPT !.challenge = n] ELSE atokens[i]
        BY <3>1
      <3> QED BY <3>2, <3>3 DEF j
    <2>2. \A i \in 1..Len(atokens) : atokens[i] \in AToken
      BY <1>1
    <2>3. \A i \in 1..Len(atokens) : /\ atokens'[i].session = atokens[i].session
                                     /\ atokens'[i].pin = atokens[i].pin
                                     /\ atokens'[i].pair = atokens[i].pair
                                     /\ atokens'[i].wrappingkey = atokens[i].wrappingkey
      BY <2>1, <2>2 DEF AToken
    <2>4. atokens'[api[t].inner].challenge = n
      BY <1>1, <2>1, <2>2 DEF AToken
    <2>5. EntriesStay
      BY <1>1, <2>1, <2>3 DEF EntriesStay
    <2> HIDE DEF handed
    <2>7. /\ Others(t) /\ api'[t].url = api[t].url /\ api'[t].pc = "npm"
          /\ api'[t].quoted = handed
      BY <1>1, <2>a DEF Others, Load
    <2>8. Keyless(t) /\ Calm(t)
      BY <1>1, <2>1, <2>5, <2>7, Holds DEF Keyless, Calm, Opening, OpenPcs, CreatingPcs
    <2>9. LibraryInv'
      BY <1>1, <2>7, <2>8, HeldLibrary DEF SessionInv, LibraryInv
    <2>10. WrapInv'
      <3> SUFFICES ASSUME OpenedOnce  PROVE WrapInv'
        BY <1>1 DEF WrapInv, OpenedOnce
      <3>1. Len(atokens) <= 1
        BY DEF SessionInv, OnceInv
      <3>2. api[t].inner = token_hash /\ api[t].atoken = token_hash
        BY <1>1, <3>1
      <3>3. handed = n /\ atokens[token_hash].pair = n /\ atokens'[token_hash].pair = n
        BY <1>1, <2>3, <2>4, <3>2 DEF handed, n
      <3>4. n # 0 /\ n \notin p11.swks
        BY <1>1, <1>3, <3>3 DEF SessionInv, LibraryInv, WrapInv, Token
      <3>5. \A s \in Threads : /\ api'[s].pc # "quote"
                               /\ api'[s].quoted # 0 => s = t
        BY <1>1, <2>7, Holds DEF Others
      <3>6. agent'.announced \in p11'.swks =>
              atokens'[token_hash'].wrappingkey = agent'.announced
        BY <1>1, <2>3 DEF SessionInv, WrapInv
      <3>7. ~crashed'
        BY <2>a, <3>3, <3>4
      <3> QED BY <1>1, <1>3, <2>7, <3>3, <3>4, <3>5, <3>6, <3>7 DEF WrapInv
    <2>11. SearchInv' /\ CountInv' /\ OnceInv' /\ PinInv'
      BY <1>1, <2>7, <2>8, CalmKeeps
    <2>12. SuccessInv' /\ CopiesInv'
      BY <1>1, <2>7, <2>8, HeldKeyless
    <2> QED BY <2>9, <2>10, <2>11, <2>12 DEF SessionInv
  <1>4. PICK ok \in Outcome(Private(k.session) /\ n \in p11.pairs) :
          IF ok
            THEN LET handed == atokens'[api[t].atoken].challenge
                 IN /\ atokens' = [atokens EXCEPT ![api[t].inner].challenge = challenge_of(k)]
                    /\ crashed' = (handed = 0)
                    /\ api' = [api EXCEPT ![t].pc = "npm", ![t].quoted = handed]
            ELSE api' = Ends(t, FALSE) /\ UNCHANGED <<atokens, crashed>>
    BY DEF export_quote
  <1>5. ok => n \in p11.pairs
    BY <1>4 DEF Outcome, Private, Open
  <1> QED BY <1>2, <1>3, <1>4, <1>5

\* Announcing the session and unwrapping its wrapping key go together, but for a
\* wrapping key the token does not have.
LEMMA SetWrappingKeySession ==
  ASSUME ApiInv, SessionInv, NEW t \in Threads, set_wrapping_key(t)
  PROVE  SessionInv'
  <1> DEFINE k == atokens[token_hash]
             n == api[t].quoted
  <1>1. /\ api \in [Threads -> Load] /\ api[t] \in Load /\ api[t].pc = "npm" /\ n # 0
        /\ atokens \in Seq(AToken) /\ Len(atokens) \in Nat /\ token_hash \in 1..Len(atokens)
        /\ p11 \in Token /\ agent \in Agent
        /\ UNCHANGED <<token_hash, preload_keys_flag, openings, crashed>>
    BY DEF ApiInv, ApimoduleTypeOK, PlaceOK, set_wrapping_key, In, history
  <1>2. /\ agent'.announced = n
        /\ agent'.known = agent.known /\ agent'.refused = agent.refused
    BY <1>1 DEF set_wrapping_key, Agent
  <1>3. PICK ok \in Outcome(Private(k.session) /\ k.pair = n /\ n \in p11.pairs) :
          IF ok
            THEN /\ p11' = [p11 EXCEPT !.swks = @ \cup {n}]
                 /\ atokens' = [atokens EXCEPT ![token_hash].wrappingkey = wrappingkey_new(k, n)]
                 /\ api' = [api EXCEPT ![t].quoted = 0, ![t].atoken = 0, ![t].inner = 0]
            ELSE api' = Ends(t, FALSE) /\ UNCHANGED <<p11, atokens>>
    BY DEF set_wrapping_key
  <1>4. ok \in BOOLEAN /\ (ok => n \in p11.pairs)
    BY <1>3 DEF Outcome, Private, Open
  <1> HIDE DEF n
  <1>5. /\ Len(atokens') = Len(atokens)
        /\ \A i \in 1..Len(atokens) : /\ atokens'[i].session = atokens[i].session
                                      /\ atokens'[i].pin = atokens[i].pin
        /\ ok => atokens'[token_hash].wrappingkey = n
    <2>1. CASE ok
      <3>1. atokens' = [atokens EXCEPT ![token_hash].wrappingkey = n]
        BY <1>3, <2>1 DEF wrappingkey_new
      <3>2. Len(atokens') = Len(atokens)
        BY <1>1, <3>1
      <3>3. \A i \in 1..Len(atokens) :
              atokens'[i] = IF i = token_hash THEN [atokens[i] EXCEPT !.wrappingkey = n]
                            ELSE atokens[i]
        BY <1>1, <3>1
      <3>4. \A i \in 1..Len(atokens) : atokens[i] \in AToken
        BY <1>1
      <3>5. \A i \in 1..Len(atokens) : /\ atokens'[i].session = atokens[i].session
                                       /\ atokens'[i].pin = atokens[i].pin
        BY <3>3, <3>4 DEF AToken
      <3>6. atokens'[token_hash].wrappingkey = n
        BY <1>1, <3>3, <3>4 DEF AToken
      <3> QED BY <3>2, <3>5, <3>6
    <2>2. CASE ~ok
      BY <1>3, <2>2
    <2> QED BY <1>4, <2>1, <2>2
  <1>6. /\ UNCHANGED <<p11.initialized, p11.present, p11.pin, p11.login, p11.open>>
        /\ UNCHANGED <<p11.searching, p11.generated, p11.pairs, p11.copies>>
        /\ p11'.swks = (IF ok THEN p11.swks \cup {n} ELSE p11.swks)
    <2>1. CASE ok
      BY <1>1, <1>3, <2>1 DEF Token
    <2>2. CASE ~ok
      BY <1>3, <2>2
    <2> QED BY <1>4, <2>1, <2>2
  <1>7. /\ Others(t) /\ api'[t].url = api[t].url /\ api'[t].quoted = 0
        /\ api'[t].pc \in {"npm", "unlock"} /\ (api'[t].pc = "unlock" => ~api'[t].ok)
    <2>1. CASE ok
      <3>1. api' = [api EXCEPT ![t] = [api[t] EXCEPT !.quoted = 0, !.atoken = 0, !.inner = 0]]
        BY <1>1, <1>3, <2>1
      <3>2. Others(t) /\ api'[t] = [api[t] EXCEPT !.quoted = 0, !.atoken = 0, !.inner = 0]
        BY <1>1, <3>1 DEF Others
      <3>3. api'[t].url = api[t].url /\ api'[t].quoted = 0 /\ api'[t].pc = "npm"
        BY <1>1, <3>2 DEF Load
      <3> QED BY <3>2, <3>3
    <2>2. CASE ~ok
      <3>1. Leaves(t, "unlock", FALSE)
        BY <1>3, <2>2, LeavesEffect
      <3> QED BY <3>1 DEF Leaves
    <2> QED BY <1>4, <2>1, <2>2
  <1>8. EntriesStay
    BY <1>1, <1>5 DEF EntriesStay
  <1>9. Keyless(t) /\ Calm(t)
    BY <1>1, <1>2, <1>5, <1>6, <1>7, <1>8, Holds
       DEF Keyless, Calm, Opening, OpenPcs, CreatingPcs
  <1>10. LibraryInv'
    <2>1. p11'.pairs \subseteq 1..p11'.generated /\ p11'.swks \subseteq 1..p11'.generated
      BY <1>4, <1>6 DEF SessionInv, LibraryInv
    <2> QED BY <1>1, <1>2, <1>6, <1>7, <1>9, <2>1, HeldLibrary
  <1>11. WrapInv'
    <2> SUFFICES ASSUME OpenedOnce  PROVE WrapInv'
      BY <1>1 DEF WrapInv, OpenedOnce
    <2>1. \A s \in Threads : api'[s].quoted = 0 /\ api'[s].pc # "quote"
      BY <1>1, <1>7, Holds DEF Others
    <2>2. n \notin p11.swks /\ ~crashed
      BY <1>1 DEF SessionInv, WrapInv, n
    <2>3. agent'.announced \in p11'.swks =>
            atokens'[token_hash'].wrappingkey = agent'.announced
      BY <1>1, <1>2, <1>4, <1>5, <1>6, <2>2
    <2> QED BY <1>1, <2>1, <2>2, <2>3 DEF WrapInv
  <1>12. SearchInv' /\ CountInv' /\ OnceInv' /\ PinInv'
    BY <1>1, <1>6, <1>7, <1>9, CalmKeeps
  <1>13. SuccessInv' /\ CopiesInv'
    BY <1>1, <1>7, <1>9, HeldKeyless
  <1> QED BY <1>10, <1>11, <1>12, <1>13 DEF SessionInv

\* The agent comes to know the uri, and the token has its key or has refused it.
LEMMA LoadKeySession ==
  ASSUME ApiInv, SessionInv, NEW t \in Threads, load_key(t)
  PROVE  SessionInv'
  <1> DEFINE u == api[t].url
             o == ObjectOf[u]
  <1>1. /\ api \in [Threads -> Load] /\ api[t] \in Load /\ api[t].pc = "npm"
        /\ api[t].quoted = 0 /\ agent.announced # 0
        /\ p11 \in Token /\ agent \in Agent /\ agent.known \subseteq Urls
        /\ UNCHANGED <<token_hash, atokens, preload_keys_flag, openings, crashed>>
    BY DEF ApiInv, ApimoduleTypeOK, load_key, In, history, Agent
  <1>2. token_hash # 0 /\ u \in Urls /\ u \notin agent.known /\ agent.holder = t /\ Past(api[t])
        /\ o \in Objects
    BY <1>1, Holds DEF ApiInv
  <1>3. PICK ok \in BOOLEAN :
          /\ agent' = [agent EXCEPT !.known = @ \cup {u},
                                    !.refused = IF ok THEN @ ELSE @ \cup {u}]
          /\ p11' = IF ok THEN [p11 EXCEPT !.copies[o] = @ + 1] ELSE p11
          /\ api' = Ends(t, ok)
    BY DEF load_key, Outcome, Private, Open
  <1> HIDE DEF u, o
  <1>4. /\ agent'.known = agent.known \cup {u} /\ agent'.announced = agent.announced
        /\ agent'.refused = (IF ok THEN agent.refused ELSE agent.refused \cup {u})
    BY <1>1, <1>3 DEF Agent
  <1>5. /\ UNCHANGED <<p11.initialized, p11.present, p11.pin, p11.login, p11.open>>
        /\ UNCHANGED <<p11.searching, p11.generated, p11.pairs, p11.swks>>
        /\ \A x \in Objects :
             p11'.copies[x] = IF ok /\ x = o THEN p11.copies[x] + 1 ELSE p11.copies[x]
    <2>1. CASE ok
      <3>1. p11' = [p11 EXCEPT !.copies = [p11.copies EXCEPT ![o] = p11.copies[o] + 1]]
        BY <1>3, <2>1
      <3>2. /\ UNCHANGED <<p11.initialized, p11.present, p11.pin, p11.login, p11.open>>
            /\ UNCHANGED <<p11.searching, p11.generated, p11.pairs, p11.swks>>
            /\ p11'.copies = [p11.copies EXCEPT ![o] = p11.copies[o] + 1]
        BY <1>1, <3>1 DEF Token
      <3>3. p11.copies \in [Objects -> Nat]
        BY <1>1 DEF Token
      <3> QED BY <2>1, <3>2, <3>3
    <2>2. CASE ~ok
      BY <1>3, <2>2
    <2> QED BY <2>1, <2>2
  <1>6. /\ Others(t) /\ api'[t].pc = "unlock" /\ api'[t].url = u /\ ~api'[t].create
        /\ api'[t].quoted = 0
    <2>1. Leaves(t, "unlock", ok)
      BY <1>3, LeavesEffect
    <2> QED BY <2>1 DEF Leaves, u
  <1>7. api'[t].ok = ok
    <2>1. Leaves(t, "unlock", ok)
      BY <1>3, LeavesEffect
    <2> QED BY <2>1 DEF Leaves
  <1>8. \A x \in Objects : /\ p11.copies[x] \in Nat
                           /\ p11.copies[x] # 0 => p11'.copies[x] # 0
                           /\ ok /\ x = o => p11'.copies[x] # 0
    <2>1. \A x \in Objects : p11.copies[x] \in Nat
      BY <1>1 DEF Token
    <2> QED BY <1>5, <2>1
  <1>9. EntriesStay /\ Len(atokens') = Len(atokens)
    BY <1>1 DEF EntriesStay, ApiInv, ApimoduleTypeOK
  <1>10. Calm(t)
    BY <1>1, <1>2, <1>5, <1>6, <1>9 DEF Calm, Opening, OpenPcs, CreatingPcs
  <1>11. LibraryInv'
    <2>1. p11'.pairs \subseteq 1..p11'.generated /\ p11'.swks \subseteq 1..p11'.generated
      BY <1>5 DEF SessionInv, LibraryInv
    <2> QED BY <1>1, <1>2, <1>5, <1>6, <1>10, <2>1, HeldLibrary
  <1>12. SearchInv' /\ CountInv' /\ OnceInv' /\ PinInv'
    BY <1>1, <1>5, <1>6, <1>10, CalmKeeps
  <1>13. WrapInv'
    <2> SUFFICES ASSUME OpenedOnce  PROVE WrapInv'
      BY <1>1 DEF WrapInv, OpenedOnce
    <2>1. \A s \in Threads : api'[s].quoted = 0 /\ api'[s].pc # "quote"
      BY <1>1, <1>6, Holds DEF Others
    <2>2. /\ agent'.announced \in p11'.swks =>
               atokens'[token_hash'].wrappingkey = agent'.announced
          /\ ~crashed'
      BY <1>1, <1>4, <1>5 DEF SessionInv, WrapInv
    <2> QED BY <2>1, <2>2 DEF WrapInv
  <1>14. SuccessInv'
    <2> SUFFICES ASSUME OpenedOnce  PROVE SuccessInv'
      BY <1>1 DEF SuccessInv, OpenedOnce
    <2>1. ASSUME NEW v \in agent'.known \ agent'.refused
          PROVE  p11'.copies[ObjectOf[v]] # 0
      <3>1. CASE v = u
        BY <1>2, <1>4, <1>8, <2>1, <3>1 DEF o
      <3>2. CASE v # u
        <4>1. v \in agent.known \ agent.refused /\ v \in Urls
          BY <1>1, <1>4, <2>1, <3>2
        <4>2. p11.copies[ObjectOf[v]] # 0 /\ ObjectOf[v] \in Objects
          BY <4>1 DEF SessionInv, SuccessInv
        <4> QED BY <1>8, <4>2
      <3> QED BY <3>1, <3>2
    <2>2. ASSUME NEW s \in Threads, api'[s].pc \in {"returned", "unlock"}, api'[s].ok,
                 api'[s].url \notin agent'.refused
          PROVE  /\ token_hash' # 0 /\ api'[s].url \in Urls
                 /\ p11'.copies[ObjectOf[api'[s].url]] # 0
      <3>1. CASE s = t
        BY <1>1, <1>2, <1>6, <1>7, <1>8, <2>2, <3>1 DEF o
      <3>2. CASE s # t
        <4>1. api'[s] = api[s] /\ api[s].url \notin agent.refused
          BY <1>4, <1>6, <2>2, <3>2 DEF Others
        <4>2. api[s].url \in Urls /\ p11.copies[ObjectOf[api[s].url]] # 0
          BY <2>2, <4>1 DEF SessionInv, SuccessInv
        <4>3. ObjectOf[api[s].url] \in Objects
          BY <4>2
        <4> QED BY <1>1, <1>2, <1>8, <4>1, <4>2, <4>3
      <3> QED BY <3>1, <3>2
    <2> QED BY <2>1, <2>2 DEF SuccessInv
  <1>15. CopiesInv'
    <2> SUFFICES ASSUME ~TokenMayFail, OpenedOnce, NEW x \in Objects
                 PROVE  \/ p11'.copies[x] <= Cardinality(agent'.known \cap UrisNaming(x))
                        \/ /\ p11'.copies[x] = 1 /\ agent'.known \cap UrisNaming(x) = {}
                           /\ \/ Dead'
                              \/ \A s \in Threads : api'[s].url \in UrisNaming(x) => ~Past(api'[s])
      BY <1>1 DEF CopiesInv, OpenedOnce, UrisNaming, Past
    <2>1. \/ p11.copies[x] <= Cardinality(agent.known \cap UrisNaming(x))
          \/ /\ p11.copies[x] = 1 /\ agent.known \cap UrisNaming(x) = {}
             /\ \A s \in Threads : api[s].url \in UrisNaming(x) => ~Past(api[s])
      BY <1>2 DEF SessionInv, CopiesInv, Dead
    <2>2. CASE x = o
      <3> DEFINE K == agent.known \cap UrisNaming(x)
      <3>1. u \in UrisNaming(x) /\ api[t].url \in UrisNaming(x)
        BY <1>2, <2>2 DEF UrisNaming, o, u
      <3>2. p11.copies[x] <= Cardinality(K)
        BY <1>2, <2>1, <3>1
      <3>3. IsFiniteSet(K) /\ u \notin K /\ agent'.known \cap UrisNaming(x) = K \cup {u}
        <4>1. K \subseteq Urls
          BY <1>1
        <4>2. IsFiniteSet(K)
          BY <4>1, FS_Subset
        <4> QED BY <1>2, <1>4, <3>1, <4>2
      <3> HIDE DEF K
      <3>4. Cardinality(K \cup {u}) = Cardinality(K) + 1 /\ Cardinality(K) \in Nat
        BY <3>3, FS_AddElement, FS_CardinalityType
      <3>5. p11'.copies[x] <= p11.copies[x] + 1 /\ p11.copies[x] \in Nat /\ p11'.copies[x] \in Nat
        <4>1. p11.copies[x] \in Nat
          BY <1>8
        <4>2. p11'.copies[x] \in {p11.copies[x], p11.copies[x] + 1}
          BY <1>5
        <4> QED BY <4>1, <4>2
      <3>6. p11'.copies[x] <= Cardinality(K \cup {u})
        BY <3>2, <3>4, <3>5
      <3> QED BY <3>3, <3>6
    <2>3. CASE x # o
      <3>1. u \notin UrisNaming(x)
        BY <2>3 DEF UrisNaming, o
      <3>2. agent'.known \cap UrisNaming(x) = agent.known \cap UrisNaming(x)
        BY <1>4, <3>1
      <3>3. p11'.copies[x] = p11.copies[x]
        BY <1>5, <2>3
      <3>4. \A s \in Threads : Past(api'[s]) => api'[s] = api[s]
        BY <1>6 DEF Others, Past
      <3> QED BY <2>1, <3>2, <3>3, <3>4
    <2> QED BY <2>2, <2>3
  <1> QED BY <1>11, <1>12, <1>13, <1>14, <1>15 DEF SessionInv

-----------------------------------------------------------------------------
(* The specification keeps the invariant. *)

LEMMA InitSession == ApimoduleInit => SessionInv
  <1> SUFFICES ASSUME ApimoduleInit  PROVE SessionInv
    OBVIOUS
  <1>1. PICK pin \in Pins \cup {NoPin}, rsa \in SUBSET (Objects \ AesObjects) :
          /\ pin = NoPin => rsa = {}
          /\ p11 = [initialized |-> FALSE, present |-> pin # NoPin, pin |-> pin,
                    login |-> "none", open |-> {}, searching |-> {},
                    generated |-> 0, pairs |-> {}, swks |-> {},
                    copies |-> [o \in Objects |-> IF o \in rsa THEN 1 ELSE 0]]
    BY DEF ApimoduleInit
  <1>2. /\ ~p11.initialized /\ (p11.present <=> pin # NoPin) /\ p11.pin = pin
        /\ p11.login = "none" /\ p11.open = {} /\ p11.searching = {} /\ p11.generated = 0
        /\ p11.pairs = {} /\ p11.swks = {}
        /\ p11.copies = [o \in Objects |-> IF o \in rsa THEN 1 ELSE 0]
    BY <1>1
  <1>3. \A o \in Objects : /\ p11.copies[o] \in {0, 1}
                           /\ p11.copies[o] # 0 => pin # NoPin
    BY <1>1, <1>2
  <1>4. /\ token_hash = 0 /\ atokens = <<>> /\ preload_keys_flag = FALSE /\ openings = 0
        /\ crashed = FALSE
        /\ agent.known = {} /\ agent.announced = 0
    BY DEF ApimoduleInit
  <1>5. \A t \in Threads : /\ api[t].pc = "idle" /\ ~api[t].create /\ ~api[t].ok
                           /\ api[t].quoted = 0
    BY DEF ApimoduleInit, Fresh
  <1>6. \A t \in Threads : api[t].pc \notin OpenPcs /\ api[t].pc \notin Opening /\ ~Past(api[t])
    BY <1>5 DEF Past, Opening, OpenPcs, CreatingPcs
  <1>7. LibraryInv
    BY <1>2, <1>3, <1>4, <1>5, <1>6 DEF LibraryInv
  <1>8. SearchInv
    BY <1>2 DEF SearchInv, SearchesEnd
  <1>9. CountInv
    <2>1. {t \in Threads : api[t].pc \in OpenPcs} = {}
      BY <1>6
    <2>2. Cardinality(Threads) \in Nat
      BY FS_CardinalityType
    <2>3. Len(atokens) = 0
      BY <1>4
    <2>4. Cardinality({t \in Threads : api[t].pc \in OpenPcs}) = 0
      BY <2>1, FS_EmptySet
    <2>5. Len(atokens) + Cardinality({t \in Threads : api[t].pc \in OpenPcs})
            <= Cardinality(Threads)
      BY <2>2, <2>3, <2>4
    <2> QED BY <2>3, <2>5 DEF CountInv
  <1>10. OnceInv
    BY <1>2, <1>4, <1>5, <1>6 DEF OnceInv, StageOK, CreatingPcs
  <1>11. PinInv
    BY <1>2, <1>5 DEF PinInv, PinOK, TokenKeepsPin
  <1>12. WrapInv
    BY <1>2, <1>4, <1>5 DEF WrapInv
  <1>13. SuccessInv
    BY <1>4, <1>5 DEF SuccessInv
  <1>14. CopiesInv
    <2> SUFFICES ASSUME NEW o \in Objects
                 PROVE  \/ p11.copies[o] <= Cardinality(agent.known \cap UrisNaming(o))
                        \/ /\ p11.copies[o] = 1 /\ agent.known \cap UrisNaming(o) = {}
                           /\ \/ Dead
                              \/ \A t \in Threads : api[t].url \in UrisNaming(o) => ~Past(api[t])
      BY DEF CopiesInv
    <2>1. agent.known \cap UrisNaming(o) = {} /\ Cardinality(agent.known \cap UrisNaming(o)) = 0
      BY <1>4, FS_EmptySet
    <2> QED BY <1>3, <1>6, <2>1
  <1> QED BY <1>7, <1>8, <1>9, <1>10, <1>11, <1>12, <1>13, <1>14 DEF SessionInv

LEMMA NextSession == ApiInv /\ SessionInv /\ [ApimoduleNext]_apiVars => SessionInv'
  <1> SUFFICES ASSUME ApiInv, SessionInv, [ApimoduleNext]_apiVars  PROVE SessionInv'
    OBVIOUS
  <1>1. CASE UNCHANGED apiVars
    <2>1. UNCHANGED <<api, token_hash, atokens, preload_keys_flag, p11, agent, openings, crashed>>
      BY <1>1 DEF apiVars, history
    <2>2. LibraryInv' /\ SearchInv' /\ CountInv'
      BY <2>1 DEF SessionInv, LibraryInv, SearchInv, SearchesEnd, SessionOf, CountInv
    <2>3. OnceInv' /\ PinInv'
      BY <2>1 DEF SessionInv, OnceInv, OpenedOnce, StageOK, Private, Open, PinInv, PinOK,
                  TokenKeepsPin
    <2>4. WrapInv' /\ SuccessInv' /\ CopiesInv'
      BY <2>1 DEF SessionInv, WrapInv, SuccessInv, CopiesInv, OpenedOnce, Dead, Past, UrisNaming
    <2> QED BY <2>2, <2>3, <2>4 DEF SessionInv
  <1>2. ASSUME NEW t \in Threads, OpenToken(t)  PROVE SessionInv'
    BY <1>2, FindtokenSession, InittokenSession, OpensessionSession, LoginSoSession,
       InitpinSession, LogoutSession, LoginSession, FinalizeSession, InitializeSession,
       CacheSession
       DEF OpenToken
  <1>3. ASSUME NEW t \in Threads, AgentStep(t)  PROVE SessionInv'
    <2>1. CASE load_failed(t)
      BY <2>1, FailedSession DEF load_failed, In, history
    <2> QED BY <1>3, <2>1, LockSession, GetChallengeSession, GenerateSession, ExportSession,
               SetWrappingKeySession, LoadKeySession
            DEF AgentStep
  <1> QED BY <1>1, <1>2, <1>3, InitialiseSession, KeyLoadSession, FindObjectSession
          DEF ApimoduleNext

LEMMA SessionInvariant == ApimoduleSpec => [](ApiInv /\ SessionInv)
  <1>1. ApimoduleInit => ApiInv /\ SessionInv
    BY InitApiInv, InitSession
  <1>2. (ApiInv /\ SessionInv) /\ [ApimoduleNext]_apiVars => (ApiInv /\ SessionInv)'
    BY NextApiInv, NextSession
  <1> QED BY <1>1, <1>2, PTL DEF ApimoduleSpec

-----------------------------------------------------------------------------
(* What it establishes. *)

\* The table is read and written without a lock, and entries get lost; but no more
\* of them, over any number of loads, than there are threads.
THEOREM TokensBounded == ApimoduleSpec => []OneTokenPerThread
  <1>1. ASSUME ApiInv, SessionInv  PROVE OneTokenPerThread
    <2> DEFINE O == {t \in Threads : api[t].pc \in OpenPcs}
    <2>1. Cardinality(O) \in Nat /\ Cardinality(Threads) \in Nat
      <3>1. O \subseteq Threads
        OBVIOUS
      <3> HIDE DEF O
      <3> QED BY <3>1, FS_Subset, FS_CardinalityType
    <2>2. Len(atokens) + Cardinality(O) <= Cardinality(Threads) /\ Len(atokens) \in Nat
      BY <1>1 DEF SessionInv, CountInv, ApiInv, ApimoduleTypeOK
    <2> HIDE DEF O
    <2> QED BY <2>1, <2>2 DEF OneTokenPerThread
  <1> QED BY <1>1, SessionInvariant, PTL

\* The token in the table can be used for as long as it is there, if it was opened
\* once: its session stays open, its user logged in, and its pin is the one later
\* uris have to give, whatever calls fail in between.
THEOREM TokenUsable == ApimoduleSpec => []CachedTokenUsable
  <1>1. ApiInv /\ SessionInv => CachedTokenUsable
    BY DEF SessionInv, OnceInv, CachedTokenUsable
  <1> QED BY <1>1, SessionInvariant, PTL

\* The challenge a load has handed out is that of the key pair the token has, and
\* the wrapping key it has for the announced session is the one it unwraps keys
\* with, through every failure of a callback; and no challenge handed out is NULL.
THEOREM WrappingKeyAgreement == ApimoduleSpec => []WrappingKeysAgree
  <1>1. ApiInv /\ SessionInv => WrappingKeysAgree
    BY DEF SessionInv, WrapInv, WrappingKeysAgree
  <1> QED BY <1>1, SessionInvariant, PTL

\* A load that reports success has its key in the token: it was found there, or was
\* brought by this load or by an earlier one the agent remembers; unless the token
\* refused it then.
THEOREM SuccessIsReal == ApimoduleSpec => []SuccessHasObject
  <1>1. ApiInv /\ SessionInv => SuccessHasObject
    BY DEF SessionInv, SuccessInv, SuccessHasObject
  <1> QED BY <1>1, SessionInvariant, PTL

\* As long as PKCS#11 calls fail only for a reason in the token's state, every
\* search that is active belongs to a load that will end it.
THEOREM SearchesAreEnded ==
  ASSUME ~TokenMayFail
  PROVE  ApimoduleSpec => []SearchesEnd
  <1>1. ApiInv /\ SessionInv => SearchesEnd
    BY DEF SessionInv, SearchInv
  <1> QED BY <1>1, SessionInvariant, PTL

\* With the same condition, no uri brings its key into the token twice, although
\* the search that misses it comes before the agent's lock.
THEOREM KeysLoadedOnce ==
  ASSUME ~TokenMayFail
  PROVE  ApimoduleSpec => []LoadedOnce
  <1>1. ASSUME ApiInv, SessionInv  PROVE LoadedOnce
    <2> SUFFICES ASSUME OpenedOnce, NEW o \in Objects
                 PROVE  p11.copies[o] <= IF UrisNaming(o) = {} THEN 1
                                         ELSE Cardinality(UrisNaming(o))
      BY DEF LoadedOnce
    <2>1. \/ p11.copies[o] <= Cardinality(agent.known \cap UrisNaming(o))
          \/ p11.copies[o] = 1
      BY <1>1 DEF SessionInv, CopiesInv
    <2> DEFINE U == UrisNaming(o)
               K == agent.known \cap U
    <2>2. U \subseteq Urls /\ K \subseteq U
      BY DEF UrisNaming
    <2>3. p11.copies[o] \in Nat
      BY <1>1 DEF ApiInv, ApimoduleTypeOK, Token
    <2>a. p11.copies[o] <= Cardinality(K) \/ p11.copies[o] = 1
      BY <2>1
    <2> HIDE DEF K, U
    <2>4. /\ IsFiniteSet(U) /\ Cardinality(U) \in Nat /\ Cardinality(K) \in Nat
          /\ Cardinality(K) <= Cardinality(U)
      BY <2>2, FS_Subset, FS_CardinalityType
    <2>5. U # {} => Cardinality(U) # 0
      BY <2>4, FS_EmptySet
    <2>6. U = {} => Cardinality(U) = 0
      BY FS_EmptySet
    <2>7. p11.copies[o] <= IF U = {} THEN 1 ELSE Cardinality(U)
      BY <2>a, <2>3, <2>4, <2>5, <2>6
    <2> QED BY <2>7 DEF U
  <1> QED BY <1>1, SessionInvariant, PTL

\* With the same condition, and if the library can have a session at all, a token
\* that was created has a user pin once its creation is over: between C_InitToken
\* and C_InitPIN nothing that one opener alone does can fail.
THEOREM TokenHasPin ==
  ASSUME ~TokenMayFail, Handles # {}
  PROVE  ApimoduleSpec => []TokenKeepsPin
  <1>1. ApiInv /\ SessionInv => TokenKeepsPin
    <2> SUFFICES ASSUME ApiInv, SessionInv, OpenedOnce  PROVE TokenKeepsPin
      BY DEF TokenKeepsPin
    <2> QED BY DEF SessionInv, PinInv
  <1> QED BY <1>1, SessionInvariant, PTL

=============================================================================
