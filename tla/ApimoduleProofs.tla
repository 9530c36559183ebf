--------------------------- MODULE ApimoduleProofs ---------------------------
(***************************************************************************)
(* Proofs about Apimodule, for every set of threads, uris, keys, pins and  *)
(* PKCS#11 sessions, whether or not the PKCS#11 library's calls may fail:  *)
(* the token is created once, and keys are preloaded once.                 *)
(***************************************************************************)
EXTENDS Apimodule, FiniteSetTheorems, TLAPS

USE ApimoduleAssumption

-----------------------------------------------------------------------------
(* The inductive invariant. *)

\* Where init_apimodule_token and apimodule_createtoken are.
OpenPcs == CreatingPcs \cup {"findtoken", "opensession", "logout", "login", "cache"}

\* What a place in a load says of the thread's variables and of the tables: who
\* is under the agent's lock, when the token may be created, and which entries of
\* the token table there are.
PlaceOK(t, l) ==
  /\ l.pc \notin {"idle", "returned"} => l.url \in Urls /\ preload_keys_flag
  /\ l.pc \in {"npm", "generate", "quote", "unlock"} \/ l.create => agent.holder = t
  /\ l.create => l.pc \in OpenPcs \cup {"npm", "generate", "quote"}
  /\ l.pc \in CreatingPcs => l.create
  /\ l.pc = "inittoken" => ~p11.present
  /\ l.pc = "cache" => l.session \in Handles
  /\ l.atoken <= Len(atokens) /\ l.inner <= Len(atokens)
  /\ l.pc \in {"findobjectsinit", "findobjects", "findobjectsfinal", "generate", "quote"} =>
       l.atoken # 0 /\ token_hash # 0
  /\ l.pc = "quote" => l.inner # 0
  /\ l.quoted # 0 => token_hash # 0 /\ l.pc = "npm"
  /\ l.pc = "generate" \/ (l.create /\ l.pc \in OpenPcs) => p11.generated < MaxPairs
  /\ l.todo # <<>> => preload_keys_flag
  /\ l.pc # "preload_nested"

ApiInv ==
  /\ ApimoduleTypeOK
  /\ \A t \in Threads : PlaceOK(t, api[t])
  /\ agent.announced # 0 => token_hash # 0
  /\ inits <= 1 /\ (inits = 1 => p11.present)
  /\ \A s, t \in Threads : api[s].todo # <<>> /\ api[t].todo # <<>> => s = t

-----------------------------------------------------------------------------
(* Types of records that steps build. *)

LEMMA FreshType ==
  ASSUME NEW u \in Urls \cup {NoUrl}, NEW todo \in Seq(Urls)
  PROVE  /\ Fresh(u, todo) \in Load
         /\ Fresh(u, todo).pc = "idle" /\ Fresh(u, todo).url = u
         /\ ~Fresh(u, todo).create /\ Fresh(u, todo).atoken = 0 /\ Fresh(u, todo).inner = 0
         /\ Fresh(u, todo).quoted = 0 /\ Fresh(u, todo).todo = todo
  <1>1. 0 \in 0..MaxPairs /\ 0 \in Nat
    OBVIOUS
  <1> QED BY <1>1 DEF Fresh, Load, ApiPcs

LEMMA LoggedOutType ==
  ASSUME NEW p \in Token
  PROVE  /\ LoggedOut(p) \in Token
         /\ LoggedOut(p).present = p.present /\ LoggedOut(p).generated = p.generated
         /\ Finalized(p) \in Token
         /\ Finalized(p).present = p.present /\ Finalized(p).generated = p.generated
  <1>1. [o \in Objects |-> IF o \in AesObjects THEN 0 ELSE p.copies[o]] \in [Objects -> Nat]
    BY DEF Token
  <1>2. /\ LoggedOut(p) \in Token
        /\ LoggedOut(p).present = p.present /\ LoggedOut(p).generated = p.generated
    BY <1>1 DEF LoggedOut, Token
  <1> HIDE DEF LoggedOut
  <1> QED BY <1>2 DEF Finalized, Token

LEMMA OutcomeType ==
  ASSUME NEW cond \in BOOLEAN, NEW ok \in Outcome(cond)
  PROVE  ok \in BOOLEAN /\ (ok => cond)
  BY DEF Outcome

LEMMA TodoAfterType ==
  ASSUME ApimoduleTypeOK, NEW t \in Threads, NEW ok
  PROVE  /\ todo_after(t, ok) \in Seq(Urls)
         /\ todo_after(t, ok) # <<>> => api[t].todo # <<>>
  BY DEF todo_after, ApimoduleTypeOK, Load

-----------------------------------------------------------------------------
(* Steps of one thread. *)

\* What a step of t does to the tables leaves the place of another thread as it is.
LEMMA OthersStay ==
  ASSUME ApiInv, NEW t \in Threads, NEW s \in Threads, s # t,
         preload_keys_flag => preload_keys_flag',
         Len(atokens) <= Len(atokens'), Len(atokens') \in Nat,
         token_hash # 0 => token_hash' # 0,
         agent.holder = s => agent'.holder = s,
         agent.holder = t \/ UNCHANGED <<p11.present, p11.generated>>,
         api'[s] = api[s]
  PROVE  PlaceOK(s, api[s])'
  <1>1. api[s] \in Load /\ PlaceOK(s, api[s]) /\ Len(atokens) \in Nat
    BY DEF ApiInv, ApimoduleTypeOK
  <1>2. agent.holder = t => api[s].pc # "generate" /\ ~api[s].create
    BY <1>1 DEF PlaceOK
  <1>3. api[s].atoken \in Nat /\ api[s].inner \in Nat
    BY <1>1 DEF Load
  <1>4. api[s].atoken <= Len(atokens') /\ api[s].inner <= Len(atokens')
    BY <1>1, <1>3 DEF PlaceOK
  <1>5. api[s].pc = "inittoken" => ~p11'.present
    BY <1>1, <1>2 DEF PlaceOK, CreatingPcs
  <1>6. api[s].pc = "generate" \/ (api[s].create /\ api[s].pc \in OpenPcs) =>
          p11'.generated < MaxPairs
    BY <1>1, <1>2 DEF PlaceOK
  <1> QED BY <1>1, <1>4, <1>5, <1>6 DEF PlaceOK

\* A step of t: the invariant follows from what it does to t and to the tables.
LEMMA ThreadStep ==
  ASSUME ApiInv, NEW t \in Threads, NEW l \in Load, api' = [api EXCEPT ![t] = l],
         token_hash' \in 0..Len(atokens'), atokens' \in Seq(AToken),
         preload_keys_flag' \in BOOLEAN, p11' \in Token, agent' \in Agent,
         inits' \in Nat, openings' \in 0..2, crashed' \in BOOLEAN,
         preload_keys_flag => preload_keys_flag',
         Len(atokens) <= Len(atokens'),
         token_hash # 0 => token_hash' # 0,
         \A s \in Threads \ {t} : agent.holder = s => agent'.holder = s,
         agent.holder = t \/ UNCHANGED <<p11.present, p11.generated>>,
         agent'.announced # 0 => token_hash' # 0,
         inits' <= 1 /\ (inits' = 1 => p11'.present),
         l.todo # <<>> => \A s \in Threads \ {t} : api[s].todo = <<>>,
         PlaceOK(t, api[t])'
  PROVE  ApiInv'
  <1>1. /\ api' \in [Threads -> Load]
        /\ api'[t] = l
        /\ \A s \in Threads \ {t} : api'[s] = api[s]
    BY DEF ApiInv, ApimoduleTypeOK
  <1>2. ApimoduleTypeOK'
    BY <1>1 DEF ApimoduleTypeOK
  <1>3. ASSUME NEW s \in Threads  PROVE PlaceOK(s, api[s])'
    <2>1. CASE s = t
      BY <2>1
    <2>2. CASE s # t
      <3>1. Len(atokens') \in Nat
        OBVIOUS
      <3> QED BY <1>1, <2>2, <3>1, OthersStay
    <2> QED BY <2>1, <2>2
  <1>4. \A r, s \in Threads : api'[r].todo # <<>> /\ api'[s].todo # <<>> => r = s
    BY <1>1 DEF ApiInv
  <1> QED BY <1>2, <1>3, <1>4 DEF ApiInv

\* A step of t that changes, besides its place, at most the token's sessions,
\* login and objects.
LEMMA QuietStep ==
  ASSUME ApiInv, NEW t \in Threads, NEW l \in Load, api' = [api EXCEPT ![t] = l],
         UNCHANGED <<token_hash, atokens, preload_keys_flag, agent, inits, crashed>>,
         openings' \in 0..2,
         p11' \in Token, UNCHANGED <<p11.present, p11.generated>>,
         l.todo # <<>> => api[t].todo # <<>>,
         PlaceOK(t, l)
  PROVE  ApiInv'
  <1>1. api'[t] = l
    BY DEF ApiInv, ApimoduleTypeOK
  <1>2. PlaceOK(t, api[t])'
    BY <1>1 DEF PlaceOK
  <1>3. Len(atokens) \in Nat
    BY DEF ApiInv, ApimoduleTypeOK
  <1>4. l.todo # <<>> => \A s \in Threads \ {t} : api[s].todo = <<>>
    BY DEF ApiInv
  <1>5. /\ token_hash' \in 0..Len(atokens') /\ atokens' \in Seq(AToken)
        /\ preload_keys_flag' \in BOOLEAN /\ agent' \in Agent
        /\ inits' \in Nat /\ crashed' \in BOOLEAN
    BY DEF ApiInv, ApimoduleTypeOK
  <1>6. /\ preload_keys_flag => preload_keys_flag'
        /\ Len(atokens) <= Len(atokens')
        /\ token_hash # 0 => token_hash' # 0
        /\ \A s \in Threads \ {t} : agent.holder = s => agent'.holder = s
    BY <1>3
  <1>7. /\ agent'.announced # 0 => token_hash' # 0
        /\ inits' <= 1 /\ (inits' = 1 => p11'.present)
    BY DEF ApiInv
  <1> QED BY <1>2, <1>4, <1>5, <1>6, <1>7, ThreadStep

-----------------------------------------------------------------------------
(* Opening and creating a token. *)

LEMMA EndsStep ==
  ASSUME ApiInv, NEW t \in Threads, NEW ok \in BOOLEAN,
         agent.holder = t, api[t].url \in Urls, preload_keys_flag,
         api' = Ends(t, ok),
         UNCHANGED <<token_hash, atokens, preload_keys_flag, agent, inits, crashed>>,
         openings' \in 0..2,
         p11' \in Token, UNCHANGED <<p11.present, p11.generated>>
  PROVE  ApiInv'
  <1> DEFINE f == Fresh(api[t].url, api[t].todo)
             l == [f EXCEPT !.pc = "unlock", !.ok = ok]
  <1>1. api[t] \in Load /\ api[t].todo \in Seq(Urls) /\ PlaceOK(t, api[t])
    BY DEF ApiInv, ApimoduleTypeOK, Load
  <1>2. /\ f \in Load /\ ~f.create /\ f.atoken = 0 /\ f.inner = 0 /\ f.quoted = 0
        /\ f.todo = api[t].todo /\ f.url = api[t].url
    BY <1>1, FreshType
  <1> HIDE DEF f
  <1>3. /\ l \in Load /\ ~l.create /\ l.atoken = 0 /\ l.inner = 0 /\ l.quoted = 0
        /\ l.todo = api[t].todo /\ l.url = api[t].url /\ l.pc = "unlock"
    BY <1>2 DEF Load, ApiPcs
  <1>4. api' = [api EXCEPT ![t] = l]
    BY DEF Ends, f
  <1> HIDE DEF l
  <1>5. 0 <= Len(atokens)
    BY DEF ApiInv, ApimoduleTypeOK
  <1>6. PlaceOK(t, l)
    BY <1>1, <1>3, <1>5 DEF PlaceOK, CreatingPcs, OpenPcs
  <1> QED BY <1>3, <1>4, <1>6, QuietStep

LEMMA AsksStep ==
  ASSUME ApiInv, NEW t \in Threads, api[t].url \in Urls, preload_keys_flag,
         api' = Asks(t),
         UNCHANGED <<token_hash, atokens, preload_keys_flag, agent, inits, crashed>>,
         openings' \in 0..2,
         p11' \in Token, UNCHANGED <<p11.present, p11.generated>>
  PROVE  ApiInv'
  <1> DEFINE f == Fresh(api[t].url, api[t].todo)
             l == [f EXCEPT !.pc = "lock"]
  <1>1. api[t] \in Load /\ api[t].todo \in Seq(Urls) /\ PlaceOK(t, api[t])
    BY DEF ApiInv, ApimoduleTypeOK, Load
  <1>2. /\ f \in Load /\ ~f.create /\ f.atoken = 0 /\ f.inner = 0 /\ f.quoted = 0
        /\ f.todo = api[t].todo /\ f.url = api[t].url
    BY <1>1, FreshType
  <1> HIDE DEF f
  <1>3. /\ l \in Load /\ ~l.create /\ l.atoken = 0 /\ l.inner = 0 /\ l.quoted = 0
        /\ l.todo = api[t].todo /\ l.url = api[t].url /\ l.pc = "lock"
    BY <1>2 DEF Load, ApiPcs
  <1>4. api' = [api EXCEPT ![t] = l]
    BY DEF Asks, f
  <1> HIDE DEF l
  <1>5. 0 <= Len(atokens)
    BY DEF ApiInv, ApimoduleTypeOK
  <1>6. PlaceOK(t, l)
    BY <1>1, <1>3, <1>5 DEF PlaceOK, CreatingPcs, OpenPcs
  <1> QED BY <1>3, <1>4, <1>6, QuietStep

LEMMA ReturnsStep ==
  ASSUME ApiInv, NEW t \in Threads, NEW ok \in BOOLEAN, preload_keys_flag,
         api' = Returns(t, ok),
         UNCHANGED <<token_hash, atokens, preload_keys_flag, agent, inits, crashed>>,
         openings' \in 0..2,
         p11' \in Token, UNCHANGED <<p11.present, p11.generated>>
  PROVE  ApiInv'
  <1> DEFINE f == Fresh(api[t].url, todo_after(t, ok))
             l == [f EXCEPT !.pc = "returned", !.ok = ok]
  <1>1. api[t] \in Load /\ api[t].url \in Urls \cup {NoUrl} /\ PlaceOK(t, api[t])
    BY DEF ApiInv, ApimoduleTypeOK, Load
  <1>a. todo_after(t, ok) \in Seq(Urls) /\ (todo_after(t, ok) # <<>> => api[t].todo # <<>>)
    BY TodoAfterType DEF ApiInv
  <1>2. /\ f \in Load /\ ~f.create /\ f.atoken = 0 /\ f.inner = 0 /\ f.quoted = 0
        /\ f.todo = todo_after(t, ok)
    BY <1>1, <1>a, FreshType
  <1> HIDE DEF f
  <1>3. /\ l \in Load /\ ~l.create /\ l.atoken = 0 /\ l.inner = 0 /\ l.quoted = 0
        /\ l.todo = todo_after(t, ok) /\ l.pc = "returned"
    BY <1>2 DEF Load, ApiPcs
  <1>4. api' = [api EXCEPT ![t] = l]
    BY DEF Returns, f
  <1> HIDE DEF l
  <1>5. 0 <= Len(atokens)
    BY DEF ApiInv, ApimoduleTypeOK
  <1>6. PlaceOK(t, l)
    BY <1>1, <1>3, <1>5 DEF PlaceOK, CreatingPcs, OpenPcs
  <1> QED BY <1>a, <1>3, <1>4, <1>6, QuietStep

\* init_apimodule_token fails.
LEMMA NoTokenStep ==
  ASSUME ApiInv, NEW t \in Threads, api[t].pc \in OpenPcs, api' = NoToken(t),
         UNCHANGED <<token_hash, atokens, preload_keys_flag, p11, agent, inits, crashed>>,
         openings' \in 0..2
  PROVE  ApiInv'
  <1>1. PlaceOK(t, api[t]) /\ p11 \in Token /\ FALSE \in BOOLEAN
    BY DEF ApiInv, ApimoduleTypeOK
  <1>2. api[t].url \in Urls /\ preload_keys_flag
    BY <1>1 DEF PlaceOK, OpenPcs, CreatingPcs
  <1>3. CASE api[t].create
    <2>1. agent.holder = t /\ api' = Ends(t, FALSE)
      BY <1>1, <1>3 DEF PlaceOK, NoToken
    <2> QED BY <1>1, <1>2, <2>1, EndsStep
  <1>4. CASE ~api[t].create
    BY <1>1, <1>2, <1>4, AsksStep DEF NoToken
  <1> QED BY <1>3, <1>4

\* Moving on from one call of init_apimodule_token to the next.
LEMMA OpenPlace ==
  ASSUME ApiInv, NEW t \in Threads, api[t].pc \in OpenPcs,
         NEW pc \in OpenPcs, pc # "inittoken",
         pc \in CreatingPcs => api[t].pc \in CreatingPcs,
         NEW h \in Handles \cup {NoHandle}, pc = "cache" => h \in Handles
  PROVE  /\ [api[t] EXCEPT !.pc = pc, !.session = h] \in Load
         /\ PlaceOK(t, [api[t] EXCEPT !.pc = pc, !.session = h])
         /\ [api[t] EXCEPT !.pc = pc, !.session = h].todo = api[t].todo
  <1> DEFINE l == [api[t] EXCEPT !.pc = pc, !.session = h]
  <1>1. api[t] \in Load /\ PlaceOK(t, api[t])
    BY DEF ApiInv, ApimoduleTypeOK
  <1>2. pc \in ApiPcs
    BY DEF OpenPcs, CreatingPcs, ApiPcs
  <1>3. /\ l \in Load /\ l.pc = pc /\ l.session = h /\ l.url = api[t].url
        /\ l.create = api[t].create /\ l.atoken = api[t].atoken /\ l.inner = api[t].inner
        /\ l.quoted = api[t].quoted /\ l.todo = api[t].todo
    BY <1>1, <1>2 DEF Load
  <1> HIDE DEF l
  <1>4. /\ pc \notin {"idle", "returned", "npm", "generate", "quote", "unlock", "findobjectsinit",
                       "findobjects", "findobjectsfinal", "preload_nested"}
        /\ api[t].pc \notin {"idle", "returned"}
        /\ api[t].quoted = 0
    BY <1>1 DEF OpenPcs, CreatingPcs, PlaceOK
  <1>5. PlaceOK(t, l)
    BY <1>1, <1>3, <1>4 DEF PlaceOK
  <1> QED BY <1>3, <1>5 DEF l

LEMMA TokenCallStep ==
  ASSUME ApiInv, NEW t \in Threads, api[t].pc \in OpenPcs,
         NEW pc \in OpenPcs, pc # "inittoken",
         pc \in CreatingPcs => api[t].pc \in CreatingPcs,
         NEW cond \in BOOLEAN, pc = "cache" /\ cond => api[t].session \in Handles,
         NEW p \in Token, p.present = p11.present, p.generated = p11.generated,
         token_call(t, cond, p, pc)
  PROVE  ApiInv'
  <1> DEFINE l == [api[t] EXCEPT !.pc = pc]
  <1>1. api \in [Threads -> Load] /\ api[t] \in Load /\ openings \in 0..2
    BY DEF ApiInv, ApimoduleTypeOK
  <1>2. UNCHANGED <<token_hash, atokens, preload_keys_flag, agent, inits, openings, crashed>>
    BY DEF token_call, history
  <1>3. CASE cond /\ p11' = p /\ api' = Goes(t, pc)
    <2>1. api[t].session \in Handles \cup {NoHandle}
      BY <1>1 DEF Load
    <2> DEFINE m == [api[t] EXCEPT !.pc = pc, !.session = api[t].session]
    <2>2. l = m
      BY <1>1 DEF Load
    <2>5. m \in Load /\ PlaceOK(t, m) /\ m.todo = api[t].todo
      BY <1>3, <2>1, OpenPlace, ZenonT(60)
    <2>4. api' = [api EXCEPT ![t] = l]
      BY <1>1, <1>3 DEF Goes
    <2> HIDE DEF l, m
    <2>3. l \in Load /\ PlaceOK(t, l) /\ l.todo = api[t].todo
      BY <2>2, <2>5
    <2> QED BY <1>1, <1>2, <1>3, <2>3, <2>4, QuietStep
  <1>4. CASE p11' = p11 /\ api' = NoToken(t)
    BY <1>1, <1>2, <1>4, NoTokenStep
  <1>5. PICK ok \in Outcome(cond) : /\ p11' = IF ok THEN p ELSE p11
                                    /\ api' = IF ok THEN Goes(t, pc) ELSE NoToken(t)
    BY DEF token_call
  <1>6. ok \in BOOLEAN /\ (ok => cond)
    BY OutcomeType
  <1> QED BY <1>3, <1>4, <1>5, <1>6

LEMMA SessionCallStep ==
  ASSUME ApiInv, NEW t \in Threads, api[t].pc \in OpenPcs,
         NEW pc \in OpenPcs, pc # "inittoken", pc # "cache",
         pc \in CreatingPcs => api[t].pc \in CreatingPcs,
         session_call(t, pc)
  PROVE  ApiInv'
  <1>1. api \in [Threads -> Load] /\ api[t] \in Load /\ p11 \in Token /\ openings \in 0..2
    BY DEF ApiInv, ApimoduleTypeOK
  <1>2. UNCHANGED <<token_hash, atokens, preload_keys_flag, agent, inits, openings, crashed>>
    BY DEF session_call, history
  <1>3. ASSUME NEW h \in Handles, p11' = [p11 EXCEPT !.open = @ \cup {h}],
               api' = [api EXCEPT ![t].pc = pc, ![t].session = h]
        PROVE  ApiInv'
    <2> DEFINE l == [api[t] EXCEPT !.pc = pc, !.session = h]
    <2>2. api' = [api EXCEPT ![t] = l] /\ l = [api[t] EXCEPT !.pc = pc, !.session = h]
      BY <1>1, <1>3
    <2>3. p11' \in Token /\ p11'.present = p11.present /\ p11'.generated = p11.generated
      BY <1>1, <1>3 DEF Token
    <2>1. l \in Load /\ PlaceOK(t, l) /\ l.todo = api[t].todo
      BY OpenPlace
    <2> HIDE DEF l
    <2> QED BY <1>1, <1>2, <2>1, <2>2, <2>3, QuietStep
  <1>4. CASE UNCHANGED p11 /\ api' = NoToken(t)
    BY <1>1, <1>2, <1>4, NoTokenStep
  <1> QED BY <1>3, <1>4 DEF session_call

\* C_Logout leaves the token, but for its session objects, as it is.
LEMMA LogoutCallStep ==
  ASSUME ApiInv, NEW t \in Threads, api[t].pc \in OpenPcs,
         NEW pc \in OpenPcs, pc # "inittoken", pc # "cache",
         pc \in CreatingPcs => api[t].pc \in CreatingPcs,
         logout_call(t, pc)
  PROVE  ApiInv'
  <1> DEFINE l == [api[t] EXCEPT !.pc = pc]
  <1>1. api \in [Threads -> Load] /\ api[t] \in Load /\ p11 \in Token /\ openings \in 0..2
    BY DEF ApiInv, ApimoduleTypeOK
  <1>2. UNCHANGED <<token_hash, atokens, preload_keys_flag, agent, inits, openings, crashed>>
        /\ api' = Goes(t, pc)
    BY DEF logout_call, history
  <1>3. p11' = p11 \/ p11' = LoggedOut(p11)
    BY DEF logout_call, Outcome
  <1>4. p11' \in Token /\ p11'.present = p11.present /\ p11'.generated = p11.generated
    BY <1>1, <1>3, LoggedOutType
  <1>5. api[t].session \in Handles \cup {NoHandle}
    BY <1>1 DEF Load
  <1> DEFINE m == [api[t] EXCEPT !.pc = pc, !.session = api[t].session]
  <1>6. l = m
    BY <1>1 DEF Load
  <1>9. m \in Load /\ PlaceOK(t, m) /\ m.todo = api[t].todo
    BY <1>5, OpenPlace
  <1>8. api' = [api EXCEPT ![t] = l]
    BY <1>1, <1>2 DEF Goes
  <1> HIDE DEF l, m
  <1>7. l \in Load /\ PlaceOK(t, l) /\ l.todo = api[t].todo
    BY <1>6, <1>9
  <1> QED BY <1>1, <1>2, <1>4, <1>7, <1>8, QuietStep

\* Moving on within a load, with nothing in the tables changed.
LEMMA GoesStep ==
  ASSUME ApiInv, NEW t \in Threads, NEW pc \in ApiPcs, api' = Goes(t, pc),
         UNCHANGED <<token_hash, atokens, preload_keys_flag, agent, inits, openings, crashed>>,
         p11' \in Token, UNCHANGED <<p11.present, p11.generated>>,
         PlaceOK(t, [api[t] EXCEPT !.pc = pc])
  PROVE  ApiInv'
  <1> DEFINE l == [api[t] EXCEPT !.pc = pc]
  <1>1. api \in [Threads -> Load] /\ api[t] \in Load /\ openings \in 0..2
    BY DEF ApiInv, ApimoduleTypeOK
  <1>2. l \in Load /\ l.todo = api[t].todo
    BY <1>1 DEF Load
  <1>3. api' = [api EXCEPT ![t] = l]
    BY <1>1 DEF Goes
  <1> HIDE DEF l
  <1> QED BY <1>1, <1>2, <1>3, QuietStep DEF l

LEMMA OpenTokenStep ==
  ASSUME ApiInv, NEW t \in Threads, OpenToken(t)
  PROVE  ApiInv'
  <1>a. /\ api \in [Threads -> Load] /\ api[t] \in Load /\ p11 \in Token
        /\ PlaceOK(t, api[t]) /\ openings \in 0..2 /\ atokens \in Seq(AToken)
        /\ api[t].session \in Handles \cup {NoHandle}
    BY DEF ApiInv, ApimoduleTypeOK, Load
  <1>1. CASE findtoken(t)
    <2>1. PICK ok \in Outcome(p11.initialized) :
            LET goes_on == ok /\ (p11.present \/ may_create(t))
            IN /\ api' = IF goes_on
                           THEN Goes(t, IF p11.present THEN "opensession" ELSE "inittoken")
                           ELSE NoToken(t)
               /\ openings' = IF goes_on /\ openings < 2 THEN openings + 1 ELSE openings
      BY <1>1 DEF findtoken
    <2>2. /\ UNCHANGED <<token_hash, atokens, preload_keys_flag, p11, agent, inits, crashed>>
          /\ api[t].pc = "findtoken"
      BY <1>1 DEF findtoken, In
    <2>3. openings' \in 0..2
      BY <1>a, <2>1
    <2>4. CASE api' = NoToken(t)
      BY <2>2, <2>3, <2>4, NoTokenStep DEF OpenPcs
    <2>5. CASE p11.present /\ api' = Goes(t, "opensession")
      <3> DEFINE l == [api[t] EXCEPT !.pc = "opensession"]
                 m == [api[t] EXCEPT !.pc = "opensession", !.session = api[t].session]
      <3>1. l = m
        BY <1>a DEF Load
      <3>2. m \in Load /\ PlaceOK(t, m) /\ m.todo = api[t].todo
        BY <1>a, <2>2, OpenPlace DEF OpenPcs, CreatingPcs
      <3>3. api' = [api EXCEPT ![t] = l]
        BY <1>a, <2>5 DEF Goes
      <3> HIDE DEF l, m
      <3> QED BY <1>a, <2>2, <2>3, <3>1, <3>2, <3>3, QuietStep
    <2>6. CASE ~p11.present /\ api[t].create /\ api' = Goes(t, "inittoken")
      <3> DEFINE l == [api[t] EXCEPT !.pc = "inittoken"]
      <3>1. /\ l \in Load /\ l.pc = "inittoken" /\ l.url = api[t].url /\ l.create
            /\ l.atoken = api[t].atoken /\ l.inner = api[t].inner
            /\ l.quoted = api[t].quoted /\ l.todo = api[t].todo
        BY <1>a, <2>6 DEF Load, ApiPcs
      <3>2. api' = [api EXCEPT ![t] = l]
        BY <1>a, <2>6 DEF Goes
      <3> HIDE DEF l
      <3>3. PlaceOK(t, l)
        BY <1>a, <2>2, <2>6, <3>1 DEF PlaceOK, OpenPcs, CreatingPcs
      <3> QED BY <1>a, <2>2, <2>3, <3>1, <3>2, <3>3, QuietStep
    <2> QED BY <2>1, <2>4, <2>5, <2>6 DEF may_create
  <1>2. CASE inittoken(t)
    <2>1. PICK ok \in Outcome(p11.initialized /\ p11.open = {}) :
            /\ p11' = IF ok THEN [p11 EXCEPT !.present = TRUE, !.pin = NoPin,
                                             !.copies = [o \in Objects |-> 0]]
                      ELSE p11
            /\ inits' = IF ok THEN inits + 1 ELSE inits
            /\ api' = IF ok THEN Goes(t, "opensession_so") ELSE NoToken(t)
      BY <1>2 DEF inittoken
    <2>2. /\ UNCHANGED <<token_hash, atokens, preload_keys_flag, agent, openings, crashed>>
          /\ api[t].pc = "inittoken"
      BY <1>2 DEF inittoken, In
    <2>3. CASE ~ok
      BY <1>a, <2>1, <2>2, <2>3, NoTokenStep DEF OpenPcs, CreatingPcs
    <2>4. CASE ok
      <3> DEFINE l == [api[t] EXCEPT !.pc = "opensession_so"]
                 m == [api[t] EXCEPT !.pc = "opensession_so", !.session = api[t].session]
      <3>1. l = m
        BY <1>a DEF Load
      <3>2. m \in Load /\ PlaceOK(t, m) /\ m.todo = api[t].todo
        BY <1>a, <2>2, OpenPlace DEF OpenPcs, CreatingPcs
      <3>3. api' = [api EXCEPT ![t] = l]
        BY <1>a, <2>1, <2>4 DEF Goes
      <3>4. m.pc = "opensession_so"
        BY <1>a DEF Load
      <3>b. [o \in Objects |-> 0] \in [Objects -> Nat]
        OBVIOUS
      <3>5. p11' \in Token /\ p11'.present /\ p11'.generated = p11.generated
        BY <1>a, <2>1, <2>4, <3>b DEF Token
      <3>6. agent.holder = t /\ ~p11.present
        BY <1>a, <2>2 DEF PlaceOK, CreatingPcs
      <3>7. inits' \in Nat /\ inits' <= 1
        BY <2>1, <2>4, <3>6 DEF ApiInv, ApimoduleTypeOK
      <3> HIDE DEF l, m
      <3>8. api'[t] = m
        BY <1>a, <3>1, <3>3
      <3>9. PlaceOK(t, api[t])'
        BY <2>2, <3>2, <3>4, <3>5, <3>8 DEF PlaceOK
      <3>10. m.todo # <<>> => \A s \in Threads \ {t} : api[s].todo = <<>>
        BY <3>2 DEF ApiInv
      <3>11. /\ token_hash' \in 0..Len(atokens') /\ atokens' \in Seq(AToken)
             /\ preload_keys_flag' \in BOOLEAN /\ agent' \in Agent
             /\ openings' \in 0..2 /\ crashed' \in BOOLEAN
             /\ agent'.announced # 0 => token_hash' # 0
        BY <2>2 DEF ApiInv, ApimoduleTypeOK
      <3>12. /\ preload_keys_flag => preload_keys_flag'
             /\ Len(atokens) <= Len(atokens')
             /\ token_hash # 0 => token_hash' # 0
             /\ \A s \in Threads \ {t} : agent.holder = s => agent'.holder = s
        BY <2>2, <3>11
      <3> QED BY <3>1, <3>2, <3>3, <3>5, <3>6, <3>7, <3>9, <3>10, <3>11, <3>12, ThreadStep
    <2> QED BY <2>3, <2>4
  <1>3. CASE opensession_so(t)
    BY <1>3, SessionCallStep DEF opensession_so, In, OpenPcs, CreatingPcs
  <1>4. CASE login_so(t)
    <2> DEFINE p == [p11 EXCEPT !.login = "so"]
    <2>1. p \in Token /\ p.present = p11.present /\ p.generated = p11.generated
      BY <1>a DEF Token
    <2>2. (Open(api[t].session) /\ p11.login # "user") \in BOOLEAN
      BY DEF Open
    <2>3. token_call(t, Open(api[t].session) /\ p11.login # "user", p, "initpin")
          /\ api[t].pc = "login_so"
      BY <1>4 DEF login_so, In
    <2> HIDE DEF p
    <2> QED BY <2>1, <2>2, <2>3, TokenCallStep DEF OpenPcs, CreatingPcs
  <1>5. CASE initpin(t)
    <2> DEFINE p == [p11 EXCEPT !.pin = PinOf[api[t].url]]
    <2>1. api[t].url \in Urls /\ api[t].pc = "initpin"
      BY <1>a, <1>5 DEF initpin, In, PlaceOK
    <2>2. p \in Token /\ p.present = p11.present /\ p.generated = p11.generated
      BY <1>a, <2>1 DEF Token
    <2>3. (Open(api[t].session) /\ p11.login = "so") \in BOOLEAN
      BY DEF Open
    <2>4. token_call(t, Open(api[t].session) /\ p11.login = "so", p, "logout_so")
      BY <1>5 DEF initpin
    <2> HIDE DEF p
    <2> QED BY <2>1, <2>2, <2>3, <2>4, TokenCallStep DEF OpenPcs, CreatingPcs
  <1>6. CASE logout_so(t)
    BY <1>6, LogoutCallStep DEF logout_so, In, OpenPcs, CreatingPcs
  <1> DEFINE user == [p11 EXCEPT !.login = "user"]
             can  == CanLogin(api[t].session, api[t].url)
  <1>b. user \in Token /\ user.present = p11.present /\ user.generated = p11.generated
    BY <1>a DEF Token
  <1>c. can \in BOOLEAN /\ (can => api[t].session \in Handles)
    BY <1>a DEF CanLogin, Open, Token
  <1>7. CASE login_created(t)
    <2>1. token_call(t, can, user, "finalize") /\ api[t].pc = "login_created"
      BY <1>7 DEF login_created, In
    <2> HIDE DEF user, can
    <2> QED BY <1>b, <1>c, <2>1, TokenCallStep DEF OpenPcs, CreatingPcs
  <1>8. CASE login(t)
    <2>1. token_call(t, can, user, "cache") /\ api[t].pc = "login"
      BY <1>8 DEF login, In
    <2> HIDE DEF user, can
    <2> QED BY <1>b, <1>c, <2>1, TokenCallStep DEF OpenPcs, CreatingPcs
  <1>9. CASE finalize(t) \/ initialize(t)
    <2>1. /\ api[t].pc \in {"finalize", "initialize"}
          /\ UNCHANGED <<token_hash, atokens, agent, inits, openings, crashed>>
      BY <1>9 DEF finalize, initialize, In, history
    <2>2. preload_keys_flag /\ api[t].create
      BY <1>a, <2>1 DEF PlaceOK, CreatingPcs
    <2>3. PICK pc \in {"initialize", "opensession"} :
            api' = Goes(t, pc) /\ (pc = "initialize" => api[t].pc = "finalize")
      BY <1>9, <2>2 DEF finalize, initialize, In
    <2>4. preload_keys_flag' = preload_keys_flag
      BY <1>9, <2>2 DEF finalize, initialize, preload_keys_flag_raised, ApiInv, ApimoduleTypeOK
    <2> DEFINE closed(q) == [q EXCEPT !.open = @ \ {api[t].session},
                                      !.searching = @ \ {api[t].session}]
    <2>5. \/ p11' = Finalized(p11) \/ p11' = [p11 EXCEPT !.initialized = TRUE]
          \/ \E q \in {p11, LoggedOut(p11)} : p11' \in {q, closed(q)}
      BY <1>9 DEF finalize, initialize
    <2>6. p11' \in Token /\ p11'.present = p11.present /\ p11'.generated = p11.generated
      <3>1. [p11 EXCEPT !.initialized = TRUE] \in Token
            /\ [p11 EXCEPT !.initialized = TRUE].present = p11.present
            /\ [p11 EXCEPT !.initialized = TRUE].generated = p11.generated
        BY <1>a DEF Token
      <3>2. \A q \in {p11, LoggedOut(p11)} :
              /\ q \in Token /\ q.present = p11.present /\ q.generated = p11.generated
        BY <1>a, LoggedOutType
      <3>3. \A q \in Token : /\ closed(q) \in Token /\ closed(q).present = q.present
                             /\ closed(q).generated = q.generated
        BY DEF Token
      <3> HIDE DEF closed
      <3>4. \A q \in {p11, LoggedOut(p11)} : p11' \in {q, closed(q)} =>
              p11' \in Token /\ p11'.present = p11.present /\ p11'.generated = p11.generated
        BY <3>2, <3>3
      <3> QED BY <1>a, <2>5, <3>1, <3>4, LoggedOutType
    <2> DEFINE l == [api[t] EXCEPT !.pc = pc]
               m == [api[t] EXCEPT !.pc = pc, !.session = api[t].session]
    <2>7. l = m
      BY <1>a DEF Load
    <2>8. m \in Load /\ PlaceOK(t, m) /\ m.todo = api[t].todo
      BY <1>a, <2>1, OpenPlace DEF OpenPcs, CreatingPcs
    <2>9. api' = [api EXCEPT ![t] = l]
      BY <1>a, <2>3 DEF Goes
    <2> HIDE DEF l, m
    <2> QED BY <1>a, <2>1, <2>4, <2>6, <2>7, <2>8, <2>9, QuietStep
  <1>10. CASE opensession(t)
    BY <1>10, SessionCallStep DEF opensession, In, OpenPcs, CreatingPcs
  <1>11. CASE logout(t)
    BY <1>11, LogoutCallStep DEF logout, In, OpenPcs, CreatingPcs
  <1>12. CASE cache_token(t)
    <2> DEFINE k == [pin |-> PinOf[api[t].url], session |-> api[t].session,
                     pair |-> 0, challenge |-> 0, wrappingkey |-> 0]
               n == Len(atokens) + 1
               pc == IF api[t].create THEN "generate" ELSE "findobjectsinit"
               l == [api[t] EXCEPT !.atoken = n, !.pc = pc]
    <2>1. /\ UNCHANGED <<preload_keys_flag, p11, agent, inits, openings, crashed>>
          /\ api[t].pc = "cache"
      BY <1>12 DEF cache_token, In, history
    <2>2. api[t].url \in Urls /\ api[t].session \in Handles /\ preload_keys_flag
      BY <1>a, <2>1 DEF PlaceOK
    <2>d. 0 \in 0..MaxPairs
      OBVIOUS
    <2>3. k \in AToken
      BY <2>2, <2>d DEF AToken
    <2>4. atokens' = Append(atokens, k)
      BY <1>12 DEF cache_token, cached_session
    <2>5. atokens' \in Seq(AToken) /\ Len(atokens') = n /\ n \in Nat /\ n # 0
      BY <1>a, <2>3, <2>4
    <2>6. token_hash' = n
      BY <1>12, <2>5 DEF cache_token
    <2>7. api' = [api EXCEPT ![t] = l]
      BY <1>a, <1>12, <2>5 DEF cache_token
    <2>8. pc \in {"generate", "findobjectsinit"} /\ (pc = "generate" <=> api[t].create)
      OBVIOUS
    <2> HIDE DEF pc
    <2>9. /\ l \in Load /\ l.atoken = n /\ l.pc = pc /\ l.url = api[t].url
          /\ l.create = api[t].create /\ l.inner = api[t].inner
          /\ l.quoted = api[t].quoted /\ l.todo = api[t].todo
      BY <1>a, <2>5, <2>8 DEF Load, ApiPcs
    <2> HIDE DEF l, k
    <2>10. api'[t] = l
      BY <1>a, <2>7
    <2>11. l.inner <= n /\ l.quoted = 0
      BY <1>a, <2>1, <2>9 DEF PlaceOK, Load
    <2>12. PlaceOK(t, api[t])'
      BY <1>a, <2>1, <2>2, <2>5, <2>6, <2>8, <2>9, <2>10, <2>11
         DEF PlaceOK, OpenPcs, CreatingPcs
    <2>13. l.todo # <<>> => \A s \in Threads \ {t} : api[s].todo = <<>>
      BY <2>9 DEF ApiInv
    <2>14. /\ preload_keys_flag' \in BOOLEAN /\ agent' \in Agent /\ p11' \in Token
           /\ openings' \in 0..2 /\ crashed' \in BOOLEAN
           /\ inits' \in Nat /\ inits' <= 1 /\ (inits' = 1 => p11'.present)
      BY <2>1 DEF ApiInv, ApimoduleTypeOK
    <2>15. /\ preload_keys_flag => preload_keys_flag'
           /\ Len(atokens) <= Len(atokens')
           /\ token_hash' # 0 /\ token_hash' \in 0..Len(atokens')
           /\ \A s \in Threads \ {t} : agent.holder = s => agent'.holder = s
      BY <1>a, <2>1, <2>5, <2>6
    <2>16. UNCHANGED <<p11.present, p11.generated>>
      BY <2>1
    <2> QED BY <2>5, <2>7, <2>9, <2>12, <2>13, <2>14, <2>15, <2>16, ThreadStep
  <1> QED BY <1>1, <1>2, <1>3, <1>4, <1>5, <1>6, <1>7, <1>8, <1>9, <1>10, <1>11, <1>12
          DEF OpenToken

-----------------------------------------------------------------------------
(* Calling C_Initialize and C_OnDemand_KeyLoad. *)

LEMMA InitialiseStep ==
  ASSUME ApiInv, NEW t \in Threads, C_Initialize(t)
  PROVE  ApiInv'
  <1>1. /\ api \in [Threads -> Load] /\ api[t] \in Load /\ p11 \in Token
        /\ PlaceOK(t, api[t]) /\ PreloadFile \in Seq(Urls)
    BY DEF ApiInv, ApimoduleTypeOK
  <1>2. /\ api[t].pc \in {"idle", "returned"} /\ api[t].todo = <<>>
        /\ p11' = [p11 EXCEPT !.initialized = TRUE]
        /\ preload_keys_flag' = TRUE
        /\ UNCHANGED <<token_hash, atokens, agent, inits, openings, crashed>>
    BY DEF C_Initialize, Outside, preload_keys_flag_raised, history
  <1>3. p11' \in Token /\ p11'.present = p11.present /\ p11'.generated = p11.generated
    BY <1>1, <1>2 DEF Token
  <1> DEFINE l == IF preload_keys_flag THEN api[t] ELSE [api[t] EXCEPT !.todo = PreloadFile]
  <1>4. /\ l \in Load /\ l.pc = api[t].pc /\ l.url = api[t].url /\ l.create = api[t].create
        /\ l.session = api[t].session /\ l.atoken = api[t].atoken /\ l.inner = api[t].inner
        /\ l.quoted = api[t].quoted
    BY <1>1 DEF Load
  <1>5. api' = [api EXCEPT ![t] = l]
    BY <1>1 DEF C_Initialize
  <1>6. l.todo # <<>> => \A s \in Threads \ {t} : api[s].todo = <<>>
    BY <1>2 DEF ApiInv, PlaceOK
  <1> HIDE DEF l
  <1>7. api'[t] = l
    BY <1>1, <1>5
  <1>8. PlaceOK(t, api[t])'
    BY <1>1, <1>2, <1>3, <1>4, <1>7 DEF PlaceOK, OpenPcs, CreatingPcs
  <1>9. /\ token_hash' \in 0..Len(atokens') /\ atokens' \in Seq(AToken)
        /\ preload_keys_flag' \in BOOLEAN /\ agent' \in Agent
        /\ openings' \in 0..2 /\ crashed' \in BOOLEAN /\ inits' \in Nat
        /\ agent'.announced # 0 => token_hash' # 0
        /\ inits' <= 1 /\ (inits' = 1 => p11'.present)
    BY <1>2, <1>3 DEF ApiInv, ApimoduleTypeOK
  <1>10. /\ preload_keys_flag => preload_keys_flag'
         /\ Len(atokens) <= Len(atokens')
         /\ token_hash # 0 => token_hash' # 0
         /\ \A s \in Threads \ {t} : agent.holder = s => agent'.holder = s
         /\ UNCHANGED <<p11.present, p11.generated>>
    BY <1>2, <1>3, <1>9
  <1> QED BY <1>3, <1>4, <1>5, <1>6, <1>8, <1>9, <1>10, ThreadStep

LEMMA KeyLoadStep ==
  ASSUME ApiInv, NEW t \in Threads, NEW u \in Urls, C_OnDemand_KeyLoad(t, u)
  PROVE  ApiInv'
  <1>1. /\ api \in [Threads -> Load] /\ api[t] \in Load /\ p11 \in Token
        /\ api[t].todo \in Seq(Urls) /\ token_hash \in Nat /\ token_hash <= Len(atokens)
        /\ Len(atokens) \in Nat /\ openings \in 0..2
    BY DEF ApiInv, ApimoduleTypeOK, Load
  <1> DEFINE f  == Fresh(u, api[t].todo)
             pc == IF token_hash = 0 THEN "findtoken" ELSE "findobjectsinit"
             l  == [f EXCEPT !.pc = pc, !.atoken = token_hash]
  <1>2. /\ f \in Load /\ f.url = u /\ ~f.create /\ f.inner = 0 /\ f.quoted = 0
        /\ f.todo = api[t].todo
    BY <1>1, FreshType
  <1>3. api' = [api EXCEPT ![t] = l] /\ preload_keys_flag
        /\ UNCHANGED <<token_hash, atokens, preload_keys_flag, p11, agent, inits, openings, crashed>>
    BY DEF C_OnDemand_KeyLoad, history
  <1>4. pc \in {"findtoken", "findobjectsinit"} /\ (pc = "findobjectsinit" => token_hash # 0)
    OBVIOUS
  <1> HIDE DEF f, pc
  <1>5. /\ l \in Load /\ l.url = u /\ ~l.create /\ l.inner = 0 /\ l.quoted = 0
        /\ l.todo = api[t].todo /\ l.pc = pc /\ l.atoken = token_hash
    BY <1>1, <1>2, <1>4 DEF Load, ApiPcs
  <1> HIDE DEF l
  <1>6. PlaceOK(t, l)
    BY <1>1, <1>3, <1>4, <1>5 DEF PlaceOK, OpenPcs, CreatingPcs
  <1> QED BY <1>1, <1>3, <1>5, <1>6, QuietStep

-----------------------------------------------------------------------------
(* Searching the object. *)

LEMMA FindObjectStep ==
  ASSUME ApiInv, NEW t \in Threads, FindObject(t)
  PROVE  ApiInv'
  <1> DEFINE h == SessionOf(t)
  <1>1. /\ api \in [Threads -> Load] /\ api[t] \in Load /\ p11 \in Token
        /\ PlaceOK(t, api[t]) /\ openings \in 0..2
    BY DEF ApiInv, ApimoduleTypeOK
  <1>2. /\ api[t].pc \in {"findobjectsinit", "findobjects", "findobjectsfinal"}
        /\ UNCHANGED <<token_hash, atokens, preload_keys_flag, agent, inits, openings, crashed>>
    BY DEF FindObject, findobjectsinit, findobjects, findobjectsfinal, In, history
  <1>3. api[t].url \in Urls /\ preload_keys_flag
    BY <1>1, <1>2 DEF PlaceOK
  <1>4. ASSUME NEW ok \in BOOLEAN, api' = Returns(t, ok),
               p11' \in Token, UNCHANGED <<p11.present, p11.generated>>
        PROVE  ApiInv'
    BY <1>1, <1>2, <1>3, <1>4, ReturnsStep
  <1>5. ASSUME NEW pc \in {"findobjects", "findobjectsfinal"}, NEW found \in BOOLEAN,
               api' = [api EXCEPT ![t] = [api[t] EXCEPT !.pc = pc, !.found = found]],
               p11' \in Token, UNCHANGED <<p11.present, p11.generated>>
        PROVE  ApiInv'
    <2> DEFINE l == [api[t] EXCEPT !.pc = pc, !.found = found]
    <2>1. /\ l \in Load /\ l.pc = pc /\ l.url = api[t].url /\ l.create = api[t].create
          /\ l.session = api[t].session /\ l.atoken = api[t].atoken /\ l.inner = api[t].inner
          /\ l.quoted = api[t].quoted /\ l.todo = api[t].todo
      BY <1>1 DEF Load, ApiPcs
    <2> HIDE DEF l
    <2>2. PlaceOK(t, l)
      BY <1>1, <1>2, <2>1 DEF PlaceOK, OpenPcs, CreatingPcs
    <2>3. api' = [api EXCEPT ![t] = l]
      BY <1>5 DEF l
    <2> QED BY <1>1, <1>2, <1>5, <2>1, <2>2, <2>3, QuietStep
  <1>6. CASE findobjectsinit(t)
    <2>1. CASE api' = Returns(t, FALSE) /\ UNCHANGED p11
      BY <1>1, <1>4, <2>1
    <2>2. CASE /\ h \in p11.open
               /\ p11' = [p11 EXCEPT !.searching = @ \cup {h}]
               /\ api' = Goes(t, "findobjects")
      <3>1. p11' \in Token /\ UNCHANGED <<p11.present, p11.generated>>
        BY <1>1, <2>2 DEF Token
      <3>2. api[t].found \in BOOLEAN
            /\ api' = [api EXCEPT ![t] = [api[t] EXCEPT !.pc = "findobjects",
                                                        !.found = api[t].found]]
        BY <1>1, <2>2 DEF Goes, Load
      <3> QED BY <1>5, <3>1, <3>2
    <2>3. PICK ok \in Outcome(Open(h) /\ h \notin p11.searching) :
            IF ok /\ pin_matches(t)
              THEN /\ p11' = [p11 EXCEPT !.searching = @ \cup {h}]
                   /\ api' = Goes(t, "findobjects")
              ELSE api' = Returns(t, FALSE) /\ UNCHANGED p11
      BY <1>6 DEF findobjectsinit
    <2>4. ok => h \in p11.open
      BY OutcomeType DEF Open
    <2> QED BY <2>1, <2>2, <2>3, <2>4
  <1>7. CASE findobjects(t)
    <2>1. UNCHANGED p11
      BY <1>7 DEF findobjects
    <2>2. CASE api' = Returns(t, FALSE)
      BY <1>1, <1>4, <2>1, <2>2
    <2>3. CASE api' = [api EXCEPT ![t].pc = "findobjectsfinal",
                                  ![t].found = Visible(h, api[t].url)]
      <3>1. Visible(h, api[t].url) \in BOOLEAN
        BY DEF Visible, Private, Open
      <3> HIDE DEF h
      <3> QED BY <1>1, <1>5, <2>1, <2>3, <3>1
    <2> QED BY <1>7, <2>2, <2>3 DEF findobjects
  <1>8. CASE findobjectsfinal(t)
    <2>1. CASE api' = Returns(t, FALSE) /\ UNCHANGED p11
      BY <1>1, <1>4, <2>1
    <2>2. ASSUME p11' = [p11 EXCEPT !.searching = search_over(t, @)],
                 NEW read \in Outcome(Visible(h, api[t].url)),
                 api' = IF api[t].found THEN Returns(t, read) ELSE Asks(t)
          PROVE  ApiInv'
      <3>1. p11' \in Token /\ UNCHANGED <<p11.present, p11.generated>>
        BY <1>1, <2>2 DEF Token, search_over
      <3>2. read \in BOOLEAN
        BY DEF Outcome, Visible, Private, Open
      <3>3. CASE api[t].found
        BY <1>4, <2>2, <3>1, <3>2, <3>3
      <3>4. CASE ~api[t].found
        BY <1>1, <1>2, <1>3, <2>2, <3>1, <3>4, AsksStep
      <3> QED BY <3>3, <3>4
    <2> QED BY <1>8, <2>1, <2>2 DEF findobjectsfinal
  <1> QED BY <1>6, <1>7, <1>8 DEF FindObject

-----------------------------------------------------------------------------
(* The agent's lock and the callbacks. *)

LEMMA EndsType ==
  ASSUME ApiInv, NEW t \in Threads, NEW ok \in BOOLEAN
  PROVE  \E l \in Load :
           /\ Ends(t, ok) = [api EXCEPT ![t] = l]
           /\ l.pc = "unlock" /\ ~l.create /\ l.atoken = 0 /\ l.inner = 0 /\ l.quoted = 0
           /\ l.todo = api[t].todo /\ l.url = api[t].url
  <1> DEFINE f == Fresh(api[t].url, api[t].todo)
             l == [f EXCEPT !.pc = "unlock", !.ok = ok]
  <1>1. api[t].url \in Urls \cup {NoUrl} /\ api[t].todo \in Seq(Urls)
    BY DEF ApiInv, ApimoduleTypeOK, Load
  <1>2. /\ f \in Load /\ ~f.create /\ f.atoken = 0 /\ f.inner = 0 /\ f.quoted = 0
        /\ f.todo = api[t].todo /\ f.url = api[t].url
    BY <1>1, FreshType
  <1>3. Ends(t, ok) = [api EXCEPT ![t] = l]
    BY DEF Ends
  <1> HIDE DEF f
  <1>4. /\ l \in Load /\ ~l.create /\ l.atoken = 0 /\ l.inner = 0 /\ l.quoted = 0
        /\ l.todo = api[t].todo /\ l.url = api[t].url /\ l.pc = "unlock"
    BY <1>2 DEF Load, ApiPcs
  <1> HIDE DEF l
  <1> QED BY <1>3, <1>4

LEMMA ReturnsType ==
  ASSUME ApiInv, NEW t \in Threads, NEW ok \in BOOLEAN
  PROVE  \E l \in Load :
           /\ Returns(t, ok) = [api EXCEPT ![t] = l]
           /\ l.pc = "returned" /\ ~l.create /\ l.atoken = 0 /\ l.inner = 0 /\ l.quoted = 0
           /\ l.todo # <<>> => api[t].todo # <<>>
  <1> DEFINE f == Fresh(api[t].url, todo_after(t, ok))
             l == [f EXCEPT !.pc = "returned", !.ok = ok]
  <1>1. api[t].url \in Urls \cup {NoUrl}
    BY DEF ApiInv, ApimoduleTypeOK, Load
  <1>2. todo_after(t, ok) \in Seq(Urls) /\ (todo_after(t, ok) # <<>> => api[t].todo # <<>>)
    BY TodoAfterType DEF ApiInv
  <1>3. /\ f \in Load /\ ~f.create /\ f.atoken = 0 /\ f.inner = 0 /\ f.quoted = 0
        /\ f.todo = todo_after(t, ok)
    BY <1>1, <1>2, FreshType
  <1>4. Returns(t, ok) = [api EXCEPT ![t] = l]
    BY DEF Returns
  <1> HIDE DEF f
  <1>5. /\ l \in Load /\ ~l.create /\ l.atoken = 0 /\ l.inner = 0 /\ l.quoted = 0
        /\ l.todo = todo_after(t, ok) /\ l.pc = "returned"
    BY <1>3 DEF Load, ApiPcs
  <1> HIDE DEF l
  <1> QED BY <1>2, <1>4, <1>5

\* A step under the agent's lock that neither opens nor creates a token.
LEMMA HeldStep ==
  ASSUME ApiInv, NEW t \in Threads, NEW l \in Load, api' = [api EXCEPT ![t] = l],
         agent.holder \in {t, NoThread}, agent' \in Agent, crashed' \in BOOLEAN,
         UNCHANGED <<token_hash, preload_keys_flag, inits, openings>>,
         atokens' \in Seq(AToken), Len(atokens') = Len(atokens),
         p11' \in Token, p11'.present = p11.present,
         agent.holder = t \/ UNCHANGED p11,
         agent'.announced # 0 => token_hash # 0,
         l.todo # <<>> => api[t].todo # <<>>,
         PlaceOK(t, api[t])'
  PROVE  ApiInv'
  <1>1. /\ token_hash' \in 0..Len(atokens')
        /\ preload_keys_flag' \in BOOLEAN /\ inits' \in Nat /\ openings' \in 0..2
        /\ inits' <= 1 /\ (inits' = 1 => p11'.present)
        /\ Len(atokens) \in Nat
    BY DEF ApiInv, ApimoduleTypeOK
  <1>2. /\ preload_keys_flag => preload_keys_flag'
        /\ Len(atokens) <= Len(atokens')
        /\ token_hash # 0 => token_hash' # 0
        /\ \A s \in Threads \ {t} : agent.holder = s => agent'.holder = s
        /\ agent.holder = t \/ UNCHANGED <<p11.present, p11.generated>>
        /\ agent'.announced # 0 => token_hash' # 0
    BY <1>1
  <1>3. l.todo # <<>> => \A s \in Threads \ {t} : api[s].todo = <<>>
    BY DEF ApiInv
  <1> QED BY <1>1, <1>2, <1>3, ThreadStep

LEMMA LockStep ==
  ASSUME ApiInv, NEW t \in Threads, load_locked(t) \/ load_unlocked(t)
  PROVE  ApiInv'
  <1>1. /\ api \in [Threads -> Load] /\ api[t] \in Load /\ p11 \in Token /\ agent \in Agent
        /\ PlaceOK(t, api[t]) /\ atokens \in Seq(AToken) /\ crashed \in BOOLEAN
        /\ Len(atokens) \in Nat
    BY DEF ApiInv, ApimoduleTypeOK
  <1>2. /\ UNCHANGED <<token_hash, atokens, preload_keys_flag, p11, inits, openings, crashed>>
        /\ api[t].pc \in {"lock", "unlock"}
    BY DEF load_locked, load_unlocked, In, history
  <1>3. api[t].url \in Urls /\ preload_keys_flag
    BY <1>1, <1>2 DEF PlaceOK
  <1>4. agent.announced # 0 => token_hash # 0
    BY DEF ApiInv
  <1>5. CASE load_locked(t)
    <2>1. /\ api[t].pc = "lock" /\ agent.holder = NoThread
          /\ agent' = [agent EXCEPT !.holder = t]
          /\ api' = IF api[t].url \in agent.known THEN Ends(t, TRUE) ELSE Goes(t, "npm")
      BY <1>5 DEF load_locked, In
    <2>2. agent' \in Agent /\ agent'.holder = t /\ agent'.announced = agent.announced
      BY <1>1, <2>1 DEF Agent
    <2>3. PICK l \in Load :
            /\ api' = [api EXCEPT ![t] = l]
            /\ l.pc \in {"npm", "unlock"} /\ ~l.create
            /\ l.atoken \in {0, api[t].atoken} /\ l.inner \in {0, api[t].inner}
            /\ l.quoted = 0 /\ l.todo = api[t].todo /\ l.url = api[t].url
      <3>1. CASE api' = Ends(t, TRUE)
        BY <3>1, EndsType
      <3>2. CASE api' = Goes(t, "npm")
        <4> DEFINE l == [api[t] EXCEPT !.pc = "npm"]
        <4>1. ~api[t].create /\ api[t].quoted = 0
          BY <1>1, <2>1 DEF PlaceOK, OpenPcs, CreatingPcs
        <4>2. /\ l \in Load /\ l.pc = "npm" /\ ~l.create /\ l.atoken = api[t].atoken
              /\ l.inner = api[t].inner /\ l.quoted = 0 /\ l.todo = api[t].todo
              /\ l.url = api[t].url
          BY <1>1, <4>1 DEF Load, ApiPcs
        <4>3. api' = [api EXCEPT ![t] = l]
          BY <1>1, <3>2 DEF Goes
        <4> HIDE DEF l
        <4> QED BY <4>2, <4>3
      <3> QED BY <2>1, <3>1, <3>2
    <2>4. api'[t] = l
      BY <1>1, <2>3
    <2>5. PlaceOK(t, api[t])'
      BY <1>1, <1>2, <1>3, <2>2, <2>3, <2>4 DEF PlaceOK, OpenPcs, CreatingPcs
    <2> QED BY <1>1, <1>2, <1>4, <2>1, <2>2, <2>3, <2>5, HeldStep
  <1>6. CASE load_unlocked(t)
    <2>1. /\ agent' = [agent EXCEPT !.holder = NoThread] /\ api[t].pc = "unlock"
          /\ api' = Returns(t, api[t].ok) /\ api[t].ok \in BOOLEAN
      BY <1>1, <1>6 DEF load_unlocked, In, Load
    <2>2. agent' \in Agent /\ agent'.announced = agent.announced /\ agent.holder = t
      BY <1>1, <2>1 DEF Agent, PlaceOK
    <2>3. PICK l \in Load :
            /\ api' = [api EXCEPT ![t] = l]
            /\ l.pc = "returned" /\ ~l.create /\ l.atoken = 0 /\ l.inner = 0 /\ l.quoted = 0
            /\ l.todo # <<>> => api[t].todo # <<>>
      BY <2>1, ReturnsType, ZenonT(60)
    <2>4. api'[t] = l
      BY <1>1, <2>3
    <2>5. PlaceOK(t, api[t])'
      BY <1>1, <1>2, <1>3, <2>3, <2>4 DEF PlaceOK, OpenPcs, CreatingPcs
    <2> QED BY <1>1, <1>2, <1>4, <2>2, <2>3, <2>5, HeldStep
  <1> QED BY <1>5, <1>6

LEMMA CallbackStep ==
  ASSUME ApiInv, NEW t \in Threads,
         \/ load_failed(t) \/ get_challenge(t) \/ generate_rsa_keypair(t)
         \/ export_quote(t) \/ set_wrapping_key(t) \/ load_key(t)
  PROVE  ApiInv'
  <1>1. /\ api \in [Threads -> Load] /\ api[t] \in Load /\ p11 \in Token /\ agent \in Agent
        /\ PlaceOK(t, api[t]) /\ atokens \in Seq(AToken) /\ crashed \in BOOLEAN
        /\ Len(atokens) \in Nat /\ token_hash \in 0..Len(atokens) /\ openings \in 0..2
    BY DEF ApiInv, ApimoduleTypeOK
  <1>2. /\ UNCHANGED <<token_hash, preload_keys_flag, inits, openings>>
        /\ api[t].pc \in {"npm", "generate", "quote"}
    BY DEF load_failed, get_challenge, generate_rsa_keypair, export_quote,
           set_wrapping_key, load_key, In, history
  <1>3. /\ api[t].url \in Urls /\ preload_keys_flag /\ agent.holder = t
        /\ agent.announced # 0 => token_hash # 0
    BY <1>1, <1>2 DEF PlaceOK, ApiInv
  \* Where a callback leaves its load.
  <1>4. ASSUME NEW ok \in BOOLEAN, api' = Ends(t, ok), agent' \in Agent, crashed' \in BOOLEAN,
               agent'.holder = t, agent'.announced # 0 => token_hash # 0,
               atokens' \in Seq(AToken), Len(atokens') = Len(atokens),
               p11' \in Token, p11'.present = p11.present
        PROVE  ApiInv'
    <2>1. PICK l \in Load :
            /\ api' = [api EXCEPT ![t] = l]
            /\ l.pc = "unlock" /\ ~l.create /\ l.atoken = 0 /\ l.inner = 0 /\ l.quoted = 0
            /\ l.todo = api[t].todo /\ l.url = api[t].url
      BY <1>4, EndsType
    <2>2. api'[t] = l
      BY <1>1, <2>1
    <2>3. PlaceOK(t, api[t])'
      BY <1>1, <1>2, <1>3, <1>4, <2>1, <2>2 DEF PlaceOK, OpenPcs, CreatingPcs
    <2> QED BY <1>1, <1>2, <1>3, <1>4, <2>1, <2>3, HeldStep
  <1>5. ASSUME NEW l \in Load, api' = [api EXCEPT ![t] = l],
               l.url = api[t].url, l.todo = api[t].todo,
               agent' \in Agent, crashed' \in BOOLEAN,
               agent'.holder = t, agent'.announced # 0 => token_hash # 0,
               atokens' \in Seq(AToken), Len(atokens') = Len(atokens),
               p11' \in Token, p11'.present = p11.present,
               l.pc \in {"npm", "generate", "quote", "findtoken"},
               l.atoken <= Len(atokens), l.inner <= Len(atokens),
               l.pc \in {"generate", "quote"} => l.atoken # 0 /\ token_hash # 0,
               l.pc = "quote" => l.inner # 0,
               l.quoted # 0 => token_hash # 0 /\ l.pc = "npm",
               l.pc \in {"generate", "findtoken"} => p11'.generated < MaxPairs
        PROVE  ApiInv'
    <2>1. api'[t] = l
      BY <1>1, <1>5
    <2>2. PlaceOK(t, api[t])'
      BY <1>1, <1>2, <1>3, <1>5, <2>1 DEF PlaceOK, OpenPcs, CreatingPcs
    <2> QED BY <1>1, <1>2, <1>3, <1>5, <2>2, HeldStep
  <1>6. CASE load_failed(t)
    <2>1. api' = Ends(t, FALSE) /\ UNCHANGED <<atokens, p11, agent, crashed>>
      BY <1>6 DEF load_failed
    <2> QED BY <1>1, <1>3, <1>4, <2>1
  <1>7. CASE get_challenge(t)
    <2> DEFINE l == IF token_hash = 0
                      THEN [api[t] EXCEPT !.pc = "findtoken", !.create = TRUE]
                      ELSE [api[t] EXCEPT !.pc = "generate", !.atoken = token_hash]
    <2>1. /\ api[t].quoted = 0 /\ p11.generated < MaxPairs
          /\ UNCHANGED <<atokens, p11, agent, crashed>>
      BY <1>7 DEF get_challenge
    <2>2. api' = [api EXCEPT ![t] = l]
      BY <1>1, <1>7 DEF get_challenge, cached_token
    <2>3. /\ l \in Load /\ l.url = api[t].url /\ l.todo = api[t].todo /\ l.quoted = 0
          /\ l.inner = api[t].inner /\ l.atoken \in {api[t].atoken, token_hash}
          /\ l.pc \in {"findtoken", "generate"}
          /\ (l.pc = "generate" => l.atoken # 0 /\ token_hash # 0)
      <3>1. token_hash \in Nat
        BY <1>1
      <3>2. CASE token_hash = 0
        BY <1>1, <2>1, <3>2, ZenonT(60) DEF Load, ApiPcs
      <3>3. CASE token_hash # 0
        BY <1>1, <2>1, <3>1, <3>3 DEF Load, ApiPcs
      <3> QED BY <3>2, <3>3
    <2> HIDE DEF l
    <2>4. l.atoken <= Len(atokens) /\ l.inner <= Len(atokens)
      BY <1>1, <2>3 DEF PlaceOK
    <2> QED BY <1>1, <1>3, <1>5, <2>1, <2>2, <2>3, <2>4
  <1>8. CASE generate_rsa_keypair(t)
    <2> DEFINE n == p11.generated + 1
    <2>1. /\ api[t].pc = "generate" /\ UNCHANGED <<agent, crashed>>
      BY <1>8 DEF generate_rsa_keypair, In
    <2>2. /\ api[t].atoken # 0 /\ token_hash # 0 /\ p11.generated < MaxPairs
          /\ api[t].atoken <= Len(atokens)
      BY <1>1, <2>1 DEF PlaceOK
    <2>3. n \in 1..MaxPairs /\ n \in 0..MaxPairs /\ 0 \in 0..MaxPairs
      BY <1>1, <2>2 DEF Token
    <2>4. PICK ok \in BOOLEAN :
            /\ atokens' = [atokens EXCEPT ![token_hash].pair = IF ok THEN n ELSE 0]
            /\ p11' = IF ok THEN [p11 EXCEPT !.generated = n, !.pairs = @ \cup {n}] ELSE p11
            /\ api' = IF ok THEN [api EXCEPT ![t].pc = "quote", ![t].inner = token_hash]
                      ELSE Ends(t, FALSE)
      <3>1. Private(atokens[token_hash].session) \in BOOLEAN
        BY DEF Private, Open
      <3> QED BY <1>8, <3>1, OutcomeType DEF generate_rsa_keypair
    <2> DEFINE pair == IF ok THEN n ELSE 0
               k == [atokens[token_hash] EXCEPT !.pair = pair]
    <2>5. pair \in 0..MaxPairs /\ token_hash \in 1..Len(atokens)
      BY <1>1, <2>2, <2>3
    <2>6. atokens' = [atokens EXCEPT ![token_hash] = k]
      BY <2>4
    <2> HIDE DEF n, pair
    <2>7. k \in AToken
      <3>1. atokens[token_hash] \in AToken
        BY <1>1, <2>5
      <3> QED BY <2>5, <3>1 DEF AToken
    <2> HIDE DEF k
    <2>8. atokens' \in Seq(AToken) /\ Len(atokens') = Len(atokens)
      BY <1>1, <2>5, <2>6, <2>7
    <2>9. p11' \in Token /\ p11'.present = p11.present
      BY <1>1, <2>3, <2>4 DEF Token
    <2>10. CASE ~ok
      BY <1>1, <1>3, <1>4, <2>1, <2>4, <2>8, <2>9, <2>10
    <2>11. CASE ok
      <3> DEFINE l == [api[t] EXCEPT !.pc = "quote", !.inner = token_hash]
      <3>1. api' = [api EXCEPT ![t] = l]
        BY <1>1, <2>4, <2>11
      <3>2. /\ l \in Load /\ l.url = api[t].url /\ l.todo = api[t].todo /\ l.quoted = api[t].quoted
            /\ l.inner = token_hash /\ l.atoken = api[t].atoken /\ l.pc = "quote"
        <4>1. token_hash \in Nat
          BY <1>1
        <4> QED BY <1>1, <4>1 DEF Load, ApiPcs
      <3>3. l.quoted = 0
        BY <1>1, <2>1, <3>2 DEF PlaceOK
      <3>4. l.atoken <= Len(atokens) /\ l.inner <= Len(atokens) /\ l.inner # 0 /\ l.atoken # 0
        BY <1>1, <2>2, <2>5, <3>2
      <3>5. agent' \in Agent /\ crashed' \in BOOLEAN /\ agent'.holder = t
            /\ (agent'.announced # 0 => token_hash # 0)
        BY <1>1, <1>3, <2>1
      <3> HIDE DEF l
      <3> QED BY <1>5, <2>2, <2>8, <2>9, <3>1, <3>2, <3>3, <3>4, <3>5
    <2> QED BY <2>10, <2>11
  <1>9. CASE export_quote(t)
    <2> DEFINE i == api[t].inner
               a == api[t].atoken
    <2>1. /\ api[t].pc = "quote" /\ UNCHANGED <<p11, agent>>
      BY <1>9 DEF export_quote, In
    <2>2. i \in 1..Len(atokens) /\ a \in 1..Len(atokens) /\ token_hash # 0
      BY <1>1, <2>1 DEF PlaceOK, Load
    <2>3. CASE api' = Ends(t, FALSE) /\ UNCHANGED <<atokens, crashed>>
      BY <1>1, <1>3, <1>4, <2>1, <2>3
    <2>4. ASSUME atokens' = [atokens EXCEPT ![i].challenge = challenge_of(atokens[i])],
                 crashed' = (atokens'[a].challenge = 0),
                 api' = [api EXCEPT ![t].pc = "npm", ![t].quoted = atokens'[a].challenge]
          PROVE  ApiInv'
      <3> DEFINE k == [atokens[i] EXCEPT !.challenge = challenge_of(atokens[i])]
      <3>1. atokens' = [atokens EXCEPT ![i] = k]
        BY <2>4
      <3>2. atokens[i] \in AToken
        BY <1>1, <2>2
      <3>3. k \in AToken
        BY <3>2 DEF AToken, challenge_of
      <3> HIDE DEF k
      <3>4. atokens' \in Seq(AToken) /\ Len(atokens') = Len(atokens)
        BY <1>1, <2>2, <3>1, <3>3
      <3> DEFINE c == atokens'[a].challenge
                 l == [api[t] EXCEPT !.pc = "npm", !.quoted = c]
      <3>5. atokens'[a] \in AToken
        BY <2>2, <3>4
      <3>6. c \in 0..MaxPairs /\ crashed' \in BOOLEAN
        BY <2>4, <3>5 DEF AToken
      <3>c. api' = [api EXCEPT ![t].pc = "npm", ![t].quoted = c]
        BY <2>4
      <3> HIDE DEF c
      <3>7. api' = [api EXCEPT ![t] = l]
        BY <1>1, <3>c
      <3>8. /\ l \in Load /\ l.url = api[t].url /\ l.todo = api[t].todo
            /\ l.inner = api[t].inner /\ l.atoken = api[t].atoken /\ l.pc = "npm"
        BY <1>1, <3>6 DEF Load, ApiPcs
      <3>9. l.atoken <= Len(atokens) /\ l.inner <= Len(atokens)
        BY <1>1, <3>8 DEF PlaceOK
      <3> HIDE DEF l
      <3> QED BY <1>1, <1>3, <1>5, <2>1, <2>2, <3>4, <3>6, <3>7, <3>8, <3>9
    <2> QED BY <1>9, <2>3, <2>4 DEF export_quote
  <1>10. CASE set_wrapping_key(t)
    <2> DEFINE n == api[t].quoted
    <2>1. /\ n # 0 /\ api[t].pc = "npm" /\ agent' = [agent EXCEPT !.announced = n]
          /\ UNCHANGED crashed
      BY <1>10 DEF set_wrapping_key, In
    <2>2. n \in 1..MaxPairs /\ n \in 0..MaxPairs /\ 0 \in 0..MaxPairs
      BY <1>1, <2>1 DEF Load
    <2>3. token_hash \in 1..Len(atokens)
      BY <1>1, <2>1 DEF PlaceOK
    <2>4. agent' \in Agent /\ agent'.holder = t
      BY <1>1, <1>3, <2>1, <2>2 DEF Agent
    <2>a. token_hash # 0 /\ crashed' \in BOOLEAN /\ FALSE \in BOOLEAN
      BY <1>1, <2>1, <2>3
    <2>5. CASE api' = Ends(t, FALSE) /\ UNCHANGED <<p11, atokens>>
      BY <1>1, <1>4, <2>a, <2>4, <2>5
    <2>6. ASSUME p11' = [p11 EXCEPT !.swks = @ \cup {n}],
                 atokens' = [atokens EXCEPT ![token_hash].wrappingkey =
                               wrappingkey_new(atokens[token_hash], n)],
                 api' = [api EXCEPT ![t].quoted = 0, ![t].atoken = 0, ![t].inner = 0]
          PROVE  ApiInv'
      <3> DEFINE k == [atokens[token_hash] EXCEPT !.wrappingkey = n]
                 l == [api[t] EXCEPT !.quoted = 0, !.atoken = 0, !.inner = 0]
      <3>1. atokens' = [atokens EXCEPT ![token_hash] = k]
        BY <2>6 DEF wrappingkey_new
      <3>2. api' = [api EXCEPT ![t] = l]
        BY <1>1, <2>6
      <3>3. /\ l \in Load /\ l.url = api[t].url /\ l.todo = api[t].todo
            /\ l.inner = 0 /\ l.atoken = 0 /\ l.pc = "npm" /\ l.quoted = 0
        BY <1>1, <2>1, <2>2 DEF Load
      <3> HIDE DEF l
      <3>4. p11' \in Token /\ p11'.present = p11.present
        <4> HIDE DEF n
        <4> QED BY <1>1, <2>2, <2>6 DEF Token
      <3>5. atokens[token_hash] \in AToken
        BY <1>1, <2>3
      <3>6. k \in AToken
        <4> HIDE DEF n
        <4> QED BY <2>2, <3>5 DEF AToken
      <3> HIDE DEF k, n
      <3>7. atokens' \in Seq(AToken) /\ Len(atokens') = Len(atokens)
        BY <1>1, <2>3, <3>1, <3>6
      <3>8. l.atoken <= Len(atokens) /\ l.inner <= Len(atokens)
        BY <1>1, <3>3
      <3> QED BY <1>5, <2>a, <2>4, <3>2, <3>3, <3>4, <3>7, <3>8
    <2> QED BY <1>10, <2>5, <2>6 DEF set_wrapping_key
  <1>11. CASE load_key(t)
    <2> DEFINE u == api[t].url
    <2>1. UNCHANGED <<atokens, crashed>>
      BY <1>11 DEF load_key
    <2>2. PICK ok \in BOOLEAN :
            /\ agent' = [agent EXCEPT !.known = @ \cup {u},
                                      !.refused = IF ok THEN @ ELSE @ \cup {u}]
            /\ p11' = IF ok THEN [p11 EXCEPT !.copies[ObjectOf[u]] = @ + 1] ELSE p11
            /\ api' = Ends(t, ok)
      BY <1>11 DEF load_key, Outcome, Private, Open
    <2>3. /\ agent' \in Agent /\ agent'.holder = t /\ agent'.announced = agent.announced
      BY <1>1, <1>3, <2>2 DEF Agent
    <2>4. p11' \in Token /\ p11'.present = p11.present
      <3> DEFINE copies == [p11.copies EXCEPT ![ObjectOf[u]] = @ + 1]
      <3>1. p11.copies \in [Objects -> Nat]
        BY <1>1 DEF Token
      <3>2. copies \in [Objects -> Nat]
        BY <1>3, <3>1
      <3>3. p11' = IF ok THEN [p11 EXCEPT !.copies = copies] ELSE p11
        BY <2>2
      <3> HIDE DEF copies
      <3> QED BY <1>1, <3>2, <3>3 DEF Token
    <2> QED BY <1>1, <1>3, <1>4, <2>1, <2>2, <2>3, <2>4
  <1> QED BY <1>6, <1>7, <1>8, <1>9, <1>10, <1>11

-----------------------------------------------------------------------------
(* The invariant. *)

LEMMA InitApiInv == ApimoduleInit => ApiInv
  <1> SUFFICES ASSUME ApimoduleInit PROVE ApiInv
    OBVIOUS
  <1>1. <<>> \in Seq(Urls)
    OBVIOUS
  <1>2. /\ Fresh(NoUrl, <<>>) \in Load
        /\ Fresh(NoUrl, <<>>).pc = "idle" /\ ~Fresh(NoUrl, <<>>).create
        /\ Fresh(NoUrl, <<>>).atoken = 0 /\ Fresh(NoUrl, <<>>).inner = 0
        /\ Fresh(NoUrl, <<>>).quoted = 0 /\ Fresh(NoUrl, <<>>).todo = <<>>
    <2>1. \A todo \in Seq(Urls) :
            /\ Fresh(NoUrl, todo) \in Load
            /\ Fresh(NoUrl, todo).pc = "idle" /\ ~Fresh(NoUrl, todo).create
            /\ Fresh(NoUrl, todo).atoken = 0 /\ Fresh(NoUrl, todo).inner = 0
            /\ Fresh(NoUrl, todo).quoted = 0 /\ Fresh(NoUrl, todo).todo = todo
      BY FreshType
    <2> QED BY <1>1, <2>1
  <1>3. /\ api \in [Threads -> Load] /\ \A t \in Threads : api[t] = Fresh(NoUrl, <<>>)
    BY <1>2 DEF ApimoduleInit
  <1>4. 0 \in 0..MaxPairs /\ 0 \in Nat /\ 0 \in 0..2 /\ Len(<<>>) = 0 /\ <<>> \in Seq(AToken)
    OBVIOUS
  <1>5. p11 \in Token
    BY <1>4 DEF ApimoduleInit, Token
  <1>6. agent \in Agent /\ agent.announced = 0
    BY <1>4 DEF ApimoduleInit, Agent
  <1>a. /\ token_hash = 0 /\ atokens = <<>> /\ preload_keys_flag = FALSE
        /\ inits = 0 /\ openings = 0 /\ crashed = FALSE
    BY DEF ApimoduleInit
  <1>7. ApimoduleTypeOK
    <2>1. token_hash \in 0..Len(atokens)
      BY <1>4, <1>a
    <2> QED BY <1>3, <1>4, <1>5, <1>6, <1>a, <2>1 DEF ApimoduleTypeOK
  <1>8. \A t \in Threads : PlaceOK(t, api[t])
    BY <1>2, <1>3, <1>4 DEF PlaceOK, OpenPcs, CreatingPcs, ApimoduleInit
  <1> QED BY <1>2, <1>3, <1>6, <1>7, <1>8 DEF ApiInv, ApimoduleInit

LEMMA NextApiInv == ApiInv /\ [ApimoduleNext]_apiVars => ApiInv'
  <1> SUFFICES ASSUME ApiInv, [ApimoduleNext]_apiVars PROVE ApiInv'
    OBVIOUS
  <1>1. CASE UNCHANGED apiVars
    BY <1>1 DEF apiVars, history, ApiInv, ApimoduleTypeOK, PlaceOK
  <1>2. ASSUME NEW t \in Threads, AgentStep(t)  PROVE ApiInv'
    BY <1>2, LockStep, CallbackStep DEF AgentStep
  <1> QED BY <1>1, <1>2, InitialiseStep, KeyLoadStep, OpenTokenStep, FindObjectStep
          DEF ApimoduleNext

LEMMA ApiInvariant == ApimoduleSpec => []ApiInv
  BY InitApiInv, NextApiInv, PTL DEF ApimoduleSpec

-----------------------------------------------------------------------------
(* What it establishes. *)

\* Every variable has its type: an index into the token table is in it, and the
\* variables of a load are of the kind its place needs.
THEOREM ApiTyping == ApimoduleSpec => []ApimoduleTypeOK
  <1>1. ApiInv => ApimoduleTypeOK
    BY DEF ApiInv
  <1> QED BY <1>1, ApiInvariant, PTL

\* However many threads find no token, C_InitToken, which destroys what is in one,
\* succeeds once at most: only get_challenge, under the agent's lock, may create
\* the token, and once it is present nothing takes it away.
THEOREM TokenCreatedOnce == ApimoduleSpec => []InitialisedOnce
  <1>1. ApiInv => InitialisedOnce
    BY DEF ApiInv, InitialisedOnce
  <1> QED BY <1>1, ApiInvariant, PTL

\* One thread at most preloads keys, and never from within a load.
THEOREM KeysPreloadedOnce == ApimoduleSpec => []PreloadedOnce
  <1>1. ASSUME ApiInv  PROVE PreloadedOnce
    <2> DEFINE S == {t \in Threads : api[t].todo # <<>>}
    <2>1. Cardinality(S) <= 1
      <3> HIDE DEF S
      <3>1. CASE S = {}
        <4>1. Cardinality(S) = 0
          BY <3>1, FS_EmptySet
        <4> QED BY <4>1
      <3>2. CASE S # {}
        <4>1. PICK t \in S : TRUE
          BY <3>2
        <4>2. S = {t}
          BY <1>1, <4>1 DEF ApiInv, S
        <4>3. Cardinality(S) = 1
          BY <4>2, FS_Singleton
        <4> QED BY <4>3
      <3> QED BY <3>1, <3>2
    <2>2. \A t \in Threads : api[t].pc # "preload_nested"
      BY <1>1 DEF ApiInv, PlaceOK
    <2> QED BY <2>1, <2>2 DEF PreloadedOnce
  <1> QED BY <1>1, ApiInvariant, PTL

=============================================================================
