----------------------------- MODULE Apimodule -----------------------------
(***************************************************************************)
(* The PKCS#11 API module: C_OnDemand_KeyLoad, C_Initialize with the       *)
(* preloading of keys, the table of opened tokens, and the callbacks the   *)
(* key agent makes.                                                        *)
(*                                                                         *)
(* A thread looks its token up, opens it if nobody has, and searches the   *)
(* object in it; all of this without a lock.  If the object is missing it  *)
(* calls the key agent, and the callbacks it then gets come under the      *)
(* agent's lock.  Every PKCS#11 call is one step, so that the steps of     *)
(* other threads can come between any two.                                 *)
(*                                                                         *)
(* There is one token, for its label in a uri must be "KMS".  The PKCS#11  *)
(* library behind it is not part of the repository.  It is taken to do     *)
(* what PKCS#11 says of logins (they are the application's, not a          *)
(* session's; a logout destroys the private session objects), of searches  *)
(* (one per session) and of C_Finalize (it closes every session).  Any of  *)
(* its calls may fail but C_GetTokenInfo: a token that is there is found.  *)
(*                                                                         *)
(* Of the key agent the module knows what KeyAgent shows: one load at a    *)
(* time is under its lock, a key it knows is not loaded again, and the     *)
(* session it announces is the last one it had opened.                     *)
(***************************************************************************)
EXTENDS Naturals, Sequences, FiniteSets

CONSTANTS
  Threads,       \* application threads
  Urls,          \* well-formed key uris
  Objects,       \* the keys they name, by id and label
  ObjectOf,      \* ObjectOf[u]: the key uri u names; a line of the preload_keys
                 \* file is not the uri the application uses: it ends in a newline
  AesObjects,    \* the AES keys; the others are RSA keys
  Pins,          \* user pins
  PinOf,         \* PinOf[u]: the pin-value of uri u
  PreloadFile,   \* the uris in the preload_keys file
  Handles,       \* the sessions the PKCS#11 library can have open
  TokenMayFail,  \* whether its calls may fail for reasons of their own
  MaxPairs,      \* bound: key pairs generated in one run
  NoPin,         \* the token has no user pin yet
  NoHandle,      \* CK_INVALID_HANDLE, or not set
  NoThread,      \* nobody holds the agent's lock
  NoUrl          \* a thread that has not loaded anything yet

ASSUME ApimoduleAssumption ==
  /\ ObjectOf \in [Urls -> Objects]
  /\ AesObjects \subseteq Objects
  /\ PinOf \in [Urls -> Pins]
  /\ PreloadFile \in Seq(Urls)
  /\ TokenMayFail \in BOOLEAN
  /\ MaxPairs \in Nat
  /\ NoPin \notin Pins /\ NoHandle \notin Handles
  /\ NoThread \notin Threads /\ NoUrl \notin Urls

\* A process has so many threads, and loads so many keys.
ASSUME FiniteAssumption == IsFiniteSet(Threads) /\ IsFiniteSet(Urls)

VARIABLES
  api,                \* per thread: where its C_OnDemand_KeyLoad is
  token_hash,         \* apimodule_token_hash: index of the entry, 0 for none
  atokens,            \* every apimodule_token that was cached (never freed)
  preload_keys_flag,  \* C_Initialize has started preloading
  p11,                \* the PKCS#11 library and the token in it
  agent,              \* the key agent: lock holder, known keys, refused keys
                      \* and the wrapping key of the session it announces
  inits,              \* history: how often C_InitToken succeeded
  openings,           \* history: how often a token was opened, up to two
  crashed             \* the process died on a NULL challenge

history == <<inits, openings>>
apiVars == <<api, token_hash, atokens, preload_keys_flag, p11, agent, history, crashed>>

-----------------------------------------------------------------------------
(* Types.  A key pair, its quote and the wrapping key the KBS sends for it  *)
(* are all named by the number of the key pair, 0 for none.                 *)

ApiPcs ==
  {"idle", "returned",
   "findtoken", "inittoken", "opensession_so", "login_so", "initpin", "logout_so",
   "login_created", "finalize", "initialize", "preload_nested",
   "opensession", "logout", "login", "cache",
   "findobjectsinit", "findobjects", "findobjectsfinal",
   "lock", "npm", "generate", "quote", "unlock"}

CreatingPcs == {"inittoken", "opensession_so", "login_so", "initpin", "logout_so",
                "login_created", "finalize", "initialize"}

Load ==
  [pc : ApiPcs, url : Urls \cup {NoUrl}, ok : BOOLEAN,
   create : BOOLEAN,                  \* init_apimodule_token may create the token
   session : Handles \cup {NoHandle}, \* its hSession
   atoken : Nat,                      \* the caller's atoken
   inner : Nat,                       \* the atoken of sgx_get_challenge
   found : BOOLEAN,
   quoted : 0..MaxPairs,              \* the challenge handed out and not answered
   todo : Seq(Urls)]                  \* what is left of the preload_keys file

AToken ==
  [pin : Pins, session : Handles, pair : 0..MaxPairs, challenge : 0..MaxPairs,
   wrappingkey : 0..MaxPairs]

Token ==
  [initialized : BOOLEAN, present : BOOLEAN, pin : Pins \cup {NoPin},
   login : {"none", "so", "user"}, open : SUBSET Handles, searching : SUBSET Handles,
   generated : 0..MaxPairs, pairs : SUBSET (1..MaxPairs), swks : SUBSET (1..MaxPairs),
   copies : [Objects -> Nat]]

Agent ==
  [holder : Threads \cup {NoThread}, known : SUBSET Urls, refused : SUBSET Urls,
   announced : 0..MaxPairs]

-----------------------------------------------------------------------------
(* Helpers. *)

\* What a PKCS#11 call may return that succeeds if cond holds.
Outcome(cond) == IF TokenMayFail THEN {cond, FALSE} ELSE {cond}

Open(h) == p11.initialized /\ h \in p11.open

\* Private objects are there for a session of a logged-in user.
Private(h) == Open(h) /\ p11.login = "user"

Visible(h, u) == Private(h) /\ p11.copies[ObjectOf[u]] > 0

LoggedOut(p) ==
  [p EXCEPT !.login = "none", !.pairs = {}, !.swks = {},
            !.copies = [o \in Objects |-> IF o \in AesObjects THEN 0 ELSE p.copies[o]]]

Finalized(p) ==
  [LoggedOut(p) EXCEPT !.initialized = FALSE, !.open = {}, !.searching = {}]

CanLogin(h, u) ==
  Open(h) /\ (p11.login = "user" \/ (p11.login = "none" /\ p11.pin = PinOf[u]))

In(t, pc) == ~crashed /\ api[t].pc = pc

Goes(t, pc) == [api EXCEPT ![t].pc = pc]

\* A load of u with nothing in its variables, and todo left to preload.
Fresh(u, todo) ==
  [pc |-> "idle", url |-> u, ok |-> FALSE, create |-> FALSE, session |-> NoHandle,
   atoken |-> 0, inner |-> 0, found |-> FALSE, quoted |-> 0, todo |-> todo]

\* Preloading ends at the first failure.
todo_after(t, ok) == IF ok /\ api[t].todo # <<>> THEN Tail(api[t].todo) ELSE <<>>

\* C_OnDemand_KeyLoad returns.
Returns(t, ok) ==
  [api EXCEPT ![t] = [Fresh(api[t].url, todo_after(t, ok)) EXCEPT !.pc = "returned", !.ok = ok]]

\* The key agent ends the load that t has under its lock.
Ends(t, ok) ==
  [api EXCEPT ![t] = [Fresh(api[t].url, api[t].todo) EXCEPT !.pc = "unlock", !.ok = ok]]

\* keyagent_loadkey_with_moduledata is called.
Asks(t) ==
  [api EXCEPT ![t] = [Fresh(api[t].url, api[t].todo) EXCEPT !.pc = "lock"]]

\* Variant: without a token C_OnDemand_KeyLoad returns, with rv still CKR_OK.
NoToken_returned(t) == IF api[t].create THEN Ends(t, FALSE) ELSE Returns(t, TRUE)

\* init_apimodule_token returns NULL: to get_challenge, which then fails, or to
\* C_OnDemand_KeyLoad, which goes on to the key agent.
NoToken(t) == IF api[t].create THEN Ends(t, FALSE) ELSE Asks(t)

-----------------------------------------------------------------------------
ApimoduleInit ==
  /\ api = [t \in Threads |-> Fresh(NoUrl, <<>>)]
  /\ token_hash = 0
  /\ atokens = <<>>
  /\ preload_keys_flag = FALSE
  \* No token yet, or one of an earlier process, perhaps with RSA keys in it.
  /\ \E pin \in Pins \cup {NoPin}, rsa \in SUBSET (Objects \ AesObjects) :
       /\ pin = NoPin => rsa = {}
       /\ p11 = [initialized |-> FALSE, present |-> pin # NoPin, pin |-> pin,
                 login |-> "none", open |-> {}, searching |-> {},
                 generated |-> 0, pairs |-> {}, swks |-> {},
                 copies |-> [o \in Objects |-> IF o \in rsa THEN 1 ELSE 0]]
  /\ agent = [holder |-> NoThread, known |-> {}, refused |-> {}, announced |-> 0]
  /\ inits = 0
  /\ openings = 0
  /\ crashed = FALSE

-----------------------------------------------------------------------------
(* C_Initialize and C_OnDemand_KeyLoad. *)

Outside(t) == api[t].pc \in {"idle", "returned"}

\* Variant: the flag is looked at and not raised.
preload_keys_flag_kept == preload_keys_flag

\* g_atomic_int_add of the flag, before preloading starts.
preload_keys_flag_raised == TRUE

\* The first C_Initialize of the process preloads, in the calling thread.  One
\* that fails leaves everything as it is.
C_Initialize(t) ==
  /\ ~crashed
  /\ Outside(t) /\ api[t].todo = <<>>
  /\ p11' = [p11 EXCEPT !.initialized = TRUE]
  /\ preload_keys_flag' = preload_keys_flag_raised
  /\ api' = IF preload_keys_flag THEN api ELSE [api EXCEPT ![t].todo = PreloadFile]
  /\ UNCHANGED <<token_hash, atokens, agent, history, crashed>>

\* An application calls C_Initialize before it loads keys.
C_OnDemand_KeyLoad(t, u) ==
  /\ ~crashed
  /\ Outside(t) /\ preload_keys_flag
  /\ api[t].todo # <<>> => u = Head(api[t].todo)
  /\ api' = [api EXCEPT ![t] =
       [Fresh(u, api[t].todo) EXCEPT
          !.pc = IF token_hash = 0 THEN "findtoken" ELSE "findobjectsinit",
          !.atoken = token_hash]]
  /\ UNCHANGED <<token_hash, atokens, preload_keys_flag, p11, agent, history, crashed>>

-----------------------------------------------------------------------------
(* init_apimodule_token and apimodule_createtoken. *)

\* Variant: the token is created in C_OnDemand_KeyLoad already.
may_create_always(t) == TRUE

may_create(t) == api[t].create

\* The token is there, or is to be created, or the open fails.
findtoken(t) ==
  /\ In(t, "findtoken")
  /\ \E ok \in Outcome(p11.initialized) :
       LET goes_on == ok /\ (p11.present \/ may_create(t))
       IN /\ api' = IF goes_on
                      THEN Goes(t, IF p11.present THEN "opensession" ELSE "inittoken")
                      ELSE NoToken(t)
          /\ openings' = IF goes_on /\ openings < 2 THEN openings + 1 ELSE openings
  /\ UNCHANGED <<token_hash, atokens, preload_keys_flag, p11, agent, inits, crashed>>

\* One PKCS#11 call of t: if it succeeds the library becomes p and t goes on to
\* pc, otherwise init_apimodule_token fails.
token_call(t, cond, p, pc) ==
  /\ \E ok \in Outcome(cond) :
       /\ p11' = IF ok THEN p ELSE p11
       /\ api' = IF ok THEN Goes(t, pc) ELSE NoToken(t)
  /\ UNCHANGED <<token_hash, atokens, preload_keys_flag, agent, history, crashed>>

\* The same for C_OpenSession, which finds the token again first and may find all
\* sessions taken.
session_call(t, pc) ==
  /\ \E ok \in Outcome(p11.initialized /\ p11.present /\ p11.open # Handles) :
       IF ok
         THEN \E h \in Handles \ p11.open :
                /\ p11' = [p11 EXCEPT !.open = @ \cup {h}]
                /\ api' = [api EXCEPT ![t].pc = pc, ![t].session = h]
         ELSE api' = NoToken(t) /\ UNCHANGED p11
  /\ UNCHANGED <<token_hash, atokens, preload_keys_flag, agent, history, crashed>>

\* C_InitToken: the token loses its objects and its user pin.
inittoken(t) ==
  /\ In(t, "inittoken")
  /\ \E ok \in Outcome(p11.initialized /\ p11.open = {}) :
       /\ p11' = IF ok THEN [p11 EXCEPT !.present = TRUE, !.pin = NoPin,
                                        !.copies = [o \in Objects |-> 0]]
                 ELSE p11
       /\ inits' = IF ok THEN inits + 1 ELSE inits
       /\ api' = IF ok THEN Goes(t, "opensession_so") ELSE NoToken(t)
  /\ UNCHANGED <<token_hash, atokens, preload_keys_flag, agent, openings, crashed>>

opensession_so(t) ==
  /\ In(t, "opensession_so")
  /\ session_call(t, "login_so")

login_so(t) ==
  /\ In(t, "login_so")
  /\ token_call(t, Open(api[t].session) /\ p11.login # "user",
                [p11 EXCEPT !.login = "so"], "initpin")

\* Variant: the user pin is not set.
initpin_skipped(t) ==
  /\ In(t, "initpin")
  /\ token_call(t, Open(api[t].session) /\ p11.login = "so", p11, "logout_so")

initpin(t) ==
  /\ In(t, "initpin")
  /\ token_call(t, Open(api[t].session) /\ p11.login = "so",
                [p11 EXCEPT !.pin = PinOf[api[t].url]], "logout_so")

\* C_Logout, whose result is not looked at.
logout_call(t, pc) ==
  /\ \E ok \in Outcome(Open(api[t].session)) : p11' = IF ok THEN LoggedOut(p11) ELSE p11
  /\ api' = Goes(t, pc)
  /\ UNCHANGED <<token_hash, atokens, preload_keys_flag, agent, history, crashed>>

logout_so(t) ==
  /\ In(t, "logout_so")
  /\ logout_call(t, "login_created")

login_created(t) ==
  /\ In(t, "login_created")
  /\ token_call(t, CanLogin(api[t].session, api[t].url),
                [p11 EXCEPT !.login = "user"], "finalize")

\* C_Logout, C_CloseSession and C_Finalize in a row, whose results are not looked
\* at: C_Finalize leaves nothing of the others to see, unless it fails.
finalize(t) ==
  /\ In(t, "finalize")
  /\ \/ p11' = Finalized(p11)
     \/ /\ TokenMayFail
        /\ \E q \in {p11, LoggedOut(p11)} :
             p11' \in {q, [q EXCEPT !.open = @ \ {api[t].session},
                                    !.searching = @ \ {api[t].session}]}
  /\ api' = Goes(t, "initialize")
  /\ UNCHANGED <<token_hash, atokens, preload_keys_flag, agent, history, crashed>>

\* func_list->C_Initialize is the API module's own, which may preload.  A load
\* nested in this one would wait for the lock this one holds.  Its result is not
\* looked at.
initialize(t) ==
  /\ In(t, "initialize")
  /\ \E ok \in Outcome(TRUE) :
       IF ok
         THEN /\ p11' = [p11 EXCEPT !.initialized = TRUE]
              /\ preload_keys_flag' = preload_keys_flag_raised
              /\ api' = Goes(t, IF preload_keys_flag THEN "opensession" ELSE "preload_nested")
         ELSE /\ api' = Goes(t, "opensession")
              /\ UNCHANGED <<p11, preload_keys_flag>>
  /\ UNCHANGED <<token_hash, atokens, agent, history, crashed>>

opensession(t) ==
  /\ In(t, "opensession")
  /\ session_call(t, "logout")

logout(t) ==
  /\ In(t, "logout")
  /\ logout_call(t, "login")

\* Variant: the token is cached even if the login failed.
login_unchecked(t) ==
  /\ In(t, "login")
  /\ \E ok \in Outcome(CanLogin(api[t].session, api[t].url)) :
       p11' = IF ok THEN [p11 EXCEPT !.login = "user"] ELSE p11
  /\ api' = Goes(t, "cache")
  /\ UNCHANGED <<token_hash, atokens, preload_keys_flag, agent, history, crashed>>

\* A failed login leaves the session open.
login(t) ==
  /\ In(t, "login")
  /\ token_call(t, CanLogin(api[t].session, api[t].url),
                [p11 EXCEPT !.login = "user"], "cache")

\* Variant: the new entry does not get the session.
cached_session_unset(t) == NoHandle

cached_session(t) == api[t].session

\* cache_apimodule_token replaces whatever entry there is.
cache_token(t) ==
  /\ In(t, "cache")
  /\ atokens' = Append(atokens, [pin |-> PinOf[api[t].url], session |-> cached_session(t),
                                 pair |-> 0, challenge |-> 0, wrappingkey |-> 0])
  /\ token_hash' = Len(atokens')
  /\ api' = [api EXCEPT ![t].atoken = Len(atokens'),
                        ![t].pc = IF api[t].create THEN "generate" ELSE "findobjectsinit"]
  /\ UNCHANGED <<preload_keys_flag, p11, agent, history, crashed>>

-----------------------------------------------------------------------------
(* The pin check and apimodule_findobject. *)

SessionOf(t) == atokens[api[t].atoken].session

pin_matches(t) == atokens[api[t].atoken].pin = PinOf[api[t].url]

findobjectsinit(t) ==
  /\ In(t, "findobjectsinit")
  /\ \E ok \in Outcome(Open(SessionOf(t)) /\ SessionOf(t) \notin p11.searching) :
       IF ok /\ pin_matches(t)
         THEN /\ p11' = [p11 EXCEPT !.searching = @ \cup {SessionOf(t)}]
              /\ api' = Goes(t, "findobjects")
         ELSE api' = Returns(t, FALSE) /\ UNCHANGED p11
  /\ UNCHANGED <<token_hash, atokens, preload_keys_flag, agent, history, crashed>>

\* C_FindObjects; after a failure the search is not ended.
findobjects(t) ==
  /\ In(t, "findobjects")
  /\ \E ok \in Outcome(Open(SessionOf(t)) /\ SessionOf(t) \in p11.searching) :
       api' = IF ok THEN [api EXCEPT ![t].pc = "findobjectsfinal",
                                     ![t].found = Visible(SessionOf(t), api[t].url)]
              ELSE Returns(t, FALSE)
  /\ UNCHANGED <<token_hash, atokens, preload_keys_flag, p11, agent, history, crashed>>

\* Variant: the search is not ended when the object was found.
search_over_if_missing(t, searching) ==
  IF api[t].found THEN searching ELSE searching \ {SessionOf(t)}

search_over(t, searching) == searching \ {SessionOf(t)}

\* C_FindObjectsFinal, and C_GetAttributeValue of an object that was found, whose
\* result is that of the load.
findobjectsfinal(t) ==
  /\ In(t, "findobjectsfinal")
  /\ \E ok \in Outcome(Open(SessionOf(t)) /\ SessionOf(t) \in p11.searching) :
       IF ok
         THEN /\ p11' = [p11 EXCEPT !.searching = search_over(t, @)]
              /\ \E read \in Outcome(Visible(SessionOf(t), api[t].url)) :
                   api' = IF api[t].found THEN Returns(t, read) ELSE Asks(t)
         ELSE api' = Returns(t, FALSE) /\ UNCHANGED p11
  /\ UNCHANGED <<token_hash, atokens, preload_keys_flag, agent, history, crashed>>

-----------------------------------------------------------------------------
(* The key agent around the callbacks. *)

\* Variant: a key that the agent knows is loaded again.
load_locked_forgetful(t) ==
  /\ In(t, "lock")
  /\ agent.holder = NoThread
  /\ agent' = [agent EXCEPT !.holder = t]
  /\ api' = Goes(t, "npm")
  /\ UNCHANGED <<token_hash, atokens, preload_keys_flag, p11, history, crashed>>

load_locked(t) ==
  /\ In(t, "lock")
  /\ agent.holder = NoThread
  /\ agent' = [agent EXCEPT !.holder = t]
  /\ api' = IF api[t].url \in agent.known THEN Ends(t, TRUE) ELSE Goes(t, "npm")
  /\ UNCHANGED <<token_hash, atokens, preload_keys_flag, p11, history, crashed>>

load_failed(t) ==
  /\ In(t, "npm")
  /\ api' = Ends(t, FALSE)
  /\ UNCHANGED <<token_hash, atokens, preload_keys_flag, p11, agent, history, crashed>>

load_unlocked(t) ==
  /\ In(t, "unlock")
  /\ agent' = [agent EXCEPT !.holder = NoThread]
  /\ api' = Returns(t, api[t].ok)
  /\ UNCHANGED <<token_hash, atokens, preload_keys_flag, p11, history, crashed>>

-----------------------------------------------------------------------------
(* The callbacks. *)

\* Variant: the token is opened for every challenge.
cached_token_none == 0

cached_token == token_hash

\* apimodule_get_challenge: the token is looked up, or opened, or created.
get_challenge(t) ==
  /\ In(t, "npm")
  /\ api[t].quoted = 0
  /\ p11.generated < MaxPairs  \* bound
  /\ api' = IF cached_token = 0
              THEN [api EXCEPT ![t].pc = "findtoken", ![t].create = TRUE]
              ELSE [api EXCEPT ![t].pc = "generate", ![t].atoken = cached_token]
  /\ UNCHANGED <<token_hash, atokens, preload_keys_flag, p11, agent, history, crashed>>

\* sgx_get_challenge looks the token up for itself and makes a new key pair.
generate_rsa_keypair(t) ==
  /\ In(t, "generate")
  /\ \E ok \in Outcome(Private(atokens[token_hash].session)) :
       LET n == p11.generated + 1
       IN /\ atokens' = [atokens EXCEPT ![token_hash].pair = IF ok THEN n ELSE 0]
          /\ p11' = IF ok THEN [p11 EXCEPT !.generated = n, !.pairs = @ \cup {n}] ELSE p11
          /\ api' = IF ok THEN [api EXCEPT ![t].pc = "quote", ![t].inner = token_hash]
                    ELSE Ends(t, FALSE)
  /\ UNCHANGED <<token_hash, preload_keys_flag, agent, history, crashed>>

\* The quote is of the public key.
challenge_of(k) == k.pair

\* C_WrapKey exports the quote.  The challenge handed out is that of the token
\* apimodule_get_challenge found; k_buffer_ref of NULL ends the process.
export_quote(t) ==
  /\ In(t, "quote")
  /\ LET k == atokens[api[t].inner]
     IN \E ok \in Outcome(Private(k.session) /\ k.pair \in p11.pairs) :
          IF ok
            THEN LET handed == atokens'[api[t].atoken].challenge
                 IN /\ atokens' = [atokens EXCEPT ![api[t].inner].challenge = challenge_of(k)]
                    /\ crashed' = (handed = 0)
                    /\ api' = [api EXCEPT ![t].pc = "npm", ![t].quoted = handed]
            ELSE api' = Ends(t, FALSE) /\ UNCHANGED <<atokens, crashed>>
  /\ UNCHANGED <<token_hash, preload_keys_flag, p11, agent, history>>

\* Variant: the handle of the wrapping key is set once.
wrappingkey_first(k, n) == IF k.wrappingkey = 0 THEN n ELSE k.wrappingkey

wrappingkey_new(k, n) == n

\* The KBS has opened a session for the challenge and wrapped a wrapping key for
\* its public key.  The agent announces the session whether or not the token
\* unwraps it.
set_wrapping_key(t) ==
  LET k == atokens[token_hash]
      n == api[t].quoted
  IN /\ In(t, "npm")
     /\ n # 0
     /\ agent' = [agent EXCEPT !.announced = n]
     /\ \E ok \in Outcome(Private(k.session) /\ k.pair = n /\ n \in p11.pairs) :
          IF ok
            THEN /\ p11' = [p11 EXCEPT !.swks = @ \cup {n}]
                 /\ atokens' = [atokens EXCEPT ![token_hash].wrappingkey =
                                   wrappingkey_new(k, n)]
                 /\ api' = [api EXCEPT ![t].quoted = 0, ![t].atoken = 0, ![t].inner = 0]
            ELSE api' = Ends(t, FALSE) /\ UNCHANGED <<p11, atokens>>
     /\ UNCHANGED <<token_hash, preload_keys_flag, history, crashed>>

\* The agent has the key, wrapped for the session it announces.  It is refused if
\* its type is not that of the uri, or if the token cannot unwrap it.
load_key(t) ==
  LET k == atokens[token_hash]
      u == api[t].url
  IN /\ In(t, "npm")
     /\ api[t].quoted = 0
     /\ agent.announced # 0
     /\ \E compatible \in BOOLEAN :
        \E ok \in Outcome(/\ compatible
                          /\ Private(k.session)
                          /\ k.wrappingkey = agent.announced
                          /\ k.wrappingkey \in p11.swks) :
          /\ agent' = [agent EXCEPT !.known = @ \cup {u},
                                    !.refused = IF ok THEN @ ELSE @ \cup {u}]
          /\ p11' = IF ok THEN [p11 EXCEPT !.copies[ObjectOf[u]] = @ + 1] ELSE p11
          /\ api' = Ends(t, ok)
     /\ UNCHANGED <<token_hash, atokens, preload_keys_flag, history, crashed>>

-----------------------------------------------------------------------------
OpenToken(t) ==
  \/ findtoken(t)
  \/ inittoken(t) \/ opensession_so(t) \/ login_so(t) \/ initpin(t)
  \/ logout_so(t) \/ login_created(t) \/ finalize(t) \/ initialize(t)
  \/ opensession(t) \/ logout(t) \/ login(t) \/ cache_token(t)

FindObject(t) == findobjectsinit(t) \/ findobjects(t) \/ findobjectsfinal(t)

AgentStep(t) ==
  \/ load_locked(t) \/ load_failed(t) \/ load_unlocked(t)
  \/ get_challenge(t) \/ generate_rsa_keypair(t) \/ export_quote(t)
  \/ set_wrapping_key(t) \/ load_key(t)

ApimoduleNext ==
  \/ \E t \in Threads :
       \/ C_Initialize(t)
       \/ \E u \in Urls : C_OnDemand_KeyLoad(t, u)
       \/ OpenToken(t) \/ FindObject(t) \/ AgentStep(t)
  \/ crashed /\ UNCHANGED apiVars

ApimoduleSpec == ApimoduleInit /\ [][ApimoduleNext]_apiVars

-----------------------------------------------------------------------------
ApimoduleTypeOK ==
  /\ api \in [Threads -> Load]
  /\ token_hash \in 0..Len(atokens)
  /\ atokens \in Seq(AToken)
  /\ preload_keys_flag \in BOOLEAN
  /\ p11 \in Token
  /\ agent \in Agent
  /\ inits \in Nat /\ openings \in 0..2
  /\ crashed \in BOOLEAN

-----------------------------------------------------------------------------
(* Safety, whatever the threads do. *)

\* C_InitToken destroys what is in a token.  However many threads find no token,
\* it is called for one of them only, because only get_challenge, which is under
\* the agent's lock, may create it.
InitialisedOnce == inits <= 1

\* The table is read and written without a lock, so an entry may be replaced; but
\* only by a thread that looked the token up before there was an entry, and so by
\* each thread once at most, over any number of loads.
OneTokenPerThread == Len(atokens) <= Cardinality(Threads)

\* Keys are preloaded once.  Creating the token calls C_Initialize again, under
\* the agent's lock, where preloading would wait for that lock for ever.
PreloadedOnce ==
  /\ Cardinality({t \in Threads : api[t].todo # <<>>}) <= 1
  /\ \A t \in Threads : api[t].pc # "preload_nested"

\* If its calls do not fail by themselves, no search stays active in a session
\* when the thread that began one has gone: another load could not search.
SearchesEnd ==
  p11.searching \subseteq
    {SessionOf(t) : t \in {s \in Threads : api[s].pc \in {"findobjects", "findobjectsfinal"}}}

-----------------------------------------------------------------------------
(* Safety, as long as the token was opened once: by the thread that preloads,   *)
(* say, before the others begin.  When two threads open it at the same time a   *)
(* logout, a C_Finalize or a second entry of one hits the handles of the other. *)

OpenedOnce == openings <= 1

\* The table's token can be used: its session is open, the user is logged in, and
\* the pin that later uris are compared with is the token's.
CachedTokenUsable ==
  OpenedOnce /\ token_hash # 0 =>
    /\ Private(atokens[token_hash].session)
    /\ atokens[token_hash].pin = p11.pin

\* The key pair whose quote was handed out is the one the token will unwrap the
\* wrapping key with, and the wrapping key of the announced session, if the token
\* has it, is the one it will unwrap keys with: through failed challenges, failed
\* unwraps and new sessions.
WrappingKeysAgree ==
  OpenedOnce =>
    /\ \A t \in Threads : api[t].quoted # 0 =>
         api[t].quoted \in p11.pairs /\ atokens[token_hash].pair = api[t].quoted
    /\ agent.announced \in p11.swks => atokens[token_hash].wrappingkey = agent.announced
    /\ ~crashed

\* Each uri brings its key into the token once at most, although whether it is
\* there is looked up before the agent's lock is taken.  Two uris of one key may
\* bring it twice: the agent knows keys by uri.
UrisNaming(o) == {u \in Urls : ObjectOf[u] = o}

LoadedOnce ==
  OpenedOnce => \A o \in Objects :
    p11.copies[o] <= IF UrisNaming(o) = {} THEN 1 ELSE Cardinality(UrisNaming(o))

\* A load that succeeds has its key in the token, unless the token refused the
\* key in an earlier load.
SuccessHasObject ==
  OpenedOnce =>
    \A t \in Threads :
      api[t].pc = "returned" /\ api[t].ok /\ api[t].url \notin agent.refused =>
        p11.copies[ObjectOf[api[t].url]] # 0

\* If its calls do not fail by themselves, a token that was created has a user pin
\* in the end: without one, no process could ever open it.
TokenKeepsPin ==
  OpenedOnce /\ p11.present /\ (\A t \in Threads : api[t].pc \notin CreatingPcs) =>
    p11.pin # NoPin

=============================================================================
