------------------------------ MODULE KeyAgent ------------------------------
(***************************************************************************)
(* The key agent: keyagent_loadkey_with_moduledata and everything it does  *)
(* under keyagent::rwlock, for any network provider module (NPM) and any   *)
(* secure transport module (STM).                                          *)
(*                                                                         *)
(* An application thread asks for the key of a URL.  Under the writer lock *)
(* the agent looks the URL up in key_hash and, when it is not there, walks *)
(* npm_hash.  An NPM that registers for the URL is called with a table of  *)
(* callbacks (challenge, session, key); what it does with them is its own  *)
(* affair and is left open here: between its call and its return any       *)
(* callback may happen, any number of times.  If the NPM left a key in     *)
(* key_hash the agent hands it to the STM of the key's session.            *)
(*                                                                         *)
(* The callbacks that leave the agent (challenge, wrapping key, load key)  *)
(* are two steps each, so that a module that extends this one can put the  *)
(* token's own steps between them.                                         *)
(***************************************************************************)
EXTENDS Naturals, Sequences

CONSTANTS
  Threads,      \* application threads
  Urls,         \* key urls, "<token>:<id>:<label>:<uri>" or "KMS:<id>:..."
  Malformed,    \* the urls whose first or second token is empty
  Npms,         \* the modules in npm_hash
  Supports,     \* Supports[n]: the urls that NPM n registers for
  Stms,         \* the labels in stm_hash
  SessionIds,   \* session ids an NPM may bring
  Swks,         \* wrapping keys, as the key server sends them
  SwkTypes,     \* the members of supported_swk_types
  KeyTypes,     \* RSA, AES or neither
  MaxSessions,  \* bound: session objects allocated in one run
  NoThread,     \* nobody holds the lock
  NoUrl         \* a thread that has not loaded anything yet

ASSUME KeyAgentAssumption ==
  /\ NoThread \notin Threads
  /\ NoUrl \notin Urls
  /\ Malformed \subseteq Urls
  /\ Supports \in [Npms -> SUBSET Urls]
  /\ MaxSessions \in Nat

VARIABLES
  rwlock,                  \* the thread that holds keyagent::rwlock
  call,                    \* per thread: where its load is, and its result
  apimodule_loadkey_hash,  \* the threads with a request registered
  session_hash,            \* session id -> index of the session object
  sessions,                \* every session object allocated (never freed)
  stm_session,             \* per STM: index of stm->session, 0 for NULL
  key_hash,                \* hash key -> key object
  delivered,               \* per url: how often an STM has accepted its key
  aborted                  \* the process died on a freed GError

vars == <<rwlock, call, apimodule_loadkey_hash, session_hash, sessions,
          stm_session, key_hash, delivered, aborted>>

agentTables == <<session_hash, sessions, stm_session, key_hash>>

-----------------------------------------------------------------------------
(* Types. *)

Pcs == {"idle", "lock", "find", "npm", "get_challenge", "set_wrapping_key",
        "load_key", "unlock", "returned"}

\* The caller's GError*: NULL, a live error, the "URL is not supported" error,
\* or a pointer to an error that has already been freed.
Errs == {"none", "set", "unsupported", "dangling"}

Call == [pc : Pcs, url : Urls \cup {NoUrl}, todo : SUBSET Npms, ret : BOOLEAN, err : Errs]

Session == [name : Stms, session_id : SessionIds, swk : Swks, swk_type : SwkTypes]

Key == [type : KeyTypes, session : Nat]

\* What key_hash is keyed by (g_quark_from_string of the url), and what
\* __delete_key passes to g_hash_table_remove (the address of the string).
Quark(u)      == [kind |-> "quark", str |-> u]
StringAddr(u) == [kind |-> "address", str |-> u]

-----------------------------------------------------------------------------
(* GLib: hash tables as functions, g_direct_hash and g_direct_equal. *)

HashRemove(h, ks) == [k \in (DOMAIN h) \ ks |-> h[k]]

HashInsert(h, k, v) == [x \in (DOMAIN h) \cup {k} |-> IF x = k THEN v ELSE h[x]]

-----------------------------------------------------------------------------
(* Lookups. *)

key_lookup(u) == Quark(u) \in DOMAIN key_hash

session_lookup(sid) == sid \in DOMAIN session_hash

KeysOfSession(o) == {k \in DOMAIN key_hash : key_hash[k].session = o}

\* __build_delete_key_list and __delete_key: what g_hash_table_remove is asked
\* to remove from key_hash when session object o leaves session_hash.
key_remove_by_session(o) == {StringAddr(k.str) : k \in KeysOfSession(o)}

\* Variant: the session an STM had before stays in session_hash.
retired_sessions_none(label, sid) == {}

\* The session id that leaves session_hash when label's STM gets session sid.
retired_sessions(label, sid) ==
  IF stm_session[label] = 0 THEN {}
  ELSE {sessions[stm_session[label]].session_id} \ {sid}

\* Variant: the object's index is that of the last one allocated.
session_new_reused == Len(sessions)

\* g_new0 of a session object.
session_new == Len(sessions) + 1

\* Variant: the request outlives _loadkey.
request_removed_never(t) == apimodule_loadkey_hash

request_removed(t) == apimodule_loadkey_hash \ {t}

\* The STM that __keyagent_key_get_stmname names for a cached url.
StmOfKey(u) == sessions[key_hash[Quark(u)].session].name

\* The NPMs whose key_load has been called in the current load of t.
NpmsCalled(t) == {n \in Npms \ call[t].todo : call[t].url \in Supports[n]}

Holds(t, pc) == ~aborted /\ call[t].pc = pc

\* Variant: an accepted key does not end the search.
loadkey_result_continue(t, found, e) ==
  [call EXCEPT ![t].pc = "find", ![t].err = e]

\* Variant: the search ends at the first NPM, whatever the STM did.
loadkey_result_stop(t, found, e) ==
  [call EXCEPT ![t].pc = "unlock", ![t].ret = key_lookup(call[t].url), ![t].err = e]

\* _loadkey returns to g_hash_table_find: TRUE ends the search, and the load
\* succeeds when the key is in key_hash; FALSE goes on to the next NPM.
loadkey_result(t, found, e) ==
  IF found
    THEN [call EXCEPT ![t].pc = "unlock", ![t].ret = key_lookup(call[t].url), ![t].err = e]
    ELSE [call EXCEPT ![t].pc = "find", ![t].err = e]

-----------------------------------------------------------------------------
Init ==
  /\ rwlock = NoThread
  /\ call = [t \in Threads |-> [pc |-> "idle", url |-> NoUrl,
                                todo |-> {}, ret |-> FALSE, err |-> "none"]]
  /\ apimodule_loadkey_hash = {}
  /\ session_hash = [s \in {} |-> 0]
  /\ sessions = <<>>
  /\ stm_session = [s \in Stms |-> 0]
  /\ key_hash = [k \in {} |-> 0]
  /\ delivered = [u \in Urls |-> 0]
  /\ aborted = FALSE

-----------------------------------------------------------------------------
(* keyagent_loadkey_with_moduledata. *)

\* The caller's error e may be set already: C_OnDemand_KeyLoad goes on when
\* opening its token failed.

\* The url is split before the lock is taken.  One with an empty token makes
\* the function return FALSE at once, leaving the error as it is.
load_malformed(t, u, e) ==
  /\ ~aborted
  /\ call[t].pc \in {"idle", "returned"}
  /\ u \in Malformed
  /\ e \in {"none", "set"}
  /\ call' = [call EXCEPT ![t] = [pc |-> "returned", url |-> u, todo |-> {},
                                  ret |-> FALSE, err |-> e]]
  /\ UNCHANGED <<rwlock, apimodule_loadkey_hash, agentTables, delivered, aborted>>

load_called(t, u, e) ==
  /\ ~aborted
  /\ call[t].pc \in {"idle", "returned"}
  /\ u \in Urls \ Malformed
  /\ e \in {"none", "set"}
  /\ call' = [call EXCEPT ![t] = [pc |-> "lock", url |-> u, todo |-> Npms,
                                  ret |-> FALSE, err |-> e]]
  /\ UNCHANGED <<rwlock, apimodule_loadkey_hash, agentTables, delivered, aborted>>

\* Variant: nobody waits for the lock.
load_locked_at_once(t) ==
  /\ Holds(t, "lock")
  /\ rwlock' = t
  /\ call' = IF key_lookup(call[t].url)
               THEN [call EXCEPT ![t].pc = "unlock", ![t].ret = TRUE]
               ELSE [call EXCEPT ![t].pc = "find"]
  /\ UNCHANGED <<apimodule_loadkey_hash, agentTables, delivered, aborted>>

\* Variant: a cached key is returned at once, past the unlock.
load_locked_leaked(t) ==
  /\ Holds(t, "lock")
  /\ rwlock = NoThread
  /\ rwlock' = t
  /\ call' = IF key_lookup(call[t].url)
               THEN [call EXCEPT ![t].pc = "returned", ![t].ret = TRUE]
               ELSE [call EXCEPT ![t].pc = "find"]
  /\ UNCHANGED <<apimodule_loadkey_hash, agentTables, delivered, aborted>>

\* g_rw_lock_writer_lock and the first lookup: a cached key ends the load.
load_locked(t) ==
  /\ Holds(t, "lock")
  /\ rwlock = NoThread
  /\ rwlock' = t
  /\ call' = IF key_lookup(call[t].url)
               THEN [call EXCEPT ![t].pc = "unlock", ![t].ret = TRUE]
               ELSE [call EXCEPT ![t].pc = "find"]
  /\ UNCHANGED <<apimodule_loadkey_hash, agentTables, delivered, aborted>>

load_unlocked(t) ==
  /\ Holds(t, "unlock")
  /\ rwlock' = NoThread
  /\ call' = [call EXCEPT ![t].pc = "returned"]
  /\ UNCHANGED <<apimodule_loadkey_hash, agentTables, delivered, aborted>>

\* g_hash_table_find returned NULL: k_set_error, which clears the error first.
load_not_found(t) ==
  /\ Holds(t, "find")
  /\ call[t].todo = {}
  /\ call' = [call EXCEPT ![t].pc = "unlock", ![t].err = "unsupported"]
  /\ UNCHANGED <<rwlock, apimodule_loadkey_hash, agentTables, delivered, aborted>>

-----------------------------------------------------------------------------
(* _loadkey, the callback of g_hash_table_find, once per NPM. *)

\* Variant: the error of register is propagated and then freed.
loadkey_skip_propagated(t, n) ==
  /\ Holds(t, "find")
  /\ n \in call[t].todo
  /\ call[t].url \notin Supports[n]
  /\ call' = [call EXCEPT ![t].todo = @ \ {n}, ![t].err = "dangling"]
  /\ UNCHANGED <<rwlock, apimodule_loadkey_hash, agentTables, delivered, aborted>>

\* register fails: its error is dropped and the search goes on.
loadkey_skip(t, n) ==
  /\ Holds(t, "find")
  /\ n \in call[t].todo
  /\ call[t].url \notin Supports[n]
  /\ call' = [call EXCEPT ![t].todo = @ \ {n}]
  /\ UNCHANGED <<rwlock, apimodule_loadkey_hash, agentTables, delivered, aborted>>

\* register succeeds: the request is registered under a fresh uuid (named here
\* by its thread) and the NPM's key_load is called.
loadkey_npm(t, n) ==
  /\ Holds(t, "find")
  /\ n \in call[t].todo
  /\ call[t].url \in Supports[n]
  /\ apimodule_loadkey_hash' = apimodule_loadkey_hash \cup {t}
  /\ call' = [call EXCEPT ![t].todo = @ \ {n}, ![t].pc = "npm"]
  /\ UNCHANGED <<rwlock, agentTables, delivered, aborted>>

\* key_load returns, having set the caller's error (e) or not; its result is
\* not looked at.  With a key in key_hash the STM is next; without one the
\* search ends, and so does the load.
loadkey_npm_returned(t, e) ==
  /\ Holds(t, "npm")
  /\ e \in {call[t].err, "set"}
  /\ IF key_lookup(call[t].url)
       THEN /\ call' = [call EXCEPT ![t].pc = "load_key", ![t].err = e]
            /\ UNCHANGED apimodule_loadkey_hash
       ELSE /\ call' = loadkey_result(t, TRUE, e)
            /\ apimodule_loadkey_hash' = request_removed(t)
  /\ UNCHANGED <<rwlock, agentTables, delivered, aborted>>

\* __keyagent_stm_load_key: the STM of the key's session, which must have a
\* session of its own, takes the key.  The search ends with TRUE.
stm_load_key(t) ==
  /\ Holds(t, "load_key")
  /\ t \in apimodule_loadkey_hash
  /\ stm_session[StmOfKey(call[t].url)] # 0
  /\ delivered' = [delivered EXCEPT ![call[t].url] = @ + 1]
  /\ apimodule_loadkey_hash' = request_removed(t)
  /\ call' = loadkey_result(t, TRUE, call[t].err)
  /\ UNCHANGED <<rwlock, agentTables, aborted>>

\* The STM, or a check in front of it, refuses.  _loadkey returns FALSE, so the
\* search goes on; the error is handed to the caller by g_propagate_error and
\* then freed by the g_autoptr that still points to it.  A caller's error that
\* was set already is kept.
stm_load_key_refused(t) ==
  /\ Holds(t, "load_key")
  /\ apimodule_loadkey_hash' = request_removed(t)
  /\ call' = loadkey_result(t, FALSE,
                IF call[t].err = "none" THEN "dangling" ELSE call[t].err)
  /\ UNCHANGED <<rwlock, agentTables, delivered, aborted>>

\* Freeing a GError twice may end the process: g_clear_error on the dangling
\* error (in load_not_found, or from an NPM), or a refusal whose error
\* g_propagate_error has freed because the caller's was set.
double_free(t) ==
  /\ ~aborted
  /\ \/ call[t].pc = "find" /\ call[t].todo = {} /\ call[t].err = "dangling"
     \/ call[t].pc = "npm" /\ call[t].err = "dangling"
     \/ call[t].pc = "load_key" /\ call[t].err # "none"
  /\ aborted' = TRUE
  /\ UNCHANGED <<rwlock, call, apimodule_loadkey_hash, agentTables, delivered>>

-----------------------------------------------------------------------------
(* The callbacks an NPM may call (keyagent_npm_callbacks). *)

\* __keyagent_stm_get_challenge: the STM must be known and the request be
\* registered; then the STM calls the API module.
stm_get_challenge(t, label) ==
  /\ Holds(t, "npm")
  /\ label \in Stms
  /\ t \in apimodule_loadkey_hash
  /\ call' = [call EXCEPT ![t].pc = "get_challenge"]
  /\ UNCHANGED <<rwlock, apimodule_loadkey_hash, agentTables, delivered, aborted>>

\* keyagent_session_create for a known type and label, with the cache and
\* __keyagent_stm_set_session up to the call of the STM.  A session of the STM
\* under another id leaves session_hash, and the keys made with it are to leave
\* key_hash; a session known under this id only gets the new wrapping key, and
\* is the session of the STM it was created for, whatever the label.
session_create(t, label, sid, swk, type) ==
  LET known == session_lookup(sid)
      obj   == IF known THEN session_hash[sid] ELSE session_new
      heap  == IF known
                 THEN [sessions EXCEPT ![obj].swk = swk]
                 ELSE Append(sessions, [name |-> label, session_id |-> sid,
                                        swk |-> swk, swk_type |-> type])
      owner   == IF known THEN sessions[obj].name ELSE label
      retired == retired_sessions(label, sid)
  IN /\ Holds(t, "npm")
     /\ t \in apimodule_loadkey_hash
     /\ obj <= MaxSessions  \* bound
     /\ sessions' = heap
     /\ session_hash' = HashInsert(HashRemove(session_hash, retired), sid, obj)
     /\ key_hash' = HashRemove(key_hash,
                      UNION {key_remove_by_session(session_hash[s]) :
                               s \in retired \cap DOMAIN session_hash})
     /\ stm_session' = [stm_session EXCEPT ![owner] = obj]
     /\ call' = [call EXCEPT ![t].pc = "set_wrapping_key"]
     /\ UNCHANGED <<rwlock, apimodule_loadkey_hash, delivered, aborted>>

\* The API module's answer to either: the tables stay as they are, even when
\* the wrapping key was refused.  A failure may have set the caller's error.
callback_returned(t, pc, ok, e) ==
  /\ Holds(t, pc)
  /\ pc \in {"get_challenge", "set_wrapping_key"}
  /\ e \in IF ok THEN {call[t].err} ELSE {call[t].err, "set"}
  /\ call' = [call EXCEPT ![t].pc = "npm", ![t].err = e]
  /\ UNCHANGED <<rwlock, apimodule_loadkey_hash, agentTables, delivered, aborted>>

\* A callback that returns early: unknown STM or request (stm_get_challenge),
\* unknown wrapping-key type or label (session_create), missing attributes or
\* unknown session (key_create).
callback_rejected(t) ==
  /\ Holds(t, "npm")
  /\ call' = [call EXCEPT ![t].err = "set"]
  /\ UNCHANGED <<rwlock, apimodule_loadkey_hash, agentTables, delivered, aborted>>

\* __keyagent_key_create_with_cacheid: an existing key is kept as it is.
key_create(t, type, sid) ==
  LET u == call[t].url
  IN /\ Holds(t, "npm")
     /\ key_lookup(u) \/ session_lookup(sid)
     /\ key_hash' = IF key_lookup(u) THEN key_hash
                    ELSE HashInsert(key_hash, Quark(u),
                                    [type |-> type, session |-> session_hash[sid]])
     /\ UNCHANGED <<rwlock, call, apimodule_loadkey_hash, session_hash, sessions,
                    stm_session, delivered, aborted>>

-----------------------------------------------------------------------------
Load(t) ==
  \/ \E u \in Urls, e \in Errs : load_malformed(t, u, e) \/ load_called(t, u, e)
  \/ load_locked(t)
  \/ load_unlocked(t)
  \/ load_not_found(t)
  \/ \E n \in Npms : loadkey_skip(t, n) \/ loadkey_npm(t, n)
  \/ \E e \in Errs : loadkey_npm_returned(t, e)
  \/ stm_load_key(t)
  \/ stm_load_key_refused(t)
  \/ double_free(t)

\* keyagent_stm_set_session, which no module calls, is left out.
Callback(t) ==
  \/ \E label \in Stms : stm_get_challenge(t, label)
  \/ \E label \in Stms, sid \in SessionIds, swk \in Swks, type \in SwkTypes :
       session_create(t, label, sid, swk, type)
  \/ \E pc \in Pcs, ok \in BOOLEAN, e \in Errs : callback_returned(t, pc, ok, e)
  \/ callback_rejected(t)
  \/ \E type \in KeyTypes, sid \in SessionIds : key_create(t, type, sid)

\* After an abort the process is gone.
Halted == aborted /\ UNCHANGED vars

Next == (\E t \in Threads : Load(t) \/ Callback(t)) \/ Halted

Spec == Init /\ [][Next]_vars

-----------------------------------------------------------------------------
(* Type invariant. *)

\* The shape of the agent's state, with every pointer into the session heap
\* pointing to an object that was allocated.
TypeOK ==
  /\ rwlock \in Threads \cup {NoThread}
  /\ call \in [Threads -> Call]
  /\ \A t \in Threads : call[t].pc # "idle" => call[t].url \in Urls
  /\ apimodule_loadkey_hash \subseteq Threads
  /\ sessions \in Seq(Session)
  /\ Len(sessions) <= MaxSessions
  /\ session_hash \in [DOMAIN session_hash -> 1..Len(sessions)]
  /\ DOMAIN session_hash \subseteq SessionIds
  /\ stm_session \in [Stms -> 0..Len(sessions)]
  /\ key_hash \in [DOMAIN key_hash -> Key]
  /\ DOMAIN key_hash \subseteq {Quark(u) : u \in Urls}
  /\ \A k \in DOMAIN key_hash : key_hash[k].session \in 1..Len(sessions)
  /\ delivered \in [Urls -> Nat]
  /\ aborted \in BOOLEAN

-----------------------------------------------------------------------------
(* Safety. *)

Searching == {"find", "npm", "get_challenge", "set_wrapping_key", "load_key"}
Requested == Searching \ {"find"}

\* The lock, the walk over npm_hash and the request table belong to one load at
\* a time: a request is registered exactly while its thread, which holds the
\* lock, is in a module.  What the API module finds under a request id is
\* therefore the data of the caller whose load is running, on every exit path
\* of _loadkey.
OneLoadAtATime ==
  /\ \A t \in Threads : call[t].pc \in Searching \cup {"unlock"} <=> rwlock = t
  /\ apimodule_loadkey_hash = {t \in Threads : call[t].pc \in Requested}

\* The sessions announced to the key server (session_hash) are the current
\* sessions of their STMs: after any sequence of session_create, with new ids,
\* known ids and ids created for another STM, an entry is filed under its own
\* id and stm->session of the STM it was made for points to it.
AnnouncedSessionIsCurrent ==
  \A sid \in DOMAIN session_hash :
    /\ sessions[session_hash[sid]].session_id = sid
    /\ stm_session[sessions[session_hash[sid]].name] = session_hash[sid]

\* However many threads load a url, and however many NPMs and refusals a load
\* goes through, an STM accepts its key at most once.
DeliveredAtMostOnce == \A u \in Urls : delivered[u] <= 1

\* A load that succeeded through an NPM, and not from key_hash, had its key
\* accepted by an STM, and a load that fails leaves nothing delivered: although
\* _loadkey ignores the result of key_load, and the search goes on after a
\* refusal with a key already in key_hash.
ResultTellsDelivery ==
  \A t \in Threads : call[t].pc = "unlock" =>
    IF call[t].ret
      THEN key_lookup(call[t].url) /\ (NpmsCalled(t) # {} => delivered[call[t].url] = 1)
      ELSE delivered[call[t].url] = 0

\* The process dies on a freed GError only after an STM refused a key, which is
\* then left in key_hash without having been delivered.
AbortedOnlyAfterRefusal ==
  aborted => \E u \in Urls : key_lookup(u) /\ delivered[u] = 0

\* What makes the last three inductive: a url is delivered only while its load
\* holds the lock, at most once, and with its key in key_hash from then on.
DeliveryInv ==
  /\ \A u \in Urls : delivered[u] \in {0, 1} /\ (delivered[u] = 1 => key_lookup(u))
  /\ \A t \in Threads :
       /\ call[t].pc = "lock" => /\ call[t].todo = Npms
                               /\ call[t].err # "dangling"
                               /\ ~call[t].ret
       /\ call[t].pc \in Searching => delivered[call[t].url] = 0 /\ ~call[t].ret
       /\ \/ call[t].pc = "load_key"
          \/ call[t].pc \in Searching /\ call[t].err = "dangling"
          => key_lookup(call[t].url)
  /\ ResultTellsDelivery
  /\ AbortedOnlyAfterRefusal

-----------------------------------------------------------------------------
(* The promise of KeyLoader. *)

\* What each thread is loading, what its last load answered, and the urls whose
\* key the agent has.
asked  == [t \in Threads |-> IF call[t].pc \in {"idle", "returned"} THEN NoUrl ELSE call[t].url]
answer == [t \in Threads |-> IF call[t].pc = "returned" THEN call[t].ret ELSE FALSE]
known  == {u \in Urls : key_lookup(u)}

Loader == INSTANCE KeyLoader WITH
            Threads <- Threads, Urls <- Urls, NoUrl <- NoUrl,
            asked <- asked, answer <- answer, known <- known, delivered <- delivered

\* The agent keeps the promise of KeyLoader: lock, hash tables, modules and
\* callbacks together behave as its four operations on one set of known keys.
LoaderSpec == Loader!Spec

-----------------------------------------------------------------------------
(* What comments, declarations and tests of the repository say. *)

\* The comment in _loadkey: the search ends at the first NPM that matches, "even
\* if npm fails to load the key".  So "URL is not supported" is only reported
\* for a url that no NPM registers for.
UnsupportedMeansNoNpm ==
  \A t \in Threads : call[t].err = "unsupported" =>
    \A n \in Npms : call[t].url \notin Supports[n]

\* __keyagent_key_remove_by_session, which runs when a session leaves session_hash:
\* the keys of a session go with it.  So a key in key_hash belongs to a session
\* that is announced to the key server.
KeysLeaveWithSession ==
  \A k \in DOMAIN key_hash :
    \E sid \in DOMAIN session_hash : session_hash[sid] = key_hash[k].session

\* The AES test: after a load that succeeded, the object of the key is in the
\* token.
SuccessMeansDelivered ==
  \A t \in Threads : call[t].pc = "returned" /\ call[t].ret => delivered[call[t].url] = 1

=============================================================================
