--------------------------- MODULE KeyAgentProofs ---------------------------
(***************************************************************************)
(* Proofs about KeyAgent, for every set of threads, urls, NPMs, STMs,      *)
(* session ids and key types and every bound on session objects.           *)
(***************************************************************************)
EXTENDS KeyAgent, TLAPS

USE KeyAgentAssumption

-----------------------------------------------------------------------------
(* Lemmas about the hash tables. *)

LEMMA HashRemoveType ==
  ASSUME NEW h, NEW S, h \in [DOMAIN h -> S], NEW ks
  PROVE  /\ DOMAIN HashRemove(h, ks) = (DOMAIN h) \ ks
         /\ HashRemove(h, ks) \in [DOMAIN HashRemove(h, ks) -> S]
         /\ \A k \in DOMAIN HashRemove(h, ks) : HashRemove(h, ks)[k] = h[k]
  BY DEF HashRemove

\* Nothing that __delete_key passes to g_hash_table_remove is a key of key_hash:
\* session_create leaves key_hash as it is.
LEMMA SessionCreateKeepsKeys ==
  ASSUME TypeOK, NEW t, NEW label, NEW sid, NEW swk, NEW type,
         session_create(t, label, sid, swk, type)
  PROVE  key_hash' = key_hash
  <1> DEFINE R == UNION {key_remove_by_session(session_hash[s]) :
                           s \in retired_sessions(label, sid) \cap DOMAIN session_hash}
  <1>1. key_hash' = HashRemove(key_hash, R)
    BY DEF session_create
  <1>2. ASSUME NEW k \in DOMAIN key_hash  PROVE k \notin R
    <2>1. k.kind = "quark"
      BY DEF TypeOK, Quark
    <2>2. \A r \in R : r.kind = "address"
      BY DEF key_remove_by_session, StringAddr
    <2> QED BY <2>1, <2>2
  <1>3. (DOMAIN key_hash) \ R = DOMAIN key_hash
    BY <1>2
  <1> HIDE DEF R
  <1> QED BY <1>1, <1>3 DEF HashRemove, TypeOK

-----------------------------------------------------------------------------
(* Type correctness. *)

\* A step that gives one thread a new entry in call and leaves the tables alone.
LEMMA CallStepType ==
  ASSUME TypeOK, NEW t \in Threads, NEW c \in Call,
         c.pc # "idle" => c.url \in Urls,
         call' = [call EXCEPT ![t] = c],
         rwlock' \in Threads \cup {NoThread},
         apimodule_loadkey_hash' \subseteq Threads,
         delivered' \in [Urls -> Nat],
         UNCHANGED <<agentTables, aborted>>
  PROVE  TypeOK'
  <1>1. call' \in [Threads -> Call]
    BY DEF TypeOK
  <1>2. \A s \in Threads : call'[s].pc # "idle" => call'[s].url \in Urls
    BY DEF TypeOK
  <1> QED BY <1>1, <1>2 DEF TypeOK, agentTables

LEMMA InitType == Init => TypeOK
  <1> SUFFICES ASSUME Init PROVE TypeOK
    OBVIOUS
  <1>1. call \in [Threads -> Call] /\ \A t \in Threads : call[t].pc = "idle"
    BY DEF Init, Call, Pcs, Errs
  <1>2. sessions \in Seq(Session) /\ Len(sessions) = 0
    BY DEF Init
  <1>3. session_hash \in [DOMAIN session_hash -> 1..Len(sessions)]
        /\ DOMAIN session_hash = {}
    BY DEF Init
  <1>4. key_hash \in [DOMAIN key_hash -> Key] /\ DOMAIN key_hash = {}
    BY DEF Init
  <1>5. stm_session \in [Stms -> 0..Len(sessions)]
    BY <1>2 DEF Init
  <1>6. /\ rwlock \in Threads \cup {NoThread}
        /\ apimodule_loadkey_hash \subseteq Threads
        /\ delivered \in [Urls -> Nat]
    BY DEF Init
  <1>7. aborted \in BOOLEAN
    BY DEF Init
  <1>8. Len(sessions) <= MaxSessions
    BY <1>2
  <1> QED BY <1>1, <1>2, <1>3, <1>4, <1>5, <1>6, <1>7, <1>8, Zenon DEF TypeOK

\* A key joins key_hash with the session object that session_hash has.
LEMMA KeyCreateType ==
  ASSUME TypeOK, NEW t \in Threads, NEW type \in KeyTypes, NEW sid \in SessionIds,
         key_create(t, type, sid)
  PROVE  TypeOK'
  <1> DEFINE u == call[t].url
             k == [type |-> type, session |-> session_hash[sid]]
  <1>1. u \in Urls
    BY DEF key_create, Holds, TypeOK
  <1>2. CASE key_lookup(u)
    BY <1>2 DEF key_create, TypeOK
  <1>3. CASE ~key_lookup(u)
    <2>1. /\ session_hash[sid] \in 1..Len(sessions)
          /\ key_hash' = HashInsert(key_hash, Quark(u), k)
          /\ UNCHANGED <<rwlock, call, apimodule_loadkey_hash, session_hash, sessions,
                         stm_session, delivered, aborted>>
      BY <1>3 DEF key_create, session_lookup, TypeOK
    <2>2. k \in Key
      BY <2>1 DEF Key, TypeOK
    <2>3. key_hash \in [DOMAIN key_hash -> Key]
      BY DEF TypeOK
    <2> HIDE DEF k
    <2> DEFINE h == HashInsert(key_hash, Quark(u), k)
    <2>h. /\ DOMAIN h = DOMAIN key_hash \cup {Quark(u)}
          /\ h \in [DOMAIN h -> Key]
          /\ h[Quark(u)] = k
          /\ \A x \in (DOMAIN key_hash) \ {Quark(u)} : h[x] = key_hash[x]
      BY <2>2, <2>3 DEF HashInsert
    <2> HIDE DEF h
    <2>4. /\ DOMAIN key_hash' = DOMAIN key_hash \cup {Quark(u)}
          /\ key_hash' \in [DOMAIN key_hash' -> Key]
          /\ key_hash'[Quark(u)] = k
          /\ \A x \in (DOMAIN key_hash) \ {Quark(u)} : key_hash'[x] = key_hash[x]
      BY <2>1, <2>h DEF h
    <2>5. DOMAIN key_hash' \subseteq {Quark(v) : v \in Urls}
      BY <1>1, <2>4 DEF TypeOK
    <2>6. \A x \in DOMAIN key_hash' : key_hash'[x].session \in 1..Len(sessions')
      BY <2>1, <2>4 DEF TypeOK, k
    <2> QED BY <2>1, <2>4, <2>5, <2>6 DEF TypeOK
  <1> QED BY <1>2, <1>3

\* What session_create does to the heap: the object is the one session_hash has
\* under the id, or a new one at the end, and every other object stays.
LEMMA SessionHeap ==
  ASSUME TypeOK, NEW t \in Threads, NEW label \in Stms, NEW sid \in SessionIds,
         NEW swk \in Swks, NEW type \in SwkTypes,
         session_create(t, label, sid, swk, type)
  PROVE  \E obj \in 1..Len(sessions') :
           /\ sessions' \in Seq(Session)
           /\ Len(sessions) <= Len(sessions') /\ Len(sessions') <= MaxSessions
           /\ \A i \in 1..Len(sessions) :
                /\ sessions'[i].name = sessions[i].name
                /\ sessions'[i].session_id = sessions[i].session_id
           /\ session_lookup(sid) => obj = session_hash[sid]
           /\ ~session_lookup(sid) => /\ obj = Len(sessions) + 1
                                      /\ sessions'[obj].session_id = sid
                                      /\ sessions'[obj].name = label
           /\ session_hash' = HashInsert(HashRemove(session_hash,
                                            retired_sessions(label, sid)), sid, obj)
           /\ stm_session' = [stm_session EXCEPT ![sessions'[obj].name] = obj]
  <1>1. CASE session_lookup(sid)
    <2> DEFINE obj == session_hash[sid]
    <2>1. obj \in 1..Len(sessions)
      BY <1>1 DEF session_lookup, TypeOK
    <2>2. sessions' = [sessions EXCEPT ![obj].swk = swk]
      BY <1>1 DEF session_create
    <2> DEFINE new == [sessions[obj] EXCEPT !.swk = swk]
    <2>s. sessions[obj] \in Session
      BY <2>1 DEF TypeOK
    <2>n. new \in Session
      BY <2>s DEF Session
    <2>3. sessions' \in Seq(Session) /\ Len(sessions') = Len(sessions)
      <3>1. sessions' = [sessions EXCEPT ![obj] = new]
        BY <2>2
      <3> HIDE DEF new, obj
      <3> QED BY <3>1, <2>1, <2>n DEF TypeOK
    <2>4. \A i \in 1..Len(sessions) :
            /\ sessions'[i].name = sessions[i].name
            /\ sessions'[i].session_id = sessions[i].session_id
      BY <2>1, <2>2 DEF TypeOK, Session
    <2>5. /\ session_hash' = HashInsert(HashRemove(session_hash,
                                          retired_sessions(label, sid)), sid, obj)
          /\ stm_session' = [stm_session EXCEPT ![sessions'[obj].name] = obj]
      BY <1>1 DEF session_create
    <2>6. Len(sessions) <= MaxSessions /\ Len(sessions) \in Nat
      BY DEF TypeOK
    <2>7. obj \in 1..Len(sessions')
      BY <2>1, <2>3
    <2>8. session_lookup(sid) => obj = session_hash[sid]
      OBVIOUS
    <2> HIDE DEF obj
    <2> WITNESS obj \in 1..Len(sessions')
    <2> QED BY <1>1, <2>3, <2>4, <2>5, <2>6, <2>8
  <1>2. CASE ~session_lookup(sid)
    <2> DEFINE obj == Len(sessions) + 1
               new == [name |-> label, session_id |-> sid, swk |-> swk, swk_type |-> type]
    <2>1. sessions' = Append(sessions, new) /\ obj <= MaxSessions
      BY <1>2 DEF session_create, session_new
    <2>2. new \in Session
      BY DEF Session
    <2> HIDE DEF new
    <2>3. /\ sessions' \in Seq(Session)
          /\ Len(sessions') = obj
          /\ sessions'[obj] = new
          /\ \A i \in 1..Len(sessions) : sessions'[i] = sessions[i]
      BY <2>1, <2>2 DEF TypeOK
    <2>4. new.session_id = sid /\ new.name = label
      BY DEF new
    <2>5. /\ session_hash' = HashInsert(HashRemove(session_hash,
                                          retired_sessions(label, sid)), sid, obj)
          /\ stm_session' = [stm_session EXCEPT ![label] = obj]
      BY <1>2 DEF session_create, session_new
    <2>6. Len(sessions) \in Nat
      BY DEF TypeOK
    <2>7. obj \in 1..Len(sessions')
      BY <2>3, <2>6
    <2>8. Len(sessions) <= Len(sessions') /\ Len(sessions') <= MaxSessions
      BY <2>1, <2>3, <2>6
    <2>9. \A i \in 1..Len(sessions) :
            /\ sessions'[i].name = sessions[i].name
            /\ sessions'[i].session_id = sessions[i].session_id
      BY <2>3
    <2>10. sessions'[obj].session_id = sid /\ sessions'[obj].name = label
      BY <2>3, <2>4
    <2> WITNESS obj \in 1..Len(sessions')
    <2>11. stm_session' = [stm_session EXCEPT ![sessions'[obj].name] = obj]
      BY <2>5, <2>10
    <2> QED BY <1>2, <2>3, <2>5, <2>8, <2>9, <2>10, <2>11
  <1> QED BY <1>1, <1>2

LEMMA SessionCreateType ==
  ASSUME TypeOK, NEW t \in Threads, NEW label \in Stms, NEW sid \in SessionIds,
         NEW swk \in Swks, NEW type \in SwkTypes,
         session_create(t, label, sid, swk, type)
  PROVE  TypeOK'
  <1>1. PICK obj \in 1..Len(sessions') :
           /\ sessions' \in Seq(Session)
           /\ Len(sessions) <= Len(sessions') /\ Len(sessions') <= MaxSessions
           /\ session_hash' = HashInsert(HashRemove(session_hash,
                                            retired_sessions(label, sid)), sid, obj)
           /\ stm_session' = [stm_session EXCEPT ![sessions'[obj].name] = obj]
    BY SessionHeap
  <1>2. Len(sessions) \in Nat /\ Len(sessions') \in Nat
    BY <1>1 DEF TypeOK
  <1> DEFINE rest == HashRemove(session_hash, retired_sessions(label, sid))
  <1>3. /\ rest \in [DOMAIN rest -> 1..Len(sessions')]
        /\ DOMAIN rest \subseteq SessionIds
    <2>1. session_hash \in [DOMAIN session_hash -> 1..Len(sessions')]
      BY <1>1, <1>2 DEF TypeOK
    <2>2. /\ DOMAIN rest = (DOMAIN session_hash) \ retired_sessions(label, sid)
          /\ rest \in [DOMAIN rest -> 1..Len(sessions')]
      BY <2>1, HashRemoveType, Zenon
    <2> HIDE DEF rest
    <2> QED BY <2>2 DEF TypeOK
  <1>h. session_hash' = HashInsert(rest, sid, obj)
    BY <1>1
  <1> HIDE DEF rest
  <1>4. /\ session_hash' \in [DOMAIN session_hash' -> 1..Len(sessions')]
        /\ DOMAIN session_hash' \subseteq SessionIds
    <2> DEFINE h == HashInsert(rest, sid, obj)
    <2>1. DOMAIN h = DOMAIN rest \cup {sid} /\ h \in [DOMAIN h -> 1..Len(sessions')]
      BY <1>1, <1>3 DEF HashInsert
    <2> HIDE DEF h
    <2> QED BY <1>3, <1>h, <2>1 DEF h
  <1>5. stm_session' \in [Stms -> 0..Len(sessions')]
    <2>1. sessions'[obj].name \in Stms
      <3>1. sessions'[obj] \in Session
        BY <1>1, <1>2
      <3> QED BY <3>1 DEF Session
    <2> QED BY <1>1, <1>2, <2>1 DEF TypeOK
  <1>6. /\ key_hash' = key_hash
        /\ \A k \in DOMAIN key_hash : key_hash[k].session \in 1..Len(sessions')
    BY <1>1, <1>2, SessionCreateKeepsKeys DEF TypeOK
  <1> DEFINE c == [call[t] EXCEPT !.pc = "set_wrapping_key"]
  <1>7. c \in Call /\ c.url \in Urls
    BY ZenonT(60) DEF session_create, Holds, TypeOK, Call, Pcs
  <1>8. /\ call' = [call EXCEPT ![t] = c]
        /\ UNCHANGED <<rwlock, apimodule_loadkey_hash, delivered, aborted>>
    BY DEF session_create
  <1> HIDE DEF c
  <1>9. /\ call' \in [Threads -> Call]
        /\ \A s \in Threads : call'[s].pc # "idle" => call'[s].url \in Urls
    BY <1>7, <1>8 DEF TypeOK
  <1> QED BY <1>1, <1>4, <1>5, <1>6, <1>8, <1>9 DEF TypeOK

LEMMA NextType == TypeOK /\ [Next]_vars => TypeOK'
  <1> SUFFICES ASSUME TypeOK, [Next]_vars PROVE TypeOK'
    OBVIOUS
  <1>1. ASSUME NEW t \in Threads, NEW u \in Urls, NEW e \in Errs, load_malformed(t, u, e)
        PROVE  TypeOK'
    <2> DEFINE c == [pc |-> "returned", url |-> u, todo |-> {}, ret |-> FALSE, err |-> e]
    <2>1. c \in Call /\ c.url \in Urls
      BY <1>1 DEF load_malformed, Holds, TypeOK, Call, Pcs, Errs
    <2>2. call' = [call EXCEPT ![t] = c] /\ UNCHANGED <<agentTables, aborted>>
      BY <1>1 DEF load_malformed
    <2>3. /\ rwlock' \in Threads \cup {NoThread}
          /\ apimodule_loadkey_hash' \subseteq Threads
          /\ delivered' \in [Urls -> Nat]
      BY <1>1 DEF load_malformed, TypeOK, Holds
    <2> HIDE DEF c
    <2> QED BY <2>1, <2>2, <2>3, CallStepType
  <1>2. ASSUME NEW t \in Threads, NEW u \in Urls, NEW e \in Errs, load_called(t, u, e)
        PROVE  TypeOK'
    <2> DEFINE c == [pc |-> "lock", url |-> u, todo |-> Npms, ret |-> FALSE, err |-> e]
    <2>1. c \in Call /\ c.url \in Urls
      BY <1>2 DEF load_called, Holds, TypeOK, Call, Pcs, Errs
    <2>2. call' = [call EXCEPT ![t] = c] /\ UNCHANGED <<agentTables, aborted>>
      BY <1>2 DEF load_called
    <2>3. /\ rwlock' \in Threads \cup {NoThread}
          /\ apimodule_loadkey_hash' \subseteq Threads
          /\ delivered' \in [Urls -> Nat]
      BY <1>2 DEF load_called, TypeOK, Holds
    <2> HIDE DEF c
    <2> QED BY <2>1, <2>2, <2>3, CallStepType
  <1>3. ASSUME NEW t \in Threads, load_locked(t)
        PROVE  TypeOK'
    <2> DEFINE c == IF key_lookup(call[t].url)
                      THEN [call[t] EXCEPT !.pc = "unlock", !.ret = TRUE]
                      ELSE [call[t] EXCEPT !.pc = "find"]
    <2>1. c \in Call /\ c.url \in Urls
      BY <1>3, ZenonT(60) DEF load_locked, Holds, TypeOK, Call, Pcs, Errs
    <2>2. call' = [call EXCEPT ![t] = c] /\ UNCHANGED <<agentTables, aborted>>
      BY <1>3 DEF load_locked
    <2>3. /\ rwlock' \in Threads \cup {NoThread}
          /\ apimodule_loadkey_hash' \subseteq Threads
          /\ delivered' \in [Urls -> Nat]
      BY <1>3 DEF load_locked, TypeOK, Holds
    <2> HIDE DEF c
    <2> QED BY <2>1, <2>2, <2>3, CallStepType
  <1>4. ASSUME NEW t \in Threads, load_unlocked(t)
        PROVE  TypeOK'
    <2> DEFINE c == [call[t] EXCEPT !.pc = "returned"]
    <2>1. c \in Call /\ c.url \in Urls
      BY <1>4, ZenonT(60) DEF load_unlocked, Holds, TypeOK, Call, Pcs, Errs
    <2>2. call' = [call EXCEPT ![t] = c] /\ UNCHANGED <<agentTables, aborted>>
      BY <1>4 DEF load_unlocked
    <2>3. /\ rwlock' \in Threads \cup {NoThread}
          /\ apimodule_loadkey_hash' \subseteq Threads
          /\ delivered' \in [Urls -> Nat]
      BY <1>4 DEF load_unlocked, TypeOK, Holds
    <2> HIDE DEF c
    <2> QED BY <2>1, <2>2, <2>3, CallStepType
  <1>5. ASSUME NEW t \in Threads, load_not_found(t)
        PROVE  TypeOK'
    <2> DEFINE c == [call[t] EXCEPT !.pc = "unlock", !.err = "unsupported"]
    <2>1. c \in Call /\ c.url \in Urls
      BY <1>5, ZenonT(60) DEF load_not_found, Holds, TypeOK, Call, Pcs, Errs
    <2>2. call' = [call EXCEPT ![t] = c] /\ UNCHANGED <<agentTables, aborted>>
      BY <1>5 DEF load_not_found
    <2>3. /\ rwlock' \in Threads \cup {NoThread}
          /\ apimodule_loadkey_hash' \subseteq Threads
          /\ delivered' \in [Urls -> Nat]
      BY <1>5 DEF load_not_found, TypeOK, Holds
    <2> HIDE DEF c
    <2> QED BY <2>1, <2>2, <2>3, CallStepType
  <1>6. ASSUME NEW t \in Threads, NEW n \in Npms, loadkey_skip(t, n)
        PROVE  TypeOK'
    <2> DEFINE c == [call[t] EXCEPT !.todo = @ \ {n}]
    <2>1. c \in Call /\ c.url \in Urls
      BY <1>6, ZenonT(60) DEF loadkey_skip, Holds, TypeOK, Call, Pcs, Errs
    <2>2. call' = [call EXCEPT ![t] = c] /\ UNCHANGED <<agentTables, aborted>>
      BY <1>6 DEF loadkey_skip
    <2>3. /\ rwlock' \in Threads \cup {NoThread}
          /\ apimodule_loadkey_hash' \subseteq Threads
          /\ delivered' \in [Urls -> Nat]
      BY <1>6 DEF loadkey_skip, TypeOK, Holds
    <2> HIDE DEF c
    <2> QED BY <2>1, <2>2, <2>3, CallStepType
  <1>7. ASSUME NEW t \in Threads, NEW n \in Npms, loadkey_npm(t, n)
        PROVE  TypeOK'
    <2> DEFINE c == [call[t] EXCEPT !.todo = @ \ {n}, !.pc = "npm"]
    <2>1. c \in Call /\ c.url \in Urls
      BY <1>7, ZenonT(60) DEF loadkey_npm, Holds, TypeOK, Call, Pcs, Errs
    <2>2. call' = [call EXCEPT ![t] = c] /\ UNCHANGED <<agentTables, aborted>>
      BY <1>7 DEF loadkey_npm
    <2>3. /\ rwlock' \in Threads \cup {NoThread}
          /\ apimodule_loadkey_hash' \subseteq Threads
          /\ delivered' \in [Urls -> Nat]
      BY <1>7 DEF loadkey_npm, TypeOK, Holds
    <2> HIDE DEF c
    <2> QED BY <2>1, <2>2, <2>3, CallStepType
  <1>8. ASSUME NEW t \in Threads, NEW e \in Errs, loadkey_npm_returned(t, e)
        PROVE  TypeOK'
    <2> DEFINE found == key_lookup(call[t].url)
    <2>0. found \in BOOLEAN
      BY DEF key_lookup
    <2> HIDE DEF found
    <2> DEFINE c == IF found
                      THEN [call[t] EXCEPT !.pc = "load_key", !.err = e]
                      ELSE [call[t] EXCEPT !.pc = "unlock", !.ret = found, !.err = e]
    <2>1. c \in Call /\ c.url \in Urls
      BY <2>0, <1>8, ZenonT(60) DEF loadkey_npm_returned, Holds, TypeOK, Call, Pcs, Errs
    <2>2. call' = [call EXCEPT ![t] = c] /\ UNCHANGED <<agentTables, aborted>>
      BY <1>8 DEF loadkey_npm_returned, loadkey_result, request_removed, found
    <2>3. /\ rwlock' \in Threads \cup {NoThread}
          /\ apimodule_loadkey_hash' \subseteq Threads
          /\ delivered' \in [Urls -> Nat]
      BY <1>8 DEF loadkey_npm_returned, TypeOK, Holds, request_removed
    <2> HIDE DEF c
    <2> QED BY <2>1, <2>2, <2>3, CallStepType
  <1>9. ASSUME NEW t \in Threads, stm_load_key(t)
        PROVE  TypeOK'
    <2> DEFINE found == key_lookup(call[t].url)
    <2>0. found \in BOOLEAN
      BY DEF key_lookup
    <2> HIDE DEF found
    <2> DEFINE c == [call[t] EXCEPT !.pc = "unlock", !.ret = found, !.err = call[t].err]
    <2>1. c \in Call /\ c.url \in Urls
      BY <2>0, <1>9, ZenonT(60) DEF stm_load_key, Holds, TypeOK, Call, Pcs, Errs
    <2>2. call' = [call EXCEPT ![t] = c] /\ UNCHANGED <<agentTables, aborted>>
      BY <1>9 DEF stm_load_key, loadkey_result, request_removed, found
    <2>3. /\ rwlock' \in Threads \cup {NoThread}
          /\ apimodule_loadkey_hash' \subseteq Threads
          /\ delivered' \in [Urls -> Nat]
      BY <1>9 DEF stm_load_key, TypeOK, Holds, request_removed
    <2> HIDE DEF c
    <2> QED BY <2>1, <2>2, <2>3, CallStepType
  <1>10. ASSUME NEW t \in Threads, stm_load_key_refused(t)
        PROVE  TypeOK'
    <2> DEFINE c == [call[t] EXCEPT !.pc = "find",
                      !.err = IF call[t].err = "none" THEN "dangling" ELSE call[t].err]
    <2>1. c \in Call /\ c.url \in Urls
      BY <1>10, ZenonT(60) DEF stm_load_key_refused, Holds, TypeOK, Call, Pcs, Errs
    <2>2. call' = [call EXCEPT ![t] = c] /\ UNCHANGED <<agentTables, aborted>>
      BY <1>10 DEF stm_load_key_refused, loadkey_result, request_removed
    <2>3. /\ rwlock' \in Threads \cup {NoThread}
          /\ apimodule_loadkey_hash' \subseteq Threads
          /\ delivered' \in [Urls -> Nat]
      BY <1>10 DEF stm_load_key_refused, TypeOK, Holds, request_removed
    <2> HIDE DEF c
    <2> QED BY <2>1, <2>2, <2>3, CallStepType
  <1>11. ASSUME NEW t \in Threads, NEW label \in Stms, stm_get_challenge(t, label)
        PROVE  TypeOK'
    <2> DEFINE c == [call[t] EXCEPT !.pc = "get_challenge"]
    <2>1. c \in Call /\ c.url \in Urls
      BY <1>11, ZenonT(60) DEF stm_get_challenge, Holds, TypeOK, Call, Pcs, Errs
    <2>2. call' = [call EXCEPT ![t] = c] /\ UNCHANGED <<agentTables, aborted>>
      BY <1>11 DEF stm_get_challenge
    <2>3. /\ rwlock' \in Threads \cup {NoThread}
          /\ apimodule_loadkey_hash' \subseteq Threads
          /\ delivered' \in [Urls -> Nat]
      BY <1>11 DEF stm_get_challenge, TypeOK, Holds
    <2> HIDE DEF c
    <2> QED BY <2>1, <2>2, <2>3, CallStepType
  <1>12. ASSUME NEW t \in Threads, NEW pc \in Pcs, NEW ok \in BOOLEAN, NEW e \in Errs, callback_returned(t, pc, ok, e)
        PROVE  TypeOK'
    <2> DEFINE c == [call[t] EXCEPT !.pc = "npm", !.err = e]
    <2>1. c \in Call /\ c.url \in Urls
      BY <1>12, ZenonT(60) DEF callback_returned, Holds, TypeOK, Call, Pcs, Errs
    <2>2. call' = [call EXCEPT ![t] = c] /\ UNCHANGED <<agentTables, aborted>>
      BY <1>12 DEF callback_returned
    <2>3. /\ rwlock' \in Threads \cup {NoThread}
          /\ apimodule_loadkey_hash' \subseteq Threads
          /\ delivered' \in [Urls -> Nat]
      BY <1>12 DEF callback_returned, TypeOK, Holds
    <2> HIDE DEF c
    <2> QED BY <2>1, <2>2, <2>3, CallStepType
  <1>13. ASSUME NEW t \in Threads, callback_rejected(t)
        PROVE  TypeOK'
    <2> DEFINE c == [call[t] EXCEPT !.err = "set"]
    <2>1. c \in Call /\ c.url \in Urls
      BY <1>13, ZenonT(60) DEF callback_rejected, Holds, TypeOK, Call, Pcs, Errs
    <2>2. call' = [call EXCEPT ![t] = c] /\ UNCHANGED <<agentTables, aborted>>
      BY <1>13 DEF callback_rejected
    <2>3. /\ rwlock' \in Threads \cup {NoThread}
          /\ apimodule_loadkey_hash' \subseteq Threads
          /\ delivered' \in [Urls -> Nat]
      BY <1>13 DEF callback_rejected, TypeOK, Holds
    <2> HIDE DEF c
    <2> QED BY <2>1, <2>2, <2>3, CallStepType
  <1>14. ASSUME NEW t \in Threads, double_free(t)
         PROVE  TypeOK'
    BY <1>14 DEF double_free, TypeOK, agentTables
  <1>15. ASSUME NEW t \in Threads, NEW type \in KeyTypes, NEW sid \in SessionIds,
                key_create(t, type, sid)
         PROVE  TypeOK'
    BY <1>15, KeyCreateType
  <1>16. ASSUME NEW t \in Threads, NEW label \in Stms, NEW sid \in SessionIds,
                NEW swk \in Swks, NEW type \in SwkTypes,
                session_create(t, label, sid, swk, type)
         PROVE  TypeOK'
    BY <1>16, SessionCreateType
  <1>17. CASE UNCHANGED vars
    BY <1>17 DEF vars, TypeOK
  <1> QED BY <1>1, <1>2, <1>3, <1>4, <1>5, <1>6, <1>7, <1>8, <1>9, <1>10, <1>11,
             <1>12, <1>13, <1>14, <1>15, <1>16, <1>17
          DEF Next, Load, Callback, Halted

\* TypeOK is an invariant: in particular no table ever points to a session
\* object that was not allocated, and key_hash is only ever keyed by quarks.
THEOREM Typing == Spec => []TypeOK
  <1>1. Init => TypeOK
    BY InitType
  <1>2. TypeOK /\ [Next]_vars => TypeOK'
    BY NextType
  <1> QED BY <1>1, <1>2, PTL DEF Spec

-----------------------------------------------------------------------------
(* The lock. *)

LEMMA InitLock == Init => OneLoadAtATime
  BY DEF Init, OneLoadAtATime, Searching, Requested

LEMMA NextLock == TypeOK /\ OneLoadAtATime /\ [Next]_vars => OneLoadAtATime'
  <1> SUFFICES ASSUME TypeOK, OneLoadAtATime, [Next]_vars PROVE OneLoadAtATime'
    OBVIOUS
  <1>1. ASSUME NEW t \in Threads, NEW u \in Urls, NEW e \in Errs, load_malformed(t, u, e)
        PROVE  OneLoadAtATime'
    BY <1>1 DEF load_malformed, Holds, OneLoadAtATime, Searching, Requested, TypeOK, Call
  <1>2. ASSUME NEW t \in Threads, NEW u \in Urls, NEW e \in Errs, load_called(t, u, e)
        PROVE  OneLoadAtATime'
    BY <1>2 DEF load_called, Holds, OneLoadAtATime, Searching, Requested, TypeOK, Call
  <1>3. ASSUME NEW t \in Threads, load_locked(t)
        PROVE  OneLoadAtATime'
    BY <1>3 DEF load_locked, Holds, OneLoadAtATime, Searching, Requested, TypeOK, Call
  <1>4. ASSUME NEW t \in Threads, load_unlocked(t)
        PROVE  OneLoadAtATime'
    BY <1>4 DEF load_unlocked, Holds, OneLoadAtATime, Searching, Requested, TypeOK, Call
  <1>5. ASSUME NEW t \in Threads, load_not_found(t)
        PROVE  OneLoadAtATime'
    BY <1>5 DEF load_not_found, Holds, OneLoadAtATime, Searching, Requested, TypeOK, Call
  <1>6. ASSUME NEW t \in Threads, NEW n \in Npms, loadkey_skip(t, n)
        PROVE  OneLoadAtATime'
    BY <1>6 DEF loadkey_skip, Holds, OneLoadAtATime, Searching, Requested, TypeOK, Call
  <1>7. ASSUME NEW t \in Threads, NEW n \in Npms, loadkey_npm(t, n)
        PROVE  OneLoadAtATime'
    BY <1>7 DEF loadkey_npm, Holds, OneLoadAtATime, Searching, Requested, TypeOK, Call
  <1>8. ASSUME NEW t \in Threads, NEW e \in Errs, loadkey_npm_returned(t, e)
        PROVE  OneLoadAtATime'
    <2>1. CASE key_lookup(call[t].url)
      <3>1. /\ call[t].pc = "npm"
            /\ call' = [call EXCEPT ![t].pc = "load_key", ![t].err = e]
            /\ apimodule_loadkey_hash' = apimodule_loadkey_hash /\ rwlock' = rwlock
        BY <1>8, <2>1 DEF loadkey_npm_returned, Holds
      <3> QED BY <3>1, SMTT(30) DEF OneLoadAtATime, Searching, Requested, TypeOK
    <2>2. CASE ~key_lookup(call[t].url)
      <3>1. /\ call[t].pc = "npm"
            /\ call' = [call EXCEPT ![t].pc = "unlock", ![t].ret = key_lookup(call[t].url),
                                   ![t].err = e]
            /\ apimodule_loadkey_hash' = apimodule_loadkey_hash \ {t} /\ rwlock' = rwlock
        BY <1>8, <2>2 DEF loadkey_npm_returned, Holds, loadkey_result, request_removed
      <3> QED BY <3>1, SMTT(30) DEF OneLoadAtATime, Searching, Requested, TypeOK
    <2> QED BY <2>1, <2>2
  <1>9. ASSUME NEW t \in Threads, stm_load_key(t)
        PROVE  OneLoadAtATime'
    BY <1>9 DEF stm_load_key, Holds, OneLoadAtATime, Searching, Requested, TypeOK, Call, loadkey_result, request_removed
  <1>10. ASSUME NEW t \in Threads, stm_load_key_refused(t)
        PROVE  OneLoadAtATime'
    BY <1>10 DEF stm_load_key_refused, Holds, OneLoadAtATime, Searching, Requested, TypeOK, Call, loadkey_result, request_removed
  <1>11. ASSUME NEW t \in Threads, double_free(t)
        PROVE  OneLoadAtATime'
    BY <1>11 DEF double_free, Holds, OneLoadAtATime, Searching, Requested, TypeOK, Call
  <1>12. ASSUME NEW t \in Threads, NEW label \in Stms, stm_get_challenge(t, label)
        PROVE  OneLoadAtATime'
    BY <1>12 DEF stm_get_challenge, Holds, OneLoadAtATime, Searching, Requested, TypeOK, Call
  <1>13. ASSUME NEW t \in Threads, NEW label \in Stms, NEW sid \in SessionIds,
               NEW swk \in Swks, NEW type \in SwkTypes,
               session_create(t, label, sid, swk, type)
        PROVE  OneLoadAtATime'
    BY <1>13 DEF session_create, Holds, OneLoadAtATime, Searching, Requested, TypeOK, Call
  <1>14. ASSUME NEW t \in Threads, NEW pc \in Pcs, NEW ok \in BOOLEAN, NEW e \in Errs,
               callback_returned(t, pc, ok, e)
        PROVE  OneLoadAtATime'
    BY <1>14 DEF callback_returned, Holds, OneLoadAtATime, Searching, Requested, TypeOK, Call
  <1>15. ASSUME NEW t \in Threads, callback_rejected(t)
        PROVE  OneLoadAtATime'
    BY <1>15 DEF callback_rejected, Holds, OneLoadAtATime, Searching, Requested, TypeOK, Call
  <1>16. ASSUME NEW t \in Threads, NEW type \in KeyTypes, NEW sid \in SessionIds,
               key_create(t, type, sid)
        PROVE  OneLoadAtATime'
    BY <1>16 DEF key_create, Holds, OneLoadAtATime, Searching, Requested, TypeOK, Call
  <1>17. CASE UNCHANGED vars
    BY <1>17 DEF vars, OneLoadAtATime, Searching, Requested
  <1> QED BY <1>1, <1>2, <1>3, <1>4, <1>5, <1>6, <1>7, <1>8, <1>9,
             <1>10, <1>11, <1>12, <1>13, <1>14, <1>15, <1>16, <1>17
          DEF Next, Load, Callback, Halted

\* Only the holder of keyagent::rwlock is between the lookup of a url and the
\* result of its load, and the requests registered are those of its module.
THEOREM MutualExclusion == Spec => []OneLoadAtATime
  <1>1. Init => OneLoadAtATime
    BY InitLock
  <1>2. TypeOK /\ OneLoadAtATime /\ [Next]_vars => OneLoadAtATime'
    BY NextLock
  <1> QED BY <1>1, <1>2, Typing, PTL DEF Spec

-----------------------------------------------------------------------------
(* Sessions. *)

LEMMA SessionCreateSessions ==
  ASSUME TypeOK, AnnouncedSessionIsCurrent,
         NEW t \in Threads, NEW label \in Stms, NEW sid \in SessionIds,
         NEW swk \in Swks, NEW type \in SwkTypes,
         session_create(t, label, sid, swk, type)
  PROVE  AnnouncedSessionIsCurrent'
  <1>1. PICK obj \in 1..Len(sessions') :
           /\ sessions' \in Seq(Session)
           /\ \A i \in 1..Len(sessions) :
                /\ sessions'[i].name = sessions[i].name
                /\ sessions'[i].session_id = sessions[i].session_id
           /\ session_lookup(sid) => obj = session_hash[sid]
           /\ ~session_lookup(sid) => /\ sessions'[obj].session_id = sid
                                      /\ sessions'[obj].name = label
           /\ session_hash' = HashInsert(HashRemove(session_hash,
                                            retired_sessions(label, sid)), sid, obj)
           /\ stm_session' = [stm_session EXCEPT ![sessions'[obj].name] = obj]
    BY SessionHeap
  <1>2. /\ DOMAIN session_hash' = ((DOMAIN session_hash) \ retired_sessions(label, sid)) \cup {sid}
        /\ session_hash'[sid] = obj
        /\ \A s \in DOMAIN session_hash' : s # sid => session_hash'[s] = session_hash[s]
    BY <1>1 DEF HashInsert, HashRemove
  <1>3. \A s \in DOMAIN session_hash : session_hash[s] \in 1..Len(sessions)
    BY DEF TypeOK
  <1>4. sessions'[obj].session_id = sid /\ sessions'[obj].name \in Stms
    <2>1. sessions'[obj] \in Session
      BY <1>1
    <2>2. sessions'[obj].session_id = sid
      BY <1>1, <1>3 DEF session_lookup, AnnouncedSessionIsCurrent
    <2> QED BY <2>1, <2>2 DEF Session
  <1>5. stm_session'[sessions'[obj].name] = obj
    BY <1>1, <1>4 DEF TypeOK
  <1>6. ASSUME NEW s \in DOMAIN session_hash', s # sid
        PROVE  /\ sessions'[session_hash'[s]].session_id = s
               /\ stm_session'[sessions'[session_hash'[s]].name] = session_hash'[s]
    <2> DEFINE o == session_hash[s]
    <2>1. /\ s \in DOMAIN session_hash /\ s \notin retired_sessions(label, sid)
          /\ session_hash'[s] = o /\ o \in 1..Len(sessions)
      BY <1>2, <1>3, <1>6
    <2>2. sessions[o].session_id = s /\ stm_session[sessions[o].name] = o
      BY <2>1 DEF AnnouncedSessionIsCurrent
    <2>3. sessions'[o].session_id = s /\ sessions'[o].name = sessions[o].name
      BY <1>1, <2>1, <2>2
    <2>4. sessions[o].name # sessions'[obj].name
      <3>1. CASE session_lookup(sid)
        <4>1. obj = session_hash[sid] /\ obj \in 1..Len(sessions) /\ sid \in DOMAIN session_hash
          BY <1>1, <1>3, <3>1 DEF session_lookup
        <4>2. sessions[obj].session_id = sid /\ stm_session[sessions[obj].name] = obj
          BY <4>1 DEF AnnouncedSessionIsCurrent
        <4>3. sessions'[obj].name = sessions[obj].name
          BY <1>1, <4>1
        <4> QED BY <1>6, <2>2, <4>2, <4>3
      <3>2. CASE ~session_lookup(sid)
        <4>1. sessions'[obj].name = label
          BY <1>1, <3>2
        <4>2. ASSUME sessions[o].name = label  PROVE FALSE
          <5>1. stm_session[label] = o /\ o # 0
            BY <2>1, <2>2, <4>2
          <5>2. s \in retired_sessions(label, sid)
            BY <1>6, <2>2, <5>1 DEF retired_sessions
          <5> QED BY <2>1, <5>2
        <4> QED BY <4>1, <4>2
      <3> QED BY <3>1, <3>2
    <2>5. stm_session'[sessions[o].name] = o
      <3>1. sessions[o] \in Session
        BY <2>1 DEF TypeOK
      <3>2. sessions[o].name \in Stms
        BY <3>1 DEF Session
      <3> QED BY <1>1, <2>2, <2>4, <3>2 DEF TypeOK
    <2> QED BY <2>1, <2>3, <2>5
  <1> QED BY <1>2, <1>4, <1>5, <1>6 DEF AnnouncedSessionIsCurrent

LEMMA NextSessions ==
  TypeOK /\ AnnouncedSessionIsCurrent /\ [Next]_vars => AnnouncedSessionIsCurrent'
  <1> SUFFICES ASSUME TypeOK, AnnouncedSessionIsCurrent, [Next]_vars
               PROVE  AnnouncedSessionIsCurrent'
    OBVIOUS
  <1>1. ASSUME NEW t \in Threads, NEW u \in Urls, NEW e \in Errs, load_malformed(t, u, e)
        PROVE  AnnouncedSessionIsCurrent'
    BY <1>1 DEF load_malformed, agentTables, AnnouncedSessionIsCurrent
  <1>2. ASSUME NEW t \in Threads, NEW u \in Urls, NEW e \in Errs, load_called(t, u, e)
        PROVE  AnnouncedSessionIsCurrent'
    BY <1>2 DEF load_called, agentTables, AnnouncedSessionIsCurrent
  <1>3. ASSUME NEW t \in Threads, load_locked(t)
        PROVE  AnnouncedSessionIsCurrent'
    BY <1>3 DEF load_locked, agentTables, AnnouncedSessionIsCurrent
  <1>4. ASSUME NEW t \in Threads, load_unlocked(t)
        PROVE  AnnouncedSessionIsCurrent'
    BY <1>4 DEF load_unlocked, agentTables, AnnouncedSessionIsCurrent
  <1>5. ASSUME NEW t \in Threads, load_not_found(t)
        PROVE  AnnouncedSessionIsCurrent'
    BY <1>5 DEF load_not_found, agentTables, AnnouncedSessionIsCurrent
  <1>6. ASSUME NEW t \in Threads, NEW n \in Npms, loadkey_skip(t, n)
        PROVE  AnnouncedSessionIsCurrent'
    BY <1>6 DEF loadkey_skip, agentTables, AnnouncedSessionIsCurrent
  <1>7. ASSUME NEW t \in Threads, NEW n \in Npms, loadkey_npm(t, n)
        PROVE  AnnouncedSessionIsCurrent'
    BY <1>7 DEF loadkey_npm, agentTables, AnnouncedSessionIsCurrent
  <1>8. ASSUME NEW t \in Threads, NEW e \in Errs, loadkey_npm_returned(t, e)
        PROVE  AnnouncedSessionIsCurrent'
    BY <1>8 DEF loadkey_npm_returned, agentTables, AnnouncedSessionIsCurrent
  <1>9. ASSUME NEW t \in Threads, stm_load_key(t)
        PROVE  AnnouncedSessionIsCurrent'
    BY <1>9 DEF stm_load_key, agentTables, AnnouncedSessionIsCurrent
  <1>10. ASSUME NEW t \in Threads, stm_load_key_refused(t)
        PROVE  AnnouncedSessionIsCurrent'
    BY <1>10 DEF stm_load_key_refused, agentTables, AnnouncedSessionIsCurrent
  <1>11. ASSUME NEW t \in Threads, double_free(t)
        PROVE  AnnouncedSessionIsCurrent'
    BY <1>11 DEF double_free, agentTables, AnnouncedSessionIsCurrent
  <1>12. ASSUME NEW t \in Threads, NEW label \in Stms, stm_get_challenge(t, label)
        PROVE  AnnouncedSessionIsCurrent'
    BY <1>12 DEF stm_get_challenge, agentTables, AnnouncedSessionIsCurrent
  <1>13. ASSUME NEW t \in Threads, NEW label \in Stms, NEW sid \in SessionIds,
               NEW swk \in Swks, NEW type \in SwkTypes,
               session_create(t, label, sid, swk, type)
        PROVE  AnnouncedSessionIsCurrent'
    BY <1>13, SessionCreateSessions
  <1>14. ASSUME NEW t \in Threads, NEW pc \in Pcs, NEW ok \in BOOLEAN, NEW e \in Errs,
               callback_returned(t, pc, ok, e)
        PROVE  AnnouncedSessionIsCurrent'
    BY <1>14 DEF callback_returned, agentTables, AnnouncedSessionIsCurrent
  <1>15. ASSUME NEW t \in Threads, callback_rejected(t)
        PROVE  AnnouncedSessionIsCurrent'
    BY <1>15 DEF callback_rejected, agentTables, AnnouncedSessionIsCurrent
  <1>16. ASSUME NEW t \in Threads, NEW type \in KeyTypes, NEW sid \in SessionIds,
               key_create(t, type, sid)
        PROVE  AnnouncedSessionIsCurrent'
    BY <1>16 DEF key_create, AnnouncedSessionIsCurrent
  <1>17. CASE UNCHANGED vars
    BY <1>17 DEF vars, AnnouncedSessionIsCurrent
  <1> QED BY <1>1, <1>2, <1>3, <1>4, <1>5, <1>6, <1>7, <1>8, <1>9,
             <1>10, <1>11, <1>12, <1>13, <1>14, <1>15, <1>16, <1>17
          DEF Next, Load, Callback, Halted

\* Every session announced to the key server is the current session of its STM.
THEOREM CurrentSessions == Spec => []AnnouncedSessionIsCurrent
  <1>1. Init => AnnouncedSessionIsCurrent
    BY DEF Init, AnnouncedSessionIsCurrent
  <1>2. TypeOK /\ AnnouncedSessionIsCurrent /\ [Next]_vars => AnnouncedSessionIsCurrent'
    BY NextSessions
  <1> QED BY <1>1, <1>2, Typing, PTL DEF Spec

\* No STM is ever announced with two sessions.
THEOREM OneSessionPerStm ==
  Spec => [](\A s1, s2 \in DOMAIN session_hash :
               sessions[session_hash[s1]].name = sessions[session_hash[s2]].name => s1 = s2)
  <1>1. AnnouncedSessionIsCurrent =>
          \A s1, s2 \in DOMAIN session_hash :
            sessions[session_hash[s1]].name = sessions[session_hash[s2]].name => s1 = s2
    BY DEF AnnouncedSessionIsCurrent
  <1> QED BY <1>1, CurrentSessions, PTL

-----------------------------------------------------------------------------
(* Keys. *)

KeysKept == \A k \in DOMAIN key_hash : k \in DOMAIN key_hash' /\ key_hash'[k] = key_hash[k]

LEMMA NextKeepsKeys == TypeOK /\ [Next]_vars => KeysKept
  <1> SUFFICES ASSUME TypeOK, [Next]_vars PROVE KeysKept
    OBVIOUS
  <1> USE DEF KeysKept
  <1>1. ASSUME NEW t \in Threads, NEW u \in Urls, NEW e \in Errs, load_malformed(t, u, e)
        PROVE  KeysKept
    BY <1>1 DEF load_malformed, agentTables
  <1>2. ASSUME NEW t \in Threads, NEW u \in Urls, NEW e \in Errs, load_called(t, u, e)
        PROVE  KeysKept
    BY <1>2 DEF load_called, agentTables
  <1>3. ASSUME NEW t \in Threads, load_locked(t)
        PROVE  KeysKept
    BY <1>3 DEF load_locked, agentTables
  <1>4. ASSUME NEW t \in Threads, load_unlocked(t)
        PROVE  KeysKept
    BY <1>4 DEF load_unlocked, agentTables
  <1>5. ASSUME NEW t \in Threads, load_not_found(t)
        PROVE  KeysKept
    BY <1>5 DEF load_not_found, agentTables
  <1>6. ASSUME NEW t \in Threads, NEW n \in Npms, loadkey_skip(t, n)
        PROVE  KeysKept
    BY <1>6 DEF loadkey_skip, agentTables
  <1>7. ASSUME NEW t \in Threads, NEW n \in Npms, loadkey_npm(t, n)
        PROVE  KeysKept
    BY <1>7 DEF loadkey_npm, agentTables
  <1>8. ASSUME NEW t \in Threads, NEW e \in Errs, loadkey_npm_returned(t, e)
        PROVE  KeysKept
    BY <1>8 DEF loadkey_npm_returned, agentTables
  <1>9. ASSUME NEW t \in Threads, stm_load_key(t)
        PROVE  KeysKept
    BY <1>9 DEF stm_load_key, agentTables
  <1>10. ASSUME NEW t \in Threads, stm_load_key_refused(t)
        PROVE  KeysKept
    BY <1>10 DEF stm_load_key_refused, agentTables
  <1>11. ASSUME NEW t \in Threads, double_free(t)
        PROVE  KeysKept
    BY <1>11 DEF double_free, agentTables
  <1>12. ASSUME NEW t \in Threads, NEW label \in Stms, stm_get_challenge(t, label)
        PROVE  KeysKept
    BY <1>12 DEF stm_get_challenge, agentTables
  <1>13. ASSUME NEW t \in Threads, NEW label \in Stms, NEW sid \in SessionIds,
               NEW swk \in Swks, NEW type \in SwkTypes,
               session_create(t, label, sid, swk, type)
        PROVE  KeysKept
    BY <1>13, SessionCreateKeepsKeys
  <1>14. ASSUME NEW t \in Threads, NEW pc \in Pcs, NEW ok \in BOOLEAN, NEW e \in Errs,
               callback_returned(t, pc, ok, e)
        PROVE  KeysKept
    BY <1>14 DEF callback_returned, agentTables
  <1>15. ASSUME NEW t \in Threads, callback_rejected(t)
        PROVE  KeysKept
    BY <1>15 DEF callback_rejected, agentTables
  <1>16. ASSUME NEW t \in Threads, NEW type \in KeyTypes, NEW sid \in SessionIds,
               key_create(t, type, sid)
        PROVE  KeysKept
    BY <1>16 DEF key_create, key_lookup, HashInsert
  <1>17. CASE UNCHANGED vars
    BY <1>17 DEF vars
  <1> QED BY <1>1, <1>2, <1>3, <1>4, <1>5, <1>6, <1>7, <1>8, <1>9,
             <1>10, <1>11, <1>12, <1>13, <1>14, <1>15, <1>16, <1>17
          DEF Next, Load, Callback, Halted

-----------------------------------------------------------------------------
(* Delivery. *)

LEMMA NextDelivery ==
  TypeOK /\ OneLoadAtATime /\ DeliveryInv /\ [Next]_vars => DeliveryInv'
  <1> SUFFICES ASSUME TypeOK, OneLoadAtATime, DeliveryInv, [Next]_vars
               PROVE  DeliveryInv'
    OBVIOUS
  <1>k. KeysKept
    BY NextKeepsKeys
  <1> USE DEF KeysKept
  <1>1. ASSUME NEW t \in Threads, NEW u \in Urls, NEW e \in Errs, load_malformed(t, u, e)
        PROVE  DeliveryInv'
    BY <1>1, <1>k DEF load_malformed, Holds, DeliveryInv, ResultTellsDelivery,
              AbortedOnlyAfterRefusal, NpmsCalled, agentTables, OneLoadAtATime,
              Searching, TypeOK, Call, key_lookup
  <1>2. ASSUME NEW t \in Threads, NEW u \in Urls, NEW e \in Errs, load_called(t, u, e)
        PROVE  DeliveryInv'
    BY <1>2, <1>k DEF load_called, Holds, DeliveryInv, ResultTellsDelivery,
              AbortedOnlyAfterRefusal, NpmsCalled, agentTables, OneLoadAtATime,
              Searching, TypeOK, Call, key_lookup
  <1>3. ASSUME NEW t \in Threads, load_locked(t)
        PROVE  DeliveryInv'
    BY <1>3, <1>k DEF load_locked, Holds, DeliveryInv, ResultTellsDelivery,
              AbortedOnlyAfterRefusal, NpmsCalled, agentTables, OneLoadAtATime,
              Searching, TypeOK, Call, key_lookup
  <1>4. ASSUME NEW t \in Threads, load_unlocked(t)
        PROVE  DeliveryInv'
    BY <1>4, <1>k DEF load_unlocked, Holds, DeliveryInv, ResultTellsDelivery,
              AbortedOnlyAfterRefusal, NpmsCalled, agentTables, OneLoadAtATime,
              Searching, TypeOK, Call, key_lookup
  <1>5. ASSUME NEW t \in Threads, load_not_found(t)
        PROVE  DeliveryInv'
    BY <1>5, <1>k DEF load_not_found, Holds, DeliveryInv, ResultTellsDelivery,
              AbortedOnlyAfterRefusal, NpmsCalled, agentTables, OneLoadAtATime,
              Searching, TypeOK, Call, key_lookup
  <1>6. ASSUME NEW t \in Threads, NEW n \in Npms, loadkey_skip(t, n)
        PROVE  DeliveryInv'
    BY <1>6, <1>k DEF loadkey_skip, Holds, DeliveryInv, ResultTellsDelivery,
              AbortedOnlyAfterRefusal, NpmsCalled, agentTables, OneLoadAtATime,
              Searching, TypeOK, Call, key_lookup
  <1>7. ASSUME NEW t \in Threads, NEW n \in Npms, loadkey_npm(t, n)
        PROVE  DeliveryInv'
    BY <1>7, <1>k DEF loadkey_npm, Holds, DeliveryInv, ResultTellsDelivery,
              AbortedOnlyAfterRefusal, NpmsCalled, agentTables, OneLoadAtATime,
              Searching, TypeOK, Call, key_lookup
  <1>8. ASSUME NEW t \in Threads, NEW e \in Errs, loadkey_npm_returned(t, e)
        PROVE  DeliveryInv'
    <2>1. call[t].pc = "npm" /\ e \in {call[t].err, "set"} /\ rwlock = t
      BY <1>8 DEF loadkey_npm_returned, Holds, OneLoadAtATime, Searching
    <2>2. UNCHANGED <<rwlock, session_hash, sessions, stm_session, key_hash, delivered, aborted>>
      BY <1>8 DEF loadkey_npm_returned, agentTables
    <2>3. CASE key_lookup(call[t].url)
      <3>1. call' = [call EXCEPT ![t].pc = "load_key", ![t].err = e]
        BY <1>8, <2>3 DEF loadkey_npm_returned
      <3> QED BY <2>1, <2>2, <2>3, <3>1 DEF DeliveryInv, ResultTellsDelivery,
                AbortedOnlyAfterRefusal, NpmsCalled, OneLoadAtATime, Searching, TypeOK,
                Call, key_lookup
    <2>4. CASE ~key_lookup(call[t].url)
      <3>a. call' = loadkey_result(t, TRUE, e)
        BY <1>8, <2>4 DEF loadkey_npm_returned
      <3>b. call' = [call EXCEPT ![t].pc = "unlock", ![t].ret = key_lookup(call[t].url),
                                 ![t].err = e]
        BY <3>a DEF loadkey_result
      <3>c. key_lookup(call[t].url) = FALSE
        BY <2>4 DEF key_lookup
      <3>1. call' = [call EXCEPT ![t].pc = "unlock", ![t].ret = FALSE, ![t].err = e]
        BY <3>b, <3>c
      <3> QED BY <2>1, <2>2, <2>4, <3>1 DEF DeliveryInv, ResultTellsDelivery,
                AbortedOnlyAfterRefusal, NpmsCalled, OneLoadAtATime, Searching, TypeOK,
                Call, key_lookup
    <2> QED BY <2>3, <2>4
  <1>9. ASSUME NEW t \in Threads, stm_load_key(t)
        PROVE  DeliveryInv'
    <2>1. /\ Holds(t, "load_key") /\ UNCHANGED <<rwlock, agentTables, aborted>>
          /\ delivered' = [delivered EXCEPT ![call[t].url] = @ + 1]
      BY <1>9 DEF stm_load_key
    <2>2. call' = [call EXCEPT ![t].pc = "unlock", ![t].ret = key_lookup(call[t].url),
                               ![t].err = call[t].err]
      BY <1>9 DEF stm_load_key, loadkey_result
    <2>3. key_lookup(call[t].url) /\ delivered[call[t].url] = 0
      BY <2>1 DEF Holds, DeliveryInv, Searching, TypeOK, Call
    <2>4. call' = [call EXCEPT ![t].pc = "unlock", ![t].ret = TRUE, ![t].err = call[t].err]
      BY <2>2, <2>3 DEF key_lookup
    <2> QED BY <2>1, <2>3, <2>4, <1>k DEF Holds, DeliveryInv, ResultTellsDelivery,
              AbortedOnlyAfterRefusal, NpmsCalled, agentTables, OneLoadAtATime,
              Searching, TypeOK, Call, key_lookup
  <1>10. ASSUME NEW t \in Threads, stm_load_key_refused(t)
        PROVE  DeliveryInv'
    BY <1>10, <1>k DEF stm_load_key_refused, Holds, DeliveryInv, ResultTellsDelivery,
              AbortedOnlyAfterRefusal, NpmsCalled, agentTables, OneLoadAtATime,
              Searching, TypeOK, Call, key_lookup, loadkey_result
  <1>11. ASSUME NEW t \in Threads, double_free(t)
        PROVE  DeliveryInv'
    BY <1>11, <1>k DEF double_free, Holds, DeliveryInv, ResultTellsDelivery,
              AbortedOnlyAfterRefusal, NpmsCalled, agentTables, OneLoadAtATime,
              Searching, TypeOK, Call, key_lookup
  <1>12. ASSUME NEW t \in Threads, NEW label \in Stms, stm_get_challenge(t, label)
        PROVE  DeliveryInv'
    BY <1>12, <1>k DEF stm_get_challenge, Holds, DeliveryInv, ResultTellsDelivery,
              AbortedOnlyAfterRefusal, NpmsCalled, agentTables, OneLoadAtATime,
              Searching, TypeOK, Call, key_lookup
  <1>13. ASSUME NEW t \in Threads, NEW label \in Stms, NEW sid \in SessionIds,
               NEW swk \in Swks, NEW type \in SwkTypes,
               session_create(t, label, sid, swk, type)
        PROVE  DeliveryInv'
    <2>1. key_hash' = key_hash
      BY <1>13, SessionCreateKeepsKeys
    <2>2. /\ call[t].pc = "npm"
          /\ call' = [call EXCEPT ![t].pc = "set_wrapping_key"]
          /\ UNCHANGED <<rwlock, delivered, aborted>>
      BY <1>13 DEF session_create, Holds
    <2> QED BY <2>1, <2>2 DEF DeliveryInv, ResultTellsDelivery, AbortedOnlyAfterRefusal,
              NpmsCalled, OneLoadAtATime, Searching, TypeOK, Call, key_lookup
  <1>14. ASSUME NEW t \in Threads, NEW pc \in Pcs, NEW ok \in BOOLEAN, NEW e \in Errs,
               callback_returned(t, pc, ok, e)
        PROVE  DeliveryInv'
    BY <1>14, <1>k DEF callback_returned, Holds, DeliveryInv, ResultTellsDelivery,
              AbortedOnlyAfterRefusal, NpmsCalled, agentTables, OneLoadAtATime,
              Searching, TypeOK, Call, key_lookup
  <1>15. ASSUME NEW t \in Threads, callback_rejected(t)
        PROVE  DeliveryInv'
    BY <1>15, <1>k DEF callback_rejected, Holds, DeliveryInv, ResultTellsDelivery,
              AbortedOnlyAfterRefusal, NpmsCalled, agentTables, OneLoadAtATime,
              Searching, TypeOK, Call, key_lookup
  <1>16. ASSUME NEW t \in Threads, NEW type \in KeyTypes, NEW sid \in SessionIds,
               key_create(t, type, sid)
        PROVE  DeliveryInv'
    BY <1>16, <1>k DEF key_create, Holds, DeliveryInv, ResultTellsDelivery,
              AbortedOnlyAfterRefusal, NpmsCalled, agentTables, OneLoadAtATime,
              Searching, TypeOK, Call, key_lookup
  <1>17. CASE UNCHANGED vars
    BY <1>17 DEF vars, DeliveryInv, ResultTellsDelivery, AbortedOnlyAfterRefusal, NpmsCalled, key_lookup
  <1> QED BY <1>1, <1>2, <1>3, <1>4, <1>5, <1>6, <1>7, <1>8, <1>9,
             <1>10, <1>11, <1>12, <1>13, <1>14, <1>15, <1>16, <1>17
          DEF Next, Load, Callback, Halted


LEMMA InitDelivery == Init => DeliveryInv
  BY DEF Init, DeliveryInv, ResultTellsDelivery, AbortedOnlyAfterRefusal, Searching,
         key_lookup

LEMMA DeliveryInvariant == Spec => []DeliveryInv
  <1>1. TypeOK /\ OneLoadAtATime /\ DeliveryInv /\ [Next]_vars => DeliveryInv'
    BY NextDelivery
  <1> QED BY InitDelivery, <1>1, Typing, MutualExclusion, PTL DEF Spec

\* No STM is given the key of a url twice.
THEOREM AtMostOneDelivery == Spec => []DeliveredAtMostOnce
  <1>1. DeliveryInv => DeliveredAtMostOnce
    BY DEF DeliveryInv, DeliveredAtMostOnce
  <1> QED BY <1>1, DeliveryInvariant, PTL

\* A fresh load succeeds exactly when an STM accepted its key.
THEOREM ResultsTellDelivery == Spec => []ResultTellsDelivery
  <1>1. DeliveryInv => ResultTellsDelivery
    BY DEF DeliveryInv
  <1> QED BY <1>1, DeliveryInvariant, PTL

\* The process can only die of a freed error after an STM refused a key.
THEOREM AbortsFollowRefusals == Spec => []AbortedOnlyAfterRefusal
  <1>1. DeliveryInv => AbortedOnlyAfterRefusal
    BY DEF DeliveryInv
  <1> QED BY <1>1, DeliveryInvariant, PTL

-----------------------------------------------------------------------------
(* Refinement of KeyLoader. *)

LEMMA InitLoader == Init => Loader!Init
  <1> SUFFICES ASSUME Init PROVE Loader!Init
    OBVIOUS
  <1>1. asked = [t \in Threads |-> NoUrl]
    BY DEF Init, asked
  <1>2. answer = [t \in Threads |-> FALSE]
    BY DEF Init, answer
  <1>3. known = {}
    BY DEF Init, known, key_lookup
  <1>4. delivered = [u \in Urls |-> 0]
    BY DEF Init
  <1> QED BY <1>1, <1>2, <1>3, <1>4 DEF Loader!Init

\* A step that stays inside a load of t.
InsideLoad(t) ==
  /\ call[t].pc \notin {"idle", "returned"}
  /\ call'[t].pc \notin {"idle", "returned"}
  /\ call'[t].url = call[t].url
  /\ \A s \in Threads \ {t} : call'[s] = call[s]

\* Nobody sees such a step.
LEMMA InsideLoadUnseen ==
  ASSUME NEW t \in Threads, InsideLoad(t)
  PROVE  asked' = asked /\ answer' = answer
  <1>1. \A s \in Threads :
          /\ (call'[s].pc \in {"idle", "returned"}) <=> (call[s].pc \in {"idle", "returned"})
          /\ call'[s].pc = "returned" <=> call[s].pc = "returned"
          /\ call'[s].url = call[s].url
          /\ call[s].pc = "returned" => call'[s].ret = call[s].ret
    BY DEF InsideLoad
  <1>2. asked' = asked
    BY <1>1 DEF asked
  <1>3. answer' = answer
    BY <1>1 DEF answer
  <1> QED BY <1>2, <1>3

\* It is a stutter of KeyLoader when it leaves key_hash and delivered alone.
LEMMA InsideLoadStutters ==
  ASSUME NEW t \in Threads, InsideLoad(t), UNCHANGED <<key_hash, delivered>>
  PROVE  UNCHANGED Loader!loaderVars
  <1>1. asked' = asked /\ answer' = answer
    BY InsideLoadUnseen
  <1>2. known' = known
    BY DEF known, key_lookup
  <1> QED BY <1>1, <1>2 DEF Loader!loaderVars

LEMMA NextLoader ==
  TypeOK /\ OneLoadAtATime /\ DeliveryInv /\ [Next]_vars =>
    [Loader!Next]_(Loader!loaderVars)
  <1> SUFFICES ASSUME TypeOK, OneLoadAtATime, DeliveryInv, [Next]_vars
               PROVE  [Loader!Next]_(Loader!loaderVars)
    OBVIOUS
  <1>k. ASSUME UNCHANGED key_hash PROVE known' = known
    BY <1>k DEF known, key_lookup
  <1>1. ASSUME NEW t \in Threads, NEW u \in Urls, NEW e \in Errs, load_malformed(t, u, e)
        PROVE  [Loader!Next]_(Loader!loaderVars)
    <2>1. call' = [call EXCEPT ![t] = [pc |-> "returned", url |-> u, todo |-> {},
                                       ret |-> FALSE, err |-> e]]
      BY <1>1 DEF load_malformed
    <2>2. call[t].pc \in {"idle", "returned"} /\ UNCHANGED <<key_hash, delivered>>
      BY <1>1 DEF load_malformed, agentTables
    <2>3. /\ \A s \in Threads \ {t} : call'[s] = call[s]
          /\ call'[t].pc = "returned" /\ call'[t].ret = FALSE
      BY <2>1 DEF TypeOK
    <2>4. asked[t] = NoUrl /\ asked' = asked
      BY <2>2, <2>3 DEF asked
    <2>5. answer' = [answer EXCEPT ![t] = FALSE]
      BY <2>2, <2>3 DEF answer
    <2>6. Loader!Reject(t)
      BY <2>2, <2>4, <2>5, <1>k DEF Loader!Reject
    <2> QED BY <2>6 DEF Loader!Next
  <1>2. ASSUME NEW t \in Threads, NEW u \in Urls, NEW e \in Errs, load_called(t, u, e)
        PROVE  [Loader!Next]_(Loader!loaderVars)
    <2>1. call' = [call EXCEPT ![t] = [pc |-> "lock", url |-> u, todo |-> Npms,
                                       ret |-> FALSE, err |-> e]]
      BY <1>2 DEF load_called
    <2>2. call[t].pc \in {"idle", "returned"} /\ UNCHANGED <<key_hash, delivered>>
      BY <1>2 DEF load_called, agentTables
    <2>3. /\ \A s \in Threads \ {t} : call'[s] = call[s]
          /\ call'[t].pc = "lock" /\ call'[t].url = u
      BY <2>1 DEF TypeOK
    <2>4. asked[t] = NoUrl /\ asked' = [asked EXCEPT ![t] = u]
      BY <2>2, <2>3 DEF asked
    <2>5. answer' = [answer EXCEPT ![t] = FALSE]
      BY <2>2, <2>3 DEF answer
    <2>6. Loader!Ask(t, u)
      BY <2>2, <2>4, <2>5, <1>k DEF Loader!Ask
    <2> QED BY <2>6 DEF Loader!Next
  <1>3. ASSUME NEW t \in Threads, load_locked(t)
        PROVE  [Loader!Next]_(Loader!loaderVars)
    <2>1. InsideLoad(t)
      BY <1>3 DEF load_locked, InsideLoad, Holds, TypeOK, Call
    <2>2. UNCHANGED <<key_hash, delivered>>
      BY <1>3 DEF load_locked, agentTables
    <2> QED BY <2>1, <2>2, InsideLoadStutters
  <1>4. ASSUME NEW t \in Threads, load_unlocked(t)
        PROVE  [Loader!Next]_(Loader!loaderVars)
    <2>1. call' = [call EXCEPT ![t].pc = "returned"]
      BY <1>4 DEF load_unlocked
    <2>2. call[t].pc = "unlock" /\ UNCHANGED <<key_hash, delivered>>
      BY <1>4 DEF load_unlocked, Holds, agentTables
    <2>3. \A s \in Threads :
            /\ s # t => call'[s] = call[s]
            /\ s = t => call'[s].pc = "returned" /\ call'[s].ret = call[s].ret
      BY <2>1 DEF TypeOK, Call
    <2>4. call[t].url \in Urls /\ call[t].ret \in BOOLEAN
      BY <2>2 DEF TypeOK, Call
    <2>5. asked[t] = call[t].url /\ asked' = [asked EXCEPT ![t] = NoUrl]
      BY <2>2, <2>3 DEF asked
    <2>6. answer' = [answer EXCEPT ![t] = call[t].ret]
      BY <2>2, <2>3 DEF answer
    <2>7. IF call[t].ret THEN key_lookup(call[t].url)
                         ELSE delivered[call[t].url] = 0
      BY <2>2 DEF DeliveryInv, ResultTellsDelivery
    <2>8. IF call[t].ret THEN asked[t] \in known ELSE delivered[asked[t]] = 0
      BY <2>4, <2>5, <2>7 DEF known
    <2>9. asked[t] # NoUrl
      BY <2>4, <2>5
    <2>10. Loader!Answer(t, call[t].ret)
      BY <2>2, <2>5, <2>6, <2>8, <2>9, <1>k DEF Loader!Answer
    <2> QED BY <2>4, <2>10 DEF Loader!Next
  <1>5. ASSUME NEW t \in Threads, load_not_found(t)
        PROVE  [Loader!Next]_(Loader!loaderVars)
    <2>1. InsideLoad(t)
      BY <1>5 DEF load_not_found, InsideLoad, Holds, TypeOK, Call
    <2>2. UNCHANGED <<key_hash, delivered>>
      BY <1>5 DEF load_not_found, agentTables
    <2> QED BY <2>1, <2>2, InsideLoadStutters
  <1>6. ASSUME NEW t \in Threads, NEW n \in Npms, loadkey_skip(t, n)
        PROVE  [Loader!Next]_(Loader!loaderVars)
    <2>1. InsideLoad(t)
      BY <1>6 DEF loadkey_skip, InsideLoad, Holds, TypeOK, Call
    <2>2. UNCHANGED <<key_hash, delivered>>
      BY <1>6 DEF loadkey_skip, agentTables
    <2> QED BY <2>1, <2>2, InsideLoadStutters
  <1>7. ASSUME NEW t \in Threads, NEW n \in Npms, loadkey_npm(t, n)
        PROVE  [Loader!Next]_(Loader!loaderVars)
    <2>1. InsideLoad(t)
      BY <1>7 DEF loadkey_npm, InsideLoad, Holds, TypeOK, Call
    <2>2. UNCHANGED <<key_hash, delivered>>
      BY <1>7 DEF loadkey_npm, agentTables
    <2> QED BY <2>1, <2>2, InsideLoadStutters
  <1>8. ASSUME NEW t \in Threads, NEW e \in Errs, loadkey_npm_returned(t, e)
        PROVE  [Loader!Next]_(Loader!loaderVars)
    <2>1. InsideLoad(t)
      BY <1>8 DEF loadkey_npm_returned, loadkey_result, InsideLoad, Holds, TypeOK, Call
    <2>2. UNCHANGED <<key_hash, delivered>>
      BY <1>8 DEF loadkey_npm_returned, agentTables
    <2> QED BY <2>1, <2>2, InsideLoadStutters
  <1>9. ASSUME NEW t \in Threads, stm_load_key(t)
        PROVE  [Loader!Next]_(Loader!loaderVars)
    <2>1. /\ call[t].pc = "load_key"
          /\ delivered' = [delivered EXCEPT ![call[t].url] = @ + 1]
          /\ UNCHANGED key_hash
      BY <1>9 DEF stm_load_key, Holds, agentTables
    <2>2. InsideLoad(t)
      BY <1>9 DEF stm_load_key, loadkey_result, InsideLoad, Holds, TypeOK, Call
    <2>3. asked' = asked /\ answer' = answer /\ known' = known
      BY <2>1, <2>2, InsideLoadUnseen, <1>k
    <2>4. /\ call[t].url \in Urls
          /\ asked[t] = call[t].url
      BY <2>1 DEF TypeOK, asked
    <2>5. key_lookup(call[t].url) /\ delivered[call[t].url] = 0
      BY <2>1 DEF DeliveryInv, Searching
    <2>6. asked[t] \in known
      BY <2>4, <2>5 DEF known
    <2>7. delivered' = [delivered EXCEPT ![asked[t]] = 1]
      BY <2>1, <2>4, <2>5
    <2>8. Loader!Deliver(t)
      BY <2>3, <2>4, <2>5, <2>6, <2>7 DEF Loader!Deliver
    <2> QED BY <2>8 DEF Loader!Next
  <1>10. ASSUME NEW t \in Threads, stm_load_key_refused(t)
        PROVE  [Loader!Next]_(Loader!loaderVars)
    <2>1. InsideLoad(t)
      BY <1>10 DEF stm_load_key_refused, loadkey_result, InsideLoad, Holds, TypeOK, Call
    <2>2. UNCHANGED <<key_hash, delivered>>
      BY <1>10 DEF stm_load_key_refused, agentTables
    <2> QED BY <2>1, <2>2, InsideLoadStutters
  <1>11. ASSUME NEW t \in Threads, double_free(t)
        PROVE  [Loader!Next]_(Loader!loaderVars)
    <2>1. UNCHANGED <<call, key_hash, delivered>>
      BY <1>11 DEF double_free, agentTables
    <2>2. asked' = asked /\ answer' = answer
      BY <2>1 DEF asked, answer
    <2> QED BY <2>1, <2>2, <1>k DEF Loader!loaderVars
  <1>12. ASSUME NEW t \in Threads, NEW label \in Stms, stm_get_challenge(t, label)
        PROVE  [Loader!Next]_(Loader!loaderVars)
    <2>1. InsideLoad(t)
      BY <1>12 DEF stm_get_challenge, InsideLoad, Holds, TypeOK, Call
    <2>2. UNCHANGED <<key_hash, delivered>>
      BY <1>12 DEF stm_get_challenge, agentTables
    <2> QED BY <2>1, <2>2, InsideLoadStutters
  <1>13. ASSUME NEW t \in Threads, NEW label \in Stms, NEW sid \in SessionIds,
               NEW swk \in Swks, NEW type \in SwkTypes,
               session_create(t, label, sid, swk, type)
        PROVE  [Loader!Next]_(Loader!loaderVars)
    <2>1. key_hash' = key_hash
      BY <1>13, SessionCreateKeepsKeys
    <2>2. /\ call[t].pc = "npm"
          /\ call' = [call EXCEPT ![t].pc = "set_wrapping_key"]
          /\ UNCHANGED delivered
      BY <1>13 DEF session_create, Holds
    <2>3. InsideLoad(t)
      BY <2>2 DEF InsideLoad, TypeOK, Call
    <2> QED BY <2>1, <2>2, <2>3, InsideLoadStutters
  <1>14. ASSUME NEW t \in Threads, NEW pc \in Pcs, NEW ok \in BOOLEAN, NEW e \in Errs,
               callback_returned(t, pc, ok, e)
        PROVE  [Loader!Next]_(Loader!loaderVars)
    <2>1. InsideLoad(t)
      BY <1>14 DEF callback_returned, InsideLoad, Holds, TypeOK, Call
    <2>2. UNCHANGED <<key_hash, delivered>>
      BY <1>14 DEF callback_returned, agentTables
    <2> QED BY <2>1, <2>2, InsideLoadStutters
  <1>15. ASSUME NEW t \in Threads, callback_rejected(t)
        PROVE  [Loader!Next]_(Loader!loaderVars)
    <2>1. InsideLoad(t)
      BY <1>15 DEF callback_rejected, InsideLoad, Holds, TypeOK, Call
    <2>2. UNCHANGED <<key_hash, delivered>>
      BY <1>15 DEF callback_rejected, agentTables
    <2> QED BY <2>1, <2>2, InsideLoadStutters
  <1>16. ASSUME NEW t \in Threads, NEW type \in KeyTypes, NEW sid \in SessionIds,
               key_create(t, type, sid)
        PROVE  [Loader!Next]_(Loader!loaderVars)
    <2>1. /\ call[t].pc = "npm"
          /\ UNCHANGED <<call, delivered>>
      BY <1>16 DEF key_create, Holds
    <2>2. asked' = asked /\ answer' = answer
      BY <2>1 DEF asked, answer
    <2>3. call[t].url \in Urls /\ asked[t] = call[t].url
      BY <2>1 DEF TypeOK, asked
    <2>4. asked[t] # NoUrl
      BY <2>3
    <2>5. known' = known \cup {asked[t]}
      <3>1. CASE key_lookup(call[t].url)
        BY <1>16, <2>3, <3>1 DEF key_create, known, key_lookup
      <3>2. CASE ~key_lookup(call[t].url)
        <4>1. DOMAIN key_hash' = DOMAIN key_hash \cup {Quark(call[t].url)}
          BY <1>16, <3>2 DEF key_create, HashInsert
        <4>2. \A u \in Urls : Quark(u) = Quark(call[t].url) <=> u = call[t].url
          BY DEF Quark
        <4> QED BY <2>3, <4>1, <4>2 DEF known, key_lookup
      <3> QED BY <3>1, <3>2
    <2>6. Loader!Learn(t)
      BY <2>1, <2>2, <2>4, <2>5 DEF Loader!Learn
    <2> QED BY <2>6 DEF Loader!Next
  <1>17. CASE UNCHANGED vars
    <2>1. UNCHANGED <<call, key_hash, delivered>>
      BY <1>17 DEF vars
    <2>2. asked' = asked /\ answer' = answer
      BY <2>1 DEF asked, answer
    <2> QED BY <2>1, <2>2, <1>k DEF Loader!loaderVars
  <1> QED BY <1>1, <1>2, <1>3, <1>4, <1>5, <1>6, <1>7, <1>8, <1>9,
             <1>10, <1>11, <1>12, <1>13, <1>14, <1>15, <1>16, <1>17
          DEF Next, Load, Callback, Halted

\* The agent implements KeyLoader: with its lock, tables, modules and callbacks
\* it asks, learns, delivers and answers as that specification allows.
THEOREM LoaderRefinement == Spec => LoaderSpec
  <1>1. TypeOK /\ OneLoadAtATime /\ DeliveryInv /\ [Next]_vars =>
          [Loader!Next]_(Loader!loaderVars)
    BY NextLoader
  <1> QED BY <1>1, InitLoader, Typing, MutualExclusion, DeliveryInvariant, PTL
          DEF Spec, LoaderSpec, Loader!Spec
=============================================================================
