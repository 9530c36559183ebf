---------------------------- MODULE KmsNpmProofs ----------------------------
(***************************************************************************)
(* Proofs about KmsNpm.  The agent under the KMS NPM is the agent of       *)
(* KeyAgent, so what KeyAgentProofs proves of any NPM holds of this one.   *)
(* On top of that, for any number of threads, STMs, sessions and urls: the *)
(* agent, the token and the KBS agree on sessions and wrapping keys, a     *)
(* load attests at most twice, and a failing load has an error.            *)
(***************************************************************************)
EXTENDS KmsNpm, KeyAgentProofs, SequenceTheorems

USE KmsAssumption

-----------------------------------------------------------------------------
(* The invariant. *)

AgentInv == TypeOK /\ OneLoadAtATime /\ AnnouncedSessionIsCurrent /\ DeliveryInv

ThreadInv(t) ==
  ControlInv(t) /\ ChallengeInv(t) /\ SearchInv(t) /\ QuotesInv(t) /\ ExplainedInv(t)

KmsInv ==
  /\ KmsTypeOK
  /\ AgentInv
  /\ \A t \in Threads : ThreadInv(t)
  /\ AnnouncedSessionsWereOpened
  /\ UnwrapInv

LEMMA AgentInvNext == AgentInv /\ [Next]_vars => AgentInv'
  BY NextType, NextLock, NextSessions, NextDelivery DEF AgentInv

-----------------------------------------------------------------------------
(* Every step is a step of KeyAgent, or leaves its variables alone. *)

LEMMA NpmIsAgentStep ==
  ASSUME NEW t \in Threads, KmsTypeOK, ControlInv(t), Npm(t)
  PROVE  [Next]_vars
  <1>0. /\ call[t].pc \in Pcs /\ call[t].err \in Errs
        /\ kms[t] \in LoadkeyInfo
    BY DEF KmsTypeOK, TypeOK, Call
  <1>1. CASE npm_key_load(t)
    BY <1>1 DEF npm_key_load, Next, Load
  <1>2. CASE tried_out(t) \/ transfer_failed(t) \/ transfer_unusable(t)
    BY <1>2 DEF tried_out, transfer_failed, transfer_unusable, transfer
  <1>3. ASSUME NEW sid \in SessionIds, NEW label \in Labels,
               transfer_challenged(t, sid, label)
        PROVE  [Next]_vars
    BY <1>3 DEF transfer_challenged, transfer
  <1>4. ASSUME NEW sid \in SessionIds, transfer_ok(t, sid)
        PROVE  [Next]_vars
    BY <1>4 DEF transfer_ok, transfer
  <1>5. ASSUME NEW type \in KeyTypes, key_created(t, type)
        PROVE  [Next]_vars
    <2>1. kms[t].sid \in SessionIds /\ key_create(t, type, kms[t].sid)
      BY <1>5 DEF key_created, At, ControlInv
    <2> QED BY <2>1 DEF Next, Callback
  <1>6. CASE key_rejected(t) \/ get_challenge_rejected(t) \/ session_rejected(t)
    BY <1>6 DEF key_rejected, get_challenge_rejected, session_rejected, Next, Callback
  <1>7. CASE npm_returned(t)
    <2>1. PICK e \in Errs : loadkey_npm_returned(t, e)
      BY <1>0, <1>7 DEF npm_returned, Errs
    <2> QED BY <2>1 DEF Next, Load
  <1>8. CASE get_challenge(t)
    <2>1. kms[t].label \in Stms /\ stm_get_challenge(t, kms[t].label)
      BY <1>8 DEF get_challenge, stm_get_challenge
    <2> QED BY <2>1 DEF Next, Callback
  <1>9. ASSUME NEW ok \in BOOLEAN, get_challenge_returned(t, ok) \/ session_returned(t, ok)
        PROVE  [Next]_vars
    <2>1. PICK pc \in Pcs, e \in Errs : callback_returned(t, pc, ok, e)
      BY <1>0, <1>9 DEF get_challenge_returned, session_returned, Errs, Pcs
    <2> QED BY <2>1 DEF Next, Callback
  <1>10. ASSUME NEW reply, quote_posted(t, reply)
         PROVE  [Next]_vars
    BY <1>10 DEF quote_posted
  <1>11. ASSUME NEW swk \in Swks, NEW type \in SwkTypes, session_started(t, swk, type)
         PROVE  [Next]_vars
    <2>1. /\ kms[t].sid \in SessionIds /\ kms[t].label \in Stms
          /\ session_create(t, kms[t].label, kms[t].sid, swk, type)
      BY <1>11 DEF session_started, At, ControlInv
    <2> QED BY <2>1 DEF Next, Callback
  <1> QED BY <1>1, <1>2, <1>3, <1>4, <1>5, <1>6, <1>7, <1>8, <1>9, <1>10, <1>11 DEF Npm

LEMMA KmsIsAgentStep ==
  ASSUME KmsTypeOK, \A t \in Threads : ControlInv(t), [KmsNext]_kmsVars
  PROVE  [Next]_vars
  <1>1. ASSUME NEW t \in Threads, agent_step(t) PROVE [Next]_vars
    BY <1>1 DEF agent_step, Next, Load
  <1>2. ASSUME NEW t \in Threads, kms_called(t) PROVE [Next]_vars
    BY <1>2 DEF kms_called, Next, Load
  <1>3. ASSUME NEW t \in Threads, Npm(t) PROVE [Next]_vars
    BY <1>3, NpmIsAgentStep
  <1>4. ASSUME NEW sid \in SessionIds, kbs_expire(sid) PROVE [Next]_vars
    BY <1>4 DEF kbs_expire
  <1>5. CASE Halted \/ UNCHANGED kmsVars
    BY <1>5 DEF Halted, kmsVars
  <1> QED BY <1>1, <1>2, <1>3, <1>4, <1>5 DEF KmsNext

-----------------------------------------------------------------------------
(* What a step of one thread leaves to the others. *)

\* The NPM's own step for t sets its stack only.
Stack(t, i) == i \in LoadkeyInfo /\ kms' = [kms EXCEPT ![t] = i]

LEMMA EndsType ==
  ASSUME NEW i \in LoadkeyInfo
  PROVE  /\ NewInfo \in LoadkeyInfo /\ NewInfo.pc = "done" /\ NewInfo.quotes = 0
         /\ ends(i) \in LoadkeyInfo /\ ends(i).pc = "done"
         /\ ends(i).quotes = i.quotes /\ ends(i).failed = i.failed
         /\ ends(i).unusable = i.unusable
         /\ fails(i) \in LoadkeyInfo /\ fails(i).pc = "done"
         /\ fails(i).quotes = i.quotes /\ fails(i).failed = TRUE
         /\ fails(i).unusable = i.unusable
  <1>1. NewInfo \in LoadkeyInfo /\ NewInfo.pc = "done" /\ NewInfo.quotes = 0
    BY DEF NewInfo, LoadkeyInfo, KmsPcs
  <1>2. i.failed \in BOOLEAN /\ i.unusable \in BOOLEAN /\ i.quotes \in Nat
    BY DEF LoadkeyInfo
  <1>3. /\ ends(i) \in LoadkeyInfo /\ ends(i).pc = "done"
        /\ ends(i).quotes = i.quotes /\ ends(i).failed = i.failed
        /\ ends(i).unusable = i.unusable
    BY <1>1, <1>2 DEF ends, LoadkeyInfo
  <1>4. /\ fails(i) \in LoadkeyInfo /\ fails(i).pc = "done"
        /\ fails(i).quotes = i.quotes /\ fails(i).failed = TRUE
        /\ fails(i).unusable = i.unusable
    BY <1>3 DEF fails, LoadkeyInfo
  <1> QED BY <1>1, <1>3, <1>4

\* Every step of t in the NPM gives it a stack of the right type.
LEMMA NpmStack ==
  ASSUME NEW t \in Threads, KmsTypeOK, ControlInv(t), Npm(t)
  PROVE  \E i : Stack(t, i)
  <1> DEFINE i == kms[t]
  <1>0. /\ i \in LoadkeyInfo /\ kms[t] = i
        /\ i.tries \in 0..2 /\ i.quotes \in Nat
    BY DEF KmsTypeOK, LoadkeyInfo
  <1>e. ends(i) \in LoadkeyInfo /\ fails(i) \in LoadkeyInfo /\ NewInfo \in LoadkeyInfo
    BY <1>0, EndsType
  <1> HIDE DEF i
  <1> USE DEF Stack
  <1>1. CASE npm_key_load(t)
    <2>1. [i EXCEPT !.pc = "transfer"] \in LoadkeyInfo
      BY <1>0 DEF LoadkeyInfo, KmsPcs
    <2> QED BY <1>0, <1>1, <2>1 DEF npm_key_load
  <1>2. CASE tried_out(t) \/ transfer_failed(t)
    <2>1. fails(i).pc = "done"
      BY <1>0, EndsType
    <2> QED BY <1>0, <1>e, <1>2, <2>1 DEF tried_out, transfer_failed, transfer
  <1>3. CASE transfer_unusable(t)
    <2> DEFINE j == [ends(i) EXCEPT !.unusable = TRUE]
    <2>1. j \in LoadkeyInfo /\ j.pc = "done"
      <3>1. ends(i).pc = "done"
        BY <1>0, EndsType
      <3> QED BY <1>e, <3>1 DEF LoadkeyInfo
    <2>2. transfer(t, j)
      BY <1>0, <1>3 DEF transfer_unusable
    <2> HIDE DEF j
    <2> QED BY <2>1, <2>2 DEF transfer
  <1>4. ASSUME NEW sid \in SessionIds, NEW label \in Labels,
               transfer_challenged(t, sid, label)
        PROVE  \E j : Stack(t, j)
    <2> DEFINE j == [i EXCEPT !.pc = "challenge", !.sid = sid, !.label = label]
    <2>1. j \in LoadkeyInfo /\ j.pc = "challenge" /\ j.tries = i.tries
      BY <1>0 DEF LoadkeyInfo, KmsPcs
    <2>2. transfer(t, j) /\ i.tries <= 1
      BY <1>0, <1>4 DEF transfer_challenged, transfer
    <2> HIDE DEF j
    <2>3. [j EXCEPT !.tries = j.tries + 1] \in LoadkeyInfo
      BY <1>0, <2>1, <2>2 DEF LoadkeyInfo
    <2> QED BY <2>1, <2>2, <2>3 DEF transfer, next_try
  <1>5. ASSUME NEW sid \in SessionIds, transfer_ok(t, sid)
        PROVE  \E j : Stack(t, j)
    <2> DEFINE j == [i EXCEPT !.pc = "create", !.sid = sid]
    <2>1. j \in LoadkeyInfo /\ j.pc = "create" /\ j.tries = i.tries
      BY <1>0 DEF LoadkeyInfo, KmsPcs
    <2>2. transfer(t, j) /\ i.tries <= 1
      BY <1>0, <1>5 DEF transfer_ok, transfer
    <2> HIDE DEF j
    <2>3. [j EXCEPT !.tries = j.tries + 1] \in LoadkeyInfo
      BY <1>0, <2>1, <2>2 DEF LoadkeyInfo
    <2> QED BY <2>1, <2>2, <2>3 DEF transfer, next_try
  <1>6. CASE \/ \E type \in KeyTypes : key_created(t, type)
             \/ key_rejected(t) \/ get_challenge_rejected(t) \/ session_rejected(t)
    BY <1>0, <1>e, <1>6
       DEF key_created, key_rejected, get_challenge_rejected, session_rejected
  <1>7. CASE npm_returned(t)
    <2>1. [NewInfo EXCEPT !.unusable = i.unusable] \in LoadkeyInfo
      BY <1>0, <1>e DEF LoadkeyInfo
    <2> QED BY <1>0, <1>7, <2>1 DEF npm_returned
  <1>8. CASE get_challenge(t) \/ \E swk \in Swks, type \in SwkTypes : session_started(t, swk, type)
    <2>1. kms' = kms
      BY <1>8 DEF get_challenge, session_started, npmVars
    <2>2. kms' = [kms EXCEPT ![t] = i]
      BY <1>0, <2>1 DEF KmsTypeOK
    <2> QED BY <1>0, <2>2
  <1>9. ASSUME NEW ok \in BOOLEAN, get_challenge_returned(t, ok)
        PROVE  \E j : Stack(t, j)
    <2>1. [i EXCEPT !.pc = "quote"] \in LoadkeyInfo
      BY <1>0 DEF LoadkeyInfo, KmsPcs
    <2> QED BY <1>0, <1>e, <1>9, <2>1 DEF get_challenge_returned
  <1>10. ASSUME NEW reply, quote_posted(t, reply)
         PROVE  \E j : Stack(t, j)
    <2> DEFINE j == [i EXCEPT !.quotes = i.quotes + 1]
    <2>1. j \in LoadkeyInfo
      BY <1>0 DEF LoadkeyInfo
    <2>2. kms' = [kms EXCEPT ![t] = IF session_granted(reply)
                                      THEN [j EXCEPT !.pc = "session"] ELSE fails(j)]
      BY <1>0, <1>10 DEF quote_posted
    <2> HIDE DEF j
    <2>3. [j EXCEPT !.pc = "session"] \in LoadkeyInfo /\ fails(j) \in LoadkeyInfo
      BY <2>1, EndsType DEF LoadkeyInfo, KmsPcs
    <2> QED BY <2>2, <2>3
  <1>11. ASSUME NEW ok \in BOOLEAN, session_returned(t, ok)
         PROVE  \E j : Stack(t, j)
    <2>1. [i EXCEPT !.pc = "transfer"] \in LoadkeyInfo
      BY <1>0 DEF LoadkeyInfo, KmsPcs
    <2> QED BY <1>0, <1>e, <1>11, <2>1 DEF session_returned
  <1> QED BY <1>1, <1>2, <1>3, <1>4, <1>5, <1>6, <1>7, <1>8, <1>9, <1>10, <1>11 DEF Npm

\* What the KBS did, it did.
KbsKept ==
  \A sid \in SessionIds :
    /\ kbs[sid] = "challenged" => kbs'[sid] = "challenged"
    /\ kbs[sid] \in {"open", "closed"} => kbs'[sid] \in {"open", "closed"}

\* What ThreadInv(s) depends on: the entries of s and, while it holds the lock,
\* the tables and what the KBS did.
Undisturbed(s) ==
  /\ call'[s] = call[s]
  /\ kms'[s] = kms[s]
  /\ call[s].pc \in Searching \cup {"unlock"} => UNCHANGED agentTables /\ KbsKept

LEMMA UndisturbedThread ==
  ASSUME NEW s \in Threads, ThreadInv(s), Undisturbed(s)
  PROVE  ThreadInv(s)'
  <1>1. CASE call[s].pc \in Searching \cup {"unlock"}
    <2>1. /\ call'[s] = call[s] /\ kms'[s] = kms[s]
          /\ UNCHANGED <<session_hash, sessions, stm_session, key_hash>>
      BY <1>1 DEF Undisturbed, agentTables
    <2>2. KbsKept
      BY <1>1 DEF Undisturbed
    <2>3. ControlInv(s)'
      BY <2>1 DEF ThreadInv, ControlInv
    <2>4. ChallengeInv(s)'
      BY <2>1, <2>2 DEF ThreadInv, ControlInv, ChallengeInv, session_lookup, Opened, KbsKept
    <2>5. SearchInv(s)'
      BY <2>1 DEF ThreadInv, SearchInv, key_lookup, CurrentKey
    <2>6. QuotesInv(s)' /\ ExplainedInv(s)'
      BY <2>1 DEF ThreadInv, QuotesInv, ExplainedInv, key_lookup
    <2> QED BY <2>3, <2>4, <2>5, <2>6 DEF ThreadInv
  <1>2. CASE call[s].pc \notin Searching \cup {"unlock"}
    <2>1. call'[s] = call[s] /\ kms'[s] = kms[s]
      BY DEF Undisturbed
    <2>2. kms[s].pc = "done"
      BY <1>2 DEF ThreadInv, ControlInv, InNpm, Searching
    <2>3. ControlInv(s)' /\ ChallengeInv(s)' /\ SearchInv(s)' /\ QuotesInv(s)'
      BY <1>2, <2>1, <2>2 DEF ThreadInv, ControlInv, ChallengeInv, SearchInv, QuotesInv,
                              InNpm, Searching, Requested
    <2>4. ExplainedInv(s)'
      BY <1>2, <2>1, <2>2 DEF ThreadInv, ExplainedInv, Searching
    <2> QED BY <2>3, <2>4 DEF ThreadInv
  <1> QED BY <1>1, <1>2

\* Only the thread that holds the lock moves the tables or has the KBS do
\* something.
LEMMA OthersUndisturbed ==
  ASSUME NEW t \in Threads, NEW s \in Threads, s # t, KmsTypeOK, OneLoadAtATime,
         ControlInv(t), agent_step(t) \/ kms_called(t) \/ Npm(t)
  PROVE  Undisturbed(s)
  <1>0. /\ call[s].pc \in Searching \cup {"unlock"} => call[t].pc \notin Searching
        /\ kms \in [Threads -> LoadkeyInfo] /\ call \in [Threads -> Call]
        /\ "npm" \in Searching
    BY DEF OneLoadAtATime, Searching, KmsTypeOK, TypeOK
  <1>1. CASE agent_step(t)
    <2>1. /\ call'[s] = call[s] /\ UNCHANGED <<agentTables, kms, kbs>>
      BY <1>0, <1>1 DEF agent_step, npmVars, load_locked, load_unlocked, load_not_found,
         loadkey_skip, stm_load_key, stm_load_key_refused, double_free, loadkey_result
    <2> QED BY <2>1 DEF Undisturbed, KbsKept
  <1>2. CASE kms_called(t)
    <2>1. call'[s] = call[s] /\ kms'[s] = kms[s] /\ UNCHANGED <<agentTables, kbs>>
      BY <1>0, <1>2 DEF kms_called, load_malformed, load_called
    <2> QED BY <2>1 DEF Undisturbed, KbsKept
  <1>3. CASE Npm(t)
    <2>1. kms'[s] = kms[s]
      BY <1>0, <1>3, NpmStack DEF Stack
    <2>2. CASE \/ npm_key_load(t) \/ npm_returned(t) \/ key_rejected(t)
               \/ get_challenge(t) \/ get_challenge_rejected(t) \/ session_rejected(t)
               \/ \E ok \in BOOLEAN : get_challenge_returned(t, ok) \/ session_returned(t, ok)
      <3>1. call'[s] = call[s] /\ UNCHANGED <<agentTables, kbs>>
        BY <1>0, <2>2 DEF npm_key_load, npm_returned, key_rejected, get_challenge,
           get_challenge_rejected, session_rejected, get_challenge_returned,
           session_returned, loadkey_npm, loadkey_npm_returned, loadkey_result,
           callback_rejected, callback_returned, stm_get_challenge, npmVars
      <3> QED BY <2>1, <3>1 DEF Undisturbed, KbsKept
    <2>3. CASE ~(\/ npm_key_load(t) \/ npm_returned(t) \/ key_rejected(t)
                 \/ get_challenge(t) \/ get_challenge_rejected(t) \/ session_rejected(t)
                 \/ \E ok \in BOOLEAN : get_challenge_returned(t, ok) \/ session_returned(t, ok))
      <3>1. call[t].pc = "npm"
        BY <1>3, <2>3 DEF Npm, tried_out, transfer_failed, transfer_unusable,
           transfer_challenged, transfer_ok, transfer, key_created, quote_posted,
           session_started, session_create, At, Holds
      <3>2. call'[s] = call[s]
        <4>1. CASE \E swk \in Swks, type \in SwkTypes : session_started(t, swk, type)
          BY <1>0, <4>1 DEF session_started, session_create
        <4>2. CASE \E type \in KeyTypes : key_created(t, type)
          BY <4>2 DEF key_created, key_create
        <4>3. CASE \/ tried_out(t) \/ transfer_failed(t) \/ transfer_unusable(t)
                   \/ \E sid \in SessionIds, label \in Labels : transfer_challenged(t, sid, label)
                   \/ \E sid \in SessionIds : transfer_ok(t, sid)
                   \/ \E reply \in {"created", "refused", "lost"} : quote_posted(t, reply)
          BY <4>3 DEF tried_out, transfer_failed, transfer_unusable, transfer_challenged,
             transfer_ok, transfer, quote_posted, vars
        <4> QED BY <1>3, <2>3, <4>1, <4>2, <4>3 DEF Npm
      <3> QED BY <1>0, <2>1, <3>1, <3>2 DEF Undisturbed
    <2> QED BY <2>2, <2>3
  <1> QED BY <1>1, <1>2, <1>3

-----------------------------------------------------------------------------
(* What a step leaves to its own thread. *)

\* Outside of the NPM, the stack of t is empty and little is left to show.
LEMMA OutsideNpm ==
  ASSUME NEW t \in Threads, kms'[t].pc = "done", kms'[t].quotes = 0,
         call'[t].pc \notin InNpm, SearchInv(t)', ExplainedInv(t)'
  PROVE  ThreadInv(t)'
  BY DEF ThreadInv, ControlInv, ChallengeInv, QuotesInv, InNpm

LEMMA AgentStepThread ==
  ASSUME NEW t \in Threads, KmsTypeOK, AgentInv, ThreadInv(t),
         agent_step(t) \/ kms_called(t)
  PROVE  ThreadInv(t)'
  <1> DEFINE c == call[t]
  <1>0. /\ call \in [Threads -> Call] /\ c \in Call /\ kms \in [Threads -> LoadkeyInfo]
        /\ c.todo \subseteq {Kms}
    BY DEF KmsTypeOK, TypeOK, Call
  <1>q. call[t].pc \notin InNpm => kms[t].pc = "done" /\ kms[t].quotes = 0
    BY DEF ThreadInv, ControlInv, QuotesInv
  <1>s. SearchInv(t) /\ ExplainedInv(t) /\ DeliveryInv
    BY DEF ThreadInv, AgentInv
  <1>1. ASSUME NEW u \in Urls, NEW e \in Errs, load_malformed(t, u, e), kms_called(t)
        PROVE  ThreadInv(t)'
    <2>1. /\ call'[t].pc = "returned" /\ call'[t].url = u /\ u \in Malformed
          /\ kms'[t].pc = "done" /\ kms'[t].quotes = 0
      BY <1>0, <1>1 DEF load_malformed, kms_called, NewInfo
    <2>2. SearchInv(t)' /\ ExplainedInv(t)'
      BY <2>1 DEF SearchInv, ExplainedInv, Requested, Searching
    <2> QED BY <2>1, <2>2, OutsideNpm DEF InNpm
  <1>2. ASSUME NEW u \in Urls, NEW e \in Errs, load_called(t, u, e), kms_called(t)
        PROVE  ThreadInv(t)'
    <2>1. call'[t].pc = "lock" /\ kms'[t].pc = "done" /\ kms'[t].quotes = 0
      BY <1>0, <1>2 DEF load_called, kms_called, NewInfo
    <2>2. SearchInv(t)' /\ ExplainedInv(t)'
      BY <2>1 DEF SearchInv, ExplainedInv, Requested, Searching
    <2> QED BY <2>1, <2>2, OutsideNpm DEF InNpm
  <1>3. CASE load_locked(t) /\ UNCHANGED npmVars
    <2>1. /\ c.pc = "lock" /\ UNCHANGED <<key_hash, kms>>
          /\ call'[t].url = c.url
          /\ \/ call'[t].pc = "unlock" /\ call'[t].ret
             \/ call'[t].pc = "find" /\ ~key_lookup(c.url)
      BY <1>0, <1>3 DEF load_locked, Holds, npmVars, agentTables, Call
    <2>d. kms'[t].pc = "done" /\ kms'[t].quotes = 0
      BY <1>q, <2>1 DEF InNpm
    <2>2. SearchInv(t)'
      BY <2>1, <2>d DEF SearchInv, Requested, Searching, key_lookup
    <2>4. ExplainedInv(t)' /\ call'[t].pc \notin InNpm
      BY <2>1 DEF ExplainedInv, InNpm
    <2> QED BY <2>2, <2>d, <2>4, OutsideNpm
  <1>4. CASE load_unlocked(t) /\ UNCHANGED npmVars
    <2>1. /\ c.pc = "unlock" /\ UNCHANGED kms
          /\ call'[t].pc = "returned" /\ call'[t].ret = c.ret /\ call'[t].err = c.err
      BY <1>0, <1>4 DEF load_unlocked, Holds, npmVars, Call
    <2>d. kms'[t].pc = "done" /\ kms'[t].quotes = 0
      BY <1>q, <2>1 DEF InNpm
    <2>2. SearchInv(t)' /\ ExplainedInv(t)' /\ call'[t].pc \notin InNpm
      BY <1>s, <2>1, <2>d DEF SearchInv, ExplainedInv, Requested, Searching, InNpm
    <2> QED BY <2>2, <2>d, OutsideNpm
  <1>5. CASE load_not_found(t) /\ UNCHANGED npmVars
    <2>1. /\ c.pc = "find" /\ UNCHANGED kms
          /\ call'[t].pc = "unlock" /\ call'[t].err = "unsupported"
      BY <1>0, <1>5 DEF load_not_found, Holds, npmVars, Call
    <2>d. kms'[t].pc = "done" /\ kms'[t].quotes = 0
      BY <1>q, <2>1 DEF InNpm
    <2>2. SearchInv(t)' /\ ExplainedInv(t)' /\ call'[t].pc \notin InNpm
      BY <2>1, <2>d DEF SearchInv, ExplainedInv, Requested, Searching, InNpm
    <2> QED BY <2>2, <2>d, OutsideNpm
  <1>6. CASE loadkey_skip(t, Kms) /\ UNCHANGED npmVars
    <2>1. /\ c.pc = "find" /\ UNCHANGED <<kms, key_hash>>
          /\ call'[t].pc = "find" /\ Kms \notin call'[t].todo
      BY <1>0, <1>6 DEF loadkey_skip, Holds, npmVars, agentTables, Call
    <2>d. kms'[t].pc = "done" /\ kms'[t].quotes = 0
      BY <1>q, <2>1 DEF InNpm
    <2>2. SearchInv(t)' /\ ExplainedInv(t)' /\ call'[t].pc \notin InNpm
      BY <2>1, <2>d DEF SearchInv, ExplainedInv, Requested, Searching, InNpm
    <2> QED BY <2>2, <2>d, OutsideNpm
  <1>7. CASE stm_load_key(t) /\ UNCHANGED npmVars
    <2>1. /\ c.pc = "load_key" /\ UNCHANGED kms
          /\ call'[t].pc = "unlock" /\ call'[t].ret = key_lookup(c.url)
      BY <1>0, <1>7 DEF stm_load_key, loadkey_result, Holds, npmVars, Call
    <2>d. kms'[t].pc = "done" /\ kms'[t].quotes = 0
      BY <1>q, <2>1 DEF InNpm
    <2>2. key_lookup(c.url)
      BY <1>s, <2>1 DEF DeliveryInv
    <2>3. SearchInv(t)' /\ ExplainedInv(t)' /\ call'[t].pc \notin InNpm
      BY <2>1, <2>d, <2>2 DEF SearchInv, ExplainedInv, Requested, Searching, InNpm
    <2> QED BY <2>3, <2>d, OutsideNpm
  <1>8. CASE stm_load_key_refused(t) /\ UNCHANGED npmVars
    <2>1. /\ c.pc = "load_key" /\ UNCHANGED kms
          /\ call'[t].pc = "find" /\ call'[t].todo = c.todo
      BY <1>0, <1>8 DEF stm_load_key_refused, loadkey_result, Holds, npmVars, Call
    <2>d. kms'[t].pc = "done" /\ kms'[t].quotes = 0
      BY <1>q, <2>1 DEF InNpm
    <2>2. Kms \notin c.todo
      BY <1>s, <2>1, <2>d DEF SearchInv, Requested, Searching
    <2>3. SearchInv(t)' /\ ExplainedInv(t)' /\ call'[t].pc \notin InNpm
      BY <2>1, <2>d, <2>2 DEF SearchInv, ExplainedInv, Requested, Searching, InNpm
    <2> QED BY <2>3, <2>d, OutsideNpm
  <1>9. CASE double_free(t) /\ UNCHANGED npmVars
    <2>1. Undisturbed(t)
      BY <1>9 DEF double_free, npmVars, Undisturbed, KbsKept
    <2> QED BY <2>1, UndisturbedThread
  <1> QED BY <1>1, <1>2, <1>3, <1>4, <1>5, <1>6, <1>7, <1>8, <1>9 DEF agent_step, kms_called

\* A step of the NPM that leaves the agent as it is.
LEMMA NpmStepThread ==
  ASSUME NEW t \in Threads, KmsInv, Npm(t)
  PROVE  ThreadInv(t)'
  <1> DEFINE c == call[t]
             i == kms[t]
  <1>0. /\ call \in [Threads -> Call] /\ c \in Call /\ kms \in [Threads -> LoadkeyInfo]
        /\ i \in LoadkeyInfo /\ i.tries \in 0..2 /\ i.quotes \in Nat
        /\ kbs \in [SessionIds -> KbsStates]
        /\ TypeOK /\ AnnouncedSessionIsCurrent
    BY DEF KmsInv, KmsTypeOK, AgentInv, TypeOK, Call, LoadkeyInfo
  <1>t. ThreadInv(t)
    BY DEF KmsInv
  <1>e. /\ ends(i).pc = "done" /\ ends(i).quotes = i.quotes
        /\ ends(i).failed = i.failed /\ ends(i).unusable = i.unusable
        /\ fails(i).pc = "done" /\ fails(i).quotes = i.quotes /\ fails(i).failed = TRUE
        /\ ends(i) \in LoadkeyInfo
    BY <1>0, EndsType
  <1>c. /\ i.pc # "done" => c.pc \in InNpm /\ ~key_lookup(c.url) /\ i.quotes <= i.tries
        /\ c.pc \in InNpm => Kms \notin c.todo
        /\ i.pc \in {"challenge", "quote", "create"} => i.quotes + 1 <= i.tries
        /\ c.pc = "npm" /\ key_lookup(c.url) => CurrentKey(c.url)
        /\ i.quotes <= 2
    BY <1>0, <1>t DEF ThreadInv, ControlInv, SearchInv, QuotesInv, InNpm, Requested, Searching,
                      LoadkeyInfo, KmsPcs
  <1>1. CASE npm_key_load(t)
    <2>1. /\ c.pc = "find" /\ Kms \in c.todo /\ UNCHANGED key_hash
          /\ call'[t].pc = "npm" /\ call'[t].url = c.url /\ Kms \notin call'[t].todo
          /\ kms'[t].pc = "transfer" /\ kms'[t].quotes = i.quotes /\ kms'[t].tries = i.tries
      BY <1>0, <1>1 DEF npm_key_load, loadkey_npm, Holds, agentTables, Call, LoadkeyInfo
    <2>2. ~key_lookup(c.url) /\ i.quotes = 0
      BY <1>t, <2>1 DEF ThreadInv, SearchInv, QuotesInv, InNpm
    <2>3. ControlInv(t)' /\ ChallengeInv(t)' /\ QuotesInv(t)'
      BY <1>0, <2>1, <2>2 DEF ControlInv, ChallengeInv, QuotesInv, InNpm
    <2>4. SearchInv(t)' /\ ExplainedInv(t)'
      BY <2>1, <2>2 DEF SearchInv, ExplainedInv, key_lookup
    <2> QED BY <2>3, <2>4 DEF ThreadInv
  <1>2. ASSUME UNCHANGED vars, c.pc = "npm", kms'[t].pc = "done", kms'[t].quotes <= 2,
               kms'[t].failed \/ kms'[t].unusable
        PROVE  ThreadInv(t)'
    <2>1. UNCHANGED <<call, key_hash, stm_session, sessions>>
      BY <1>2 DEF vars
    <2>2. ControlInv(t)' /\ ChallengeInv(t)' /\ QuotesInv(t)'
      BY <1>2, <2>1 DEF ControlInv, ChallengeInv, QuotesInv, InNpm
    <2>3. SearchInv(t)' /\ ExplainedInv(t)'
      BY <1>2, <1>c, <2>1 DEF SearchInv, ExplainedInv, key_lookup, CurrentKey, InNpm
    <2> QED BY <2>2, <2>3 DEF ThreadInv
  <1>3. CASE tried_out(t) \/ transfer_failed(t)
    <2>1. kms'[t] = fails(i) /\ UNCHANGED vars /\ c.pc = "npm"
      BY <1>0, <1>3, <1>e DEF tried_out, transfer_failed, transfer, At, Holds
    <2> QED BY <1>2, <1>c, <1>e, <2>1
  <1>4. CASE transfer_unusable(t)
    <2> DEFINE j == [ends(i) EXCEPT !.unusable = TRUE]
    <2>1. j.pc = "done" /\ j.quotes = i.quotes /\ j.unusable
      BY <1>e DEF LoadkeyInfo
    <2>2. transfer(t, j)
      BY <1>4 DEF transfer_unusable
    <2> HIDE DEF j
    <2>3. kms'[t] = j /\ UNCHANGED vars /\ c.pc = "npm"
      BY <1>0, <2>1, <2>2 DEF transfer, At, Holds
    <2> QED BY <1>2, <1>c, <2>1, <2>3
  <1>5. ASSUME NEW sid \in SessionIds, NEW label \in Labels,
               transfer_challenged(t, sid, label)
        PROVE  ThreadInv(t)'
    <2> DEFINE j == [i EXCEPT !.pc = "challenge", !.sid = sid, !.label = label]
    <2>1. /\ j.pc = "challenge" /\ j.sid = sid
          /\ j.quotes = i.quotes /\ j.tries = i.tries /\ j \in LoadkeyInfo
      BY <1>0 DEF LoadkeyInfo, KmsPcs
    <2>2. transfer(t, j) /\ kbs' = [kbs EXCEPT ![sid] = "challenged"]
      BY <1>5 DEF transfer_challenged
    <2> HIDE DEF j
    <2>3. /\ kms'[t] = [j EXCEPT !.tries = j.tries + 1] /\ UNCHANGED vars
          /\ c.pc = "npm" /\ i.pc = "transfer"
      BY <1>0, <2>1, <2>2 DEF transfer, next_try, At, Holds
    <2>4. /\ kms'[t].pc = "challenge" /\ kms'[t].sid = sid
          /\ kms'[t].quotes = i.quotes /\ kms'[t].tries = i.tries + 1
          /\ kbs'[sid] = "challenged"
          /\ UNCHANGED <<call, key_hash, stm_session, sessions>>
      BY <1>0, <2>1, <2>2, <2>3 DEF LoadkeyInfo, vars
    <2>5. ControlInv(t)' /\ ChallengeInv(t)' /\ QuotesInv(t)'
      BY <1>0, <1>c, <2>3, <2>4 DEF ControlInv, ChallengeInv, QuotesInv, InNpm
    <2>6. SearchInv(t)' /\ ExplainedInv(t)'
      BY <1>c, <2>3, <2>4 DEF SearchInv, ExplainedInv, key_lookup, CurrentKey, InNpm
    <2> QED BY <2>5, <2>6 DEF ThreadInv
  <1>6. ASSUME NEW sid \in SessionIds, transfer_ok(t, sid)
        PROVE  ThreadInv(t)'
    <2> DEFINE j == [i EXCEPT !.pc = "create", !.sid = sid]
    <2>1. /\ j.pc = "create" /\ j.sid = sid
          /\ j.quotes = i.quotes /\ j.tries = i.tries /\ j \in LoadkeyInfo
      BY <1>0 DEF LoadkeyInfo, KmsPcs
    <2>2. transfer(t, j)
      BY <1>6 DEF transfer_ok
    <2> HIDE DEF j
    <2>3. /\ kms'[t] = [j EXCEPT !.tries = j.tries + 1] /\ UNCHANGED vars
          /\ c.pc = "npm" /\ i.pc = "transfer"
      BY <1>0, <2>1, <2>2 DEF transfer, next_try, At, Holds
    <2>4. /\ kms'[t].pc = "create" /\ kms'[t].sid = sid
          /\ kms'[t].quotes = i.quotes /\ kms'[t].tries = i.tries + 1
          /\ UNCHANGED <<call, key_hash, stm_session, sessions>>
      BY <1>0, <2>1, <2>2, <2>3 DEF LoadkeyInfo, vars
    <2>5. ControlInv(t)' /\ ChallengeInv(t)' /\ QuotesInv(t)'
      BY <1>0, <1>c, <2>3, <2>4 DEF ControlInv, ChallengeInv, QuotesInv, InNpm
    <2>6. SearchInv(t)' /\ ExplainedInv(t)'
      BY <1>c, <2>3, <2>4 DEF SearchInv, ExplainedInv, key_lookup, CurrentKey, InNpm
    <2> QED BY <2>5, <2>6 DEF ThreadInv
  <1>7. ASSUME NEW type \in KeyTypes, key_created(t, type)
        PROVE  ThreadInv(t)'
    <2> DEFINE u == c.url
               k == [type |-> type, session |-> session_hash[i.sid]]
    <2>1. /\ i.pc = "create" /\ c.pc = "npm" /\ kms'[t] = ends(i)
          /\ UNCHANGED <<call, stm_session, sessions>>
          /\ key_create(t, type, i.sid)
      BY <1>0, <1>7 DEF key_created, key_create, At, Holds
    <2>2. ~key_lookup(u) /\ session_lookup(i.sid)
      BY <1>c, <2>1 DEF key_create
    <2>3. key_hash' = HashInsert(key_hash, Quark(u), k)
      BY <2>1, <2>2 DEF key_create
    <2>4. key_hash'[Quark(u)] = k /\ Quark(u) \in DOMAIN key_hash'
      BY <2>3 DEF HashInsert
    <2>5. key_hash'[Quark(u)].session = session_hash[i.sid]
      BY <2>4
    <2>6. key_lookup(u)' /\ CurrentKey(u)'
      <3>1. stm_session[sessions[session_hash[i.sid]].name] = session_hash[i.sid]
        BY <1>0, <2>2 DEF AnnouncedSessionIsCurrent, session_lookup
      <3> QED BY <2>1, <2>4, <2>5, <3>1 DEF key_lookup, CurrentKey
    <2>7. ControlInv(t)' /\ ChallengeInv(t)' /\ QuotesInv(t)'
      BY <1>c, <1>e, <2>1 DEF ControlInv, ChallengeInv, QuotesInv, InNpm
    <2>8. SearchInv(t)' /\ ExplainedInv(t)'
      BY <1>c, <1>e, <2>1, <2>6 DEF SearchInv, ExplainedInv, InNpm
    <2> QED BY <2>7, <2>8 DEF ThreadInv
  <1>8. CASE key_rejected(t) \/ get_challenge_rejected(t) \/ session_rejected(t)
    <2>1. /\ i.pc # "done" /\ c.pc = "npm" /\ kms'[t] = ends(i) /\ UNCHANGED key_hash
          /\ call'[t].pc = "npm" /\ call'[t].err = "set" /\ call'[t].url = c.url
          /\ call'[t].todo = c.todo
      BY <1>0, <1>8 DEF key_rejected, get_challenge_rejected, session_rejected,
                        callback_rejected, At, Holds, agentTables, Call
    <2>2. ControlInv(t)' /\ ChallengeInv(t)' /\ QuotesInv(t)'
      BY <1>c, <1>e, <2>1 DEF ControlInv, ChallengeInv, QuotesInv, InNpm
    <2>3. SearchInv(t)' /\ ExplainedInv(t)'
      BY <1>c, <1>e, <2>1 DEF SearchInv, ExplainedInv, key_lookup, InNpm
    <2> QED BY <2>2, <2>3 DEF ThreadInv
  <1>9. CASE npm_returned(t)
    <2> DEFINE e == IF i.failed THEN "set" ELSE c.err
               j == [NewInfo EXCEPT !.unusable = i.unusable]
    <2>1. /\ i.pc = "done" /\ c.pc = "npm" /\ kms'[t] = j
          /\ loadkey_npm_returned(t, e)
      BY <1>0, <1>9 DEF npm_returned, At, Holds
    <2>2. j.pc = "done" /\ j.quotes = 0 /\ j.unusable = i.unusable
      BY <1>0, EndsType DEF LoadkeyInfo
    <2> HIDE DEF j
    <2>3. /\ UNCHANGED <<key_hash, stm_session, sessions>>
          /\ call'[t].url = c.url /\ call'[t].todo = c.todo
      BY <1>0, <2>1 DEF loadkey_npm_returned, loadkey_result, agentTables, Call
    <2>4. CASE key_lookup(c.url)
      <3>1. call'[t].pc = "load_key"
        BY <1>0, <2>1, <2>4 DEF loadkey_npm_returned, Call
      <3>2. SearchInv(t)'
        BY <1>c, <2>1, <2>2, <2>3, <2>4, <3>1
           DEF SearchInv, key_lookup, CurrentKey, Requested, InNpm
      <3>3. ExplainedInv(t)' /\ call'[t].pc \notin InNpm
        BY <3>1 DEF ExplainedInv, InNpm
      <3> QED BY <2>1, <2>2, <3>2, <3>3, OutsideNpm
    <2>5. CASE ~key_lookup(c.url)
      <3>1. call'[t].pc = "unlock" /\ call'[t].err = e
        BY <1>0, <2>1, <2>5 DEF loadkey_npm_returned, loadkey_result, Call
      <3>2. i.unusable \/ c.err # "none" \/ i.failed
        BY <1>t, <2>1, <2>5 DEF ThreadInv, ExplainedInv
      <3>3. ExplainedInv(t)'
        BY <2>1, <2>2, <3>1, <3>2 DEF ExplainedInv
      <3>4. SearchInv(t)' /\ call'[t].pc \notin InNpm
        BY <2>1, <2>2, <3>1 DEF SearchInv, Requested, Searching, InNpm
      <3> QED BY <2>1, <2>2, <3>3, <3>4, OutsideNpm
    <2> QED BY <2>4, <2>5
  <1>10. CASE get_challenge(t)
    <2>1. /\ i.pc = "challenge" /\ i.label \in Stms
          /\ kms'[t] = i /\ UNCHANGED <<key_hash, kbs>>
          /\ call'[t].pc = "get_challenge" /\ call'[t].url = c.url /\ call'[t].todo = c.todo
      BY <1>0, <1>10 DEF get_challenge, stm_get_challenge, At, Holds, agentTables, npmVars, Call
    <2>2. i.sid \in SessionIds /\ kbs[i.sid] = "challenged"
      BY <1>t, <2>1 DEF ThreadInv, ControlInv, ChallengeInv
    <2>3. ControlInv(t)' /\ ChallengeInv(t)' /\ QuotesInv(t)'
      BY <1>c, <2>1, <2>2 DEF ControlInv, ChallengeInv, QuotesInv, InNpm
    <2>4. SearchInv(t)' /\ ExplainedInv(t)'
      BY <1>c, <2>1 DEF SearchInv, ExplainedInv, key_lookup, InNpm
    <2> QED BY <2>3, <2>4 DEF ThreadInv
  <1>11. ASSUME NEW ok \in BOOLEAN, get_challenge_returned(t, ok)
         PROVE  ThreadInv(t)'
    <2>1. /\ c.pc = "get_challenge" /\ UNCHANGED <<key_hash, kbs, stm_session, sessions>>
          /\ call'[t].pc = "npm" /\ call'[t].url = c.url /\ call'[t].todo = c.todo
          /\ ~ok => call'[t].err = "set"
      BY <1>0, <1>11 DEF get_challenge_returned, callback_returned, Holds, agentTables, Call
    <2>2. i.pc = "challenge" /\ i.label \in Stms
      BY <1>t, <2>1 DEF ThreadInv, ControlInv
    <2>3. i.sid \in SessionIds /\ kbs[i.sid] = "challenged"
      BY <1>t, <2>2 DEF ThreadInv, ControlInv, ChallengeInv
    <2>4. CASE ok
      <3>1. /\ kms'[t].pc = "quote" /\ kms'[t].sid = i.sid /\ kms'[t].label = i.label
            /\ kms'[t].tries = i.tries /\ kms'[t].quotes = i.quotes
        BY <1>0, <1>11, <2>4 DEF get_challenge_returned, LoadkeyInfo
      <3>2. ControlInv(t)' /\ ChallengeInv(t)' /\ QuotesInv(t)'
        BY <1>c, <2>1, <2>2, <2>3, <3>1 DEF ControlInv, ChallengeInv, QuotesInv, InNpm
      <3>3. SearchInv(t)' /\ ExplainedInv(t)'
        BY <1>c, <2>1, <2>2, <3>1 DEF SearchInv, ExplainedInv, key_lookup, InNpm
      <3> QED BY <3>2, <3>3 DEF ThreadInv
    <2>5. CASE ~ok
      <3>1. kms'[t] = ends(i)
        BY <1>0, <1>11, <2>5 DEF get_challenge_returned
      <3>2. ControlInv(t)' /\ ChallengeInv(t)' /\ QuotesInv(t)'
        BY <1>c, <1>e, <2>1, <3>1 DEF ControlInv, ChallengeInv, QuotesInv, InNpm
      <3>3. SearchInv(t)' /\ ExplainedInv(t)'
        BY <1>c, <1>e, <2>1, <2>2, <2>5, <3>1 DEF SearchInv, ExplainedInv, key_lookup, InNpm
      <3> QED BY <3>2, <3>3 DEF ThreadInv
    <2> QED BY <2>4, <2>5
  <1>12. ASSUME NEW reply \in {"created", "refused", "lost"}, quote_posted(t, reply)
         PROVE  ThreadInv(t)'
    <2> DEFINE j == [i EXCEPT !.quotes = i.quotes + 1]
    <2>1. /\ i.pc = "quote" /\ c.pc = "npm" /\ UNCHANGED vars
          /\ kms'[t] = IF reply = "created" THEN [j EXCEPT !.pc = "session"] ELSE fails(j)
      BY <1>0, <1>12 DEF quote_posted, session_granted, At, Holds
    <2>2. /\ j \in LoadkeyInfo /\ j.quotes = i.quotes + 1 /\ j.tries = i.tries
          /\ j.sid = i.sid /\ j.label = i.label
      BY <1>0 DEF LoadkeyInfo
    <2> HIDE DEF j
    <2>3. UNCHANGED <<call, key_hash, session_hash, stm_session, sessions>>
      BY <2>1 DEF vars
    <2>4. /\ i.sid \in SessionIds /\ i.label \in Stms
          /\ kbs[i.sid] = "challenged" /\ i.quotes + 1 <= i.tries
      BY <1>t, <2>1 DEF ThreadInv, ControlInv, ChallengeInv, QuotesInv
    <2>5. ~session_lookup(i.sid)
      BY <2>4 DEF KmsInv, AnnouncedSessionsWereOpened, Opened, session_lookup
    <2>6. CASE reply = "created"
      <3>1. /\ kms'[t].pc = "session" /\ kms'[t].sid = i.sid /\ kms'[t].label = i.label
            /\ kms'[t].tries = i.tries /\ kms'[t].quotes = i.quotes + 1
        BY <2>1, <2>2, <2>6 DEF LoadkeyInfo
      <3>2. kbs'[i.sid] = "open"
        BY <1>0, <1>12, <2>4, <2>6 DEF quote_posted
      <3>3. ControlInv(t)' /\ ChallengeInv(t)' /\ QuotesInv(t)'
        BY <1>0, <2>1, <2>3, <2>4, <2>5, <3>1, <3>2
           DEF ControlInv, ChallengeInv, QuotesInv, InNpm, Opened, session_lookup
      <3>4. SearchInv(t)' /\ ExplainedInv(t)'
        BY <1>c, <2>1, <2>3, <3>1 DEF SearchInv, ExplainedInv, key_lookup, InNpm
      <3> QED BY <3>3, <3>4 DEF ThreadInv
    <2>7. CASE reply # "created"
      <3>1. /\ kms'[t].pc = "done" /\ kms'[t].failed = TRUE
            /\ kms'[t].quotes = i.quotes + 1
        BY <2>1, <2>2, <2>7, EndsType, ZenonT(60)
      <3>2. kms'[t].quotes <= 2
        BY <1>0, <2>4, <3>1
      <3> QED BY <1>2, <2>1, <3>1, <3>2
    <2> QED BY <2>6, <2>7
  <1>13. ASSUME NEW swk \in Swks, NEW type \in SwkTypes, session_started(t, swk, type)
         PROVE  ThreadInv(t)'
    <2>1. /\ i.pc = "session" /\ c.pc = "npm" /\ kms'[t] = i /\ UNCHANGED kbs
          /\ session_create(t, i.label, i.sid, swk, type)
          /\ call'[t].pc = "set_wrapping_key" /\ call'[t].url = c.url
          /\ call'[t].todo = c.todo
      BY <1>0, <1>13 DEF session_started, session_create, At, Holds, npmVars, Call
    <2>2. i.label \in Stms /\ i.sid \in SessionIds /\ Opened(i.sid) /\ ~session_lookup(i.sid)
      BY <1>t, <2>1 DEF ThreadInv, ControlInv, ChallengeInv
    <2>3. key_hash' = key_hash
      BY <1>0, <2>1, SessionCreateKeepsKeys
    <2>4. session_lookup(i.sid)' /\ sessions'[session_hash'[i.sid]].name = i.label
      <3>1. PICK obj \in 1..Len(sessions') :
              /\ sessions'[obj].name = i.label
              /\ session_hash' = HashInsert(HashRemove(session_hash,
                                    retired_sessions(i.label, i.sid)), i.sid, obj)
        BY <1>0, <2>1, <2>2, SessionHeap
      <3>2. i.sid \in DOMAIN session_hash' /\ session_hash'[i.sid] = obj
        BY <3>1 DEF HashInsert
      <3> QED BY <2>1, <3>1, <3>2 DEF session_lookup
    <2>5. ControlInv(t)' /\ QuotesInv(t)'
      BY <1>0, <1>c, <2>1, <2>2 DEF ControlInv, QuotesInv, InNpm
    <2>6. ChallengeInv(t)'
      BY <2>1, <2>2, <2>4 DEF ChallengeInv, Opened
    <2>7. SearchInv(t)' /\ ExplainedInv(t)'
      BY <1>c, <2>1, <2>3 DEF SearchInv, ExplainedInv, key_lookup, InNpm
    <2> QED BY <2>5, <2>6, <2>7 DEF ThreadInv
  <1>14. ASSUME NEW ok \in BOOLEAN, session_returned(t, ok)
         PROVE  ThreadInv(t)'
    <2>1. /\ c.pc = "set_wrapping_key" /\ UNCHANGED <<key_hash, kbs, stm_session, sessions>>
          /\ call'[t].pc = "npm" /\ call'[t].url = c.url /\ call'[t].todo = c.todo
          /\ ~ok => call'[t].err = "set"
      BY <1>0, <1>14 DEF session_returned, callback_returned, Holds, agentTables, Call
    <2>2. i.pc = "session"
      BY <1>t, <2>1 DEF ThreadInv, ControlInv
    <2>3. CASE ok
      <3>1. /\ kms'[t].pc = "transfer" /\ kms'[t].tries = i.tries /\ kms'[t].quotes = i.quotes
        BY <1>0, <1>14, <2>3 DEF session_returned, LoadkeyInfo
      <3>2. ControlInv(t)' /\ ChallengeInv(t)' /\ QuotesInv(t)'
        BY <1>c, <2>1, <2>2, <3>1 DEF ControlInv, ChallengeInv, QuotesInv, InNpm
      <3>3. SearchInv(t)' /\ ExplainedInv(t)'
        BY <1>c, <2>1, <2>2, <3>1 DEF SearchInv, ExplainedInv, key_lookup, InNpm
      <3> QED BY <3>2, <3>3 DEF ThreadInv
    <2>4. CASE ~ok
      <3>1. kms'[t] = ends(i)
        BY <1>0, <1>14, <2>4 DEF session_returned
      <3>2. ControlInv(t)' /\ ChallengeInv(t)' /\ QuotesInv(t)'
        BY <1>c, <1>e, <2>1, <3>1 DEF ControlInv, ChallengeInv, QuotesInv, InNpm
      <3>3. SearchInv(t)' /\ ExplainedInv(t)'
        BY <1>c, <1>e, <2>1, <2>2, <2>4, <3>1 DEF SearchInv, ExplainedInv, key_lookup, InNpm
      <3> QED BY <3>2, <3>3 DEF ThreadInv
    <2> QED BY <2>3, <2>4
  <1> QED BY <1>1, <1>3, <1>4, <1>5, <1>6, <1>7, <1>8, <1>9, <1>10, <1>11, <1>12, <1>13, <1>14
          DEF Npm

-----------------------------------------------------------------------------
(* What a step leaves of the sessions. *)

\* Which actions move which table.
LEMMA Movers ==
  ASSUME KmsInv, [KmsNext]_kmsVars
  PROVE  /\ \/ UNCHANGED <<session_hash, sessions, stm_session>>
            \/ \E t \in Threads, swk \in Swks, type \in SwkTypes : session_started(t, swk, type)
         /\ \/ UNCHANGED key_hash
            \/ \E t \in Threads, type \in KeyTypes : key_created(t, type)
         /\ \/ UNCHANGED swk_objects
            \/ \E t \in Threads : session_returned(t, TRUE)
         /\ \/ UNCHANGED kbs
            \/ \E sid \in SessionIds : kbs_expire(sid)
            \/ \E t \in Threads, sid \in SessionIds, label \in Labels :
                 transfer_challenged(t, sid, label)
            \/ \E t \in Threads, reply \in {"created", "refused", "lost"} :
                 quote_posted(t, reply)
  <1> DEFINE Quiet == UNCHANGED <<session_hash, sessions, stm_session, key_hash, swk_objects, kbs>>
  <1>1. ASSUME NEW t \in Threads, agent_step(t) \/ kms_called(t)
        PROVE  Quiet
    BY <1>1 DEF agent_step, kms_called, npmVars, load_locked, load_unlocked, load_not_found,
       loadkey_skip, stm_load_key, stm_load_key_refused, double_free, load_malformed,
       load_called, agentTables
  <1>2. ASSUME NEW t \in Threads,
               \/ npm_key_load(t) \/ npm_returned(t) \/ key_rejected(t) \/ get_challenge(t)
               \/ get_challenge_rejected(t) \/ session_rejected(t)
               \/ \E ok \in BOOLEAN : get_challenge_returned(t, ok)
               \/ session_returned(t, FALSE)
        PROVE  Quiet
    BY <1>2 DEF npm_key_load, npm_returned, key_rejected, get_challenge,
       get_challenge_rejected, session_rejected, get_challenge_returned, session_returned,
       loadkey_npm, loadkey_npm_returned, callback_rejected, callback_returned,
       stm_get_challenge, npmVars, agentTables
  <1>3. ASSUME NEW t \in Threads,
               \/ tried_out(t) \/ transfer_failed(t) \/ transfer_unusable(t)
               \/ \E sid \in SessionIds : transfer_ok(t, sid)
        PROVE  Quiet
    BY <1>3 DEF tried_out, transfer_failed, transfer_unusable, transfer_ok, transfer, vars
  <1>4. ASSUME NEW t \in Threads, NEW sid \in SessionIds, NEW label \in Labels,
               transfer_challenged(t, sid, label)
        PROVE  UNCHANGED <<session_hash, sessions, stm_session, key_hash, swk_objects>>
    BY <1>4 DEF transfer_challenged, transfer, vars
  <1>5. ASSUME NEW t \in Threads, NEW reply, quote_posted(t, reply)
        PROVE  UNCHANGED <<session_hash, sessions, stm_session, key_hash, swk_objects>>
    BY <1>5 DEF quote_posted, vars
  <1>6. ASSUME NEW t \in Threads, NEW type \in KeyTypes, key_created(t, type)
        PROVE  UNCHANGED <<session_hash, sessions, stm_session, swk_objects, kbs>>
    BY <1>6 DEF key_created, key_create
  <1>7. ASSUME NEW t \in Threads, NEW swk \in Swks, NEW type \in SwkTypes,
               session_started(t, swk, type)
        PROVE  UNCHANGED <<key_hash, swk_objects, kbs>>
    <2>1. TypeOK
      BY DEF KmsInv, KmsTypeOK
    <2>2. session_create(t, kms[t].label, kms[t].sid, swk, type)
      BY <1>7 DEF session_started
    <2>3. key_hash' = key_hash
      BY <2>1, <2>2, SessionCreateKeepsKeys
    <2> QED BY <1>7, <2>3 DEF session_started, npmVars
  <1>8. ASSUME NEW t \in Threads, session_returned(t, TRUE)
        PROVE  UNCHANGED <<session_hash, sessions, stm_session, key_hash, kbs>>
    BY <1>8 DEF session_returned, callback_returned, agentTables
  <1>9. ASSUME NEW sid \in SessionIds, kbs_expire(sid)
        PROVE  UNCHANGED <<session_hash, sessions, stm_session, key_hash, swk_objects>>
    BY <1>9 DEF kbs_expire, vars
  <1>10. CASE (Halted /\ UNCHANGED npmVars) \/ UNCHANGED kmsVars
    <2>1. Quiet
      BY <1>10 DEF Halted, npmVars, kmsVars, vars
    <2> QED BY <2>1
  <1>11. ASSUME NEW t \in Threads, Npm(t)
         PROVE  \/ Quiet
                \/ \E sid \in SessionIds, label \in Labels : transfer_challenged(t, sid, label)
                \/ \E type \in KeyTypes : key_created(t, type)
                \/ \E reply \in {"created", "refused", "lost"} : quote_posted(t, reply)
                \/ \E swk \in Swks, type \in SwkTypes : session_started(t, swk, type)
                \/ session_returned(t, TRUE)
    BY <1>2, <1>3, <1>11 DEF Npm
  <1> HIDE DEF Quiet
  <1>12. CASE Quiet
    BY <1>12 DEF Quiet
  <1> QED BY <1>1, <1>4, <1>5, <1>6, <1>7, <1>8, <1>9, <1>10, <1>11, <1>12 DEF KmsNext

\* What the KBS opened stays opened.
LEMMA NextKbs ==
  ASSUME KmsInv, [KmsNext]_kmsVars
  PROVE  /\ kbs' \in [SessionIds -> KbsStates]
         /\ \A sid \in SessionIds : Opened(sid) => kbs'[sid] \in {"open", "closed"}
  <1>0. kbs \in [SessionIds -> KbsStates]
    BY DEF KmsInv, KmsTypeOK
  <1>1. CASE kbs' = kbs
    BY <1>0, <1>1 DEF Opened
  <1>2. CASE \E sid \in SessionIds : kbs_expire(sid)
    BY <1>0, <1>2 DEF kbs_expire, KbsStates, Opened
  <1>3. CASE \E t \in Threads, sid \in SessionIds, label \in Labels :
               transfer_challenged(t, sid, label)
    BY <1>0, <1>3 DEF transfer_challenged, KbsStates, Opened
  <1>4. CASE \E t \in Threads, reply \in {"created", "refused", "lost"} : quote_posted(t, reply)
    BY <1>0, <1>4 DEF quote_posted, KbsStates, Opened
  <1> QED BY <1>1, <1>2, <1>3, <1>4, Movers

\* A session the NPM starts is a new object, for a session the KBS has opened.
LEMMA Started ==
  ASSUME KmsInv, NEW t \in Threads, NEW swk \in Swks, NEW type \in SwkTypes,
         session_started(t, swk, type)
  PROVE  LET label == kms[t].label
             sid   == kms[t].sid
             obj   == Len(sessions) + 1
         IN /\ label \in Stms /\ sid \in SessionIds /\ Opened(sid)
            /\ Len(sessions) \in Nat /\ Len(sessions') \in Nat
            /\ Len(sessions) <= Len(sessions')
            /\ \A o \in 1..Len(sessions) : /\ sessions'[o].name = sessions[o].name
                                          /\ sessions'[o].session_id = sessions[o].session_id
            /\ DOMAIN session_hash' \subseteq DOMAIN session_hash \cup {sid}
            /\ stm_session' = [stm_session EXCEPT ![label] = obj]
            /\ UNCHANGED <<key_hash, swk_objects>>
  <1> DEFINE label == kms[t].label
             sid == kms[t].sid
  <1>1. /\ TypeOK /\ ThreadInv(t)
        /\ session_create(t, label, sid, swk, type) /\ kms[t].pc = "session"
        /\ call[t].pc = "npm"
    BY DEF session_started, KmsInv, KmsTypeOK, At, Holds
  <1>2. label \in Stms /\ sid \in SessionIds /\ Opened(sid) /\ ~session_lookup(sid)
    BY <1>1 DEF ThreadInv, ControlInv, ChallengeInv
  <1> HIDE DEF label, sid
  <1>3. PICK obj \in 1..Len(sessions') :
           /\ sessions' \in Seq(Session)
           /\ Len(sessions) <= Len(sessions')
           /\ \A i \in 1..Len(sessions) :
                /\ sessions'[i].name = sessions[i].name
                /\ sessions'[i].session_id = sessions[i].session_id
           /\ obj = Len(sessions) + 1 /\ sessions'[obj].name = label
           /\ session_hash' = HashInsert(HashRemove(session_hash,
                                            retired_sessions(label, sid)), sid, obj)
           /\ stm_session' = [stm_session EXCEPT ![sessions'[obj].name] = obj]
    BY <1>1, <1>2, SessionHeap
  <1>4. DOMAIN session_hash' \subseteq DOMAIN session_hash \cup {sid}
    BY <1>3 DEF HashInsert, HashRemove
  <1>5. Len(sessions) \in Nat /\ Len(sessions') \in Nat
    BY <1>1, <1>3 DEF TypeOK
  <1>6. UNCHANGED <<key_hash, swk_objects>>
    BY <1>1, SessionCreateKeepsKeys DEF session_started, npmVars
  <1> QED BY <1>2, <1>3, <1>4, <1>5, <1>6 DEF label, sid

LEMMA NextAnnounced ==
  ASSUME KmsInv, [KmsNext]_kmsVars
  PROVE  AnnouncedSessionsWereOpened'
  <1>0. /\ TypeOK /\ AnnouncedSessionIsCurrent /\ AnnouncedSessionsWereOpened
        /\ \A t \in Threads : ThreadInv(t)
    BY DEF KmsInv, KmsTypeOK, AgentInv
  <1>1. /\ DOMAIN session_hash \subseteq SessionIds
        /\ \A k \in DOMAIN key_hash :
             /\ key_hash[k].session \in 1..Len(sessions)
             /\ sessions[key_hash[k].session].session_id \in SessionIds
    <2>1. \A o \in 1..Len(sessions) : sessions[o] \in Session
      BY <1>0 DEF TypeOK
    <2> QED BY <1>0, <2>1 DEF TypeOK, Session
  <1> DEFINE OpenedNext(s) == kbs'[s] \in {"open", "closed"}
  <1>2. \A sid \in SessionIds : Opened(sid) => OpenedNext(sid)
    BY NextKbs
  <1>a. ASSUME /\ \A s \in DOMAIN session_hash' : OpenedNext(s)
               /\ \A k \in DOMAIN key_hash' :
                    OpenedNext(sessions'[key_hash'[k].session].session_id)
        PROVE  AnnouncedSessionsWereOpened'
    BY <1>a DEF AnnouncedSessionsWereOpened, Opened
  <1> HIDE DEF OpenedNext
  <1>3. ASSUME UNCHANGED <<session_hash, sessions, key_hash>>
        PROVE  AnnouncedSessionsWereOpened'
    BY <1>0, <1>1, <1>2, <1>3, <1>a DEF AnnouncedSessionsWereOpened
  <1>4. ASSUME NEW t \in Threads, NEW swk \in Swks, NEW type \in SwkTypes,
               session_started(t, swk, type)
        PROVE  AnnouncedSessionsWereOpened'
    <2>1. \A sid \in DOMAIN session_hash' : OpenedNext(sid)
      BY <1>0, <1>1, <1>2, <1>4, Started DEF AnnouncedSessionsWereOpened
    <2>2. /\ \A o \in 1..Len(sessions) : sessions'[o].session_id = sessions[o].session_id
          /\ key_hash' = key_hash
      BY <1>4, Started
    <2>3. \A k \in DOMAIN key_hash' :
            OpenedNext(sessions'[key_hash'[k].session].session_id)
      BY <1>0, <1>1, <1>2, <2>2 DEF AnnouncedSessionsWereOpened
    <2> QED BY <1>a, <2>1, <2>3
  <1>5. ASSUME NEW t \in Threads, NEW type \in KeyTypes, key_created(t, type)
        PROVE  AnnouncedSessionsWereOpened'
    <2> DEFINE q == Quark(call[t].url)
               sid == kms[t].sid
               k == [type |-> type, session |-> session_hash[sid]]
    <2>1. /\ UNCHANGED <<session_hash, sessions>>
          /\ key_lookup(call[t].url) \/ session_lookup(sid)
          /\ key_hash' = IF key_lookup(call[t].url) THEN key_hash
                         ELSE HashInsert(key_hash, q, k)
      BY <1>5 DEF key_created, key_create
    <2>2. CASE key_lookup(call[t].url)
      BY <1>3, <2>1, <2>2
    <2>3. CASE ~key_lookup(call[t].url)
      <3>1. sid \in DOMAIN session_hash
        BY <2>1, <2>3 DEF session_lookup
      <3>2. sessions[session_hash[sid]].session_id = sid /\ Opened(sid)
        BY <1>0, <3>1 DEF AnnouncedSessionIsCurrent, AnnouncedSessionsWereOpened
      <3>3. /\ DOMAIN key_hash' = DOMAIN key_hash \cup {q}
            /\ key_hash'[q].session = session_hash[sid]
            /\ \A x \in (DOMAIN key_hash) \ {q} : key_hash'[x] = key_hash[x]
        BY <2>1, <2>3 DEF HashInsert
      <3>4. \A x \in DOMAIN key_hash' :
              \/ sessions[key_hash'[x].session].session_id = sid
              \/ x \in DOMAIN key_hash /\ key_hash'[x] = key_hash[x]
        BY <3>2, <3>3
      <3>5. \A x \in DOMAIN key_hash' :
              LET s == sessions[key_hash'[x].session].session_id
              IN s \in SessionIds /\ Opened(s)
        BY <1>0, <1>1, <3>1, <3>2, <3>4 DEF AnnouncedSessionsWereOpened
      <3>6. \A x \in DOMAIN key_hash' :
              OpenedNext(sessions'[key_hash'[x].session].session_id)
        BY <1>2, <2>1, <3>5
      <3>7. \A s \in DOMAIN session_hash' : OpenedNext(s)
        BY <1>0, <1>1, <1>2, <2>1 DEF AnnouncedSessionsWereOpened
      <3> QED BY <1>a, <3>6, <3>7
    <2> QED BY <2>2, <2>3
  <1> QED BY <1>3, <1>4, <1>5, Movers

LEMMA NextUnwrap ==
  ASSUME KmsInv, [KmsNext]_kmsVars
  PROVE  swk_objects' \in [Stms -> Seq(1..Len(sessions'))] /\ UnwrapInv'
  <1>0. /\ TypeOK /\ AnnouncedSessionIsCurrent /\ UnwrapInv
        /\ swk_objects \in [Stms -> Seq(1..Len(sessions))]
        /\ stm_session \in [Stms -> 0..Len(sessions)]
        /\ \A t \in Threads : ThreadInv(t)
    BY DEF KmsInv, KmsTypeOK, AgentInv, TypeOK
  <1>1. ASSUME UNCHANGED <<sessions, stm_session, swk_objects>>
        PROVE  swk_objects' \in [Stms -> Seq(1..Len(sessions'))] /\ UnwrapInv'
    BY <1>0, <1>1 DEF UnwrapInv
  <1>2. ASSUME NEW t \in Threads, NEW swk \in Swks, NEW type \in SwkTypes,
               session_started(t, swk, type)
        PROVE  swk_objects' \in [Stms -> Seq(1..Len(sessions'))] /\ UnwrapInv'
    <2> DEFINE l == kms[t].label
               obj == Len(sessions) + 1
    <2>1. /\ l \in Stms /\ Len(sessions) \in Nat /\ Len(sessions') \in Nat
          /\ Len(sessions) <= Len(sessions')
          /\ stm_session' = [stm_session EXCEPT ![l] = obj]
          /\ swk_objects' = swk_objects
      BY <1>2, Started
    <2> HIDE DEF l, obj
    <2>2. ASSUME NEW label \in Stms
          PROVE  swk_objects[label] \in Seq(1..Len(sessions'))
      <3>1. swk_objects[label] \in Seq(1..Len(sessions))
        BY <1>0
      <3>2. 1..Len(sessions) \subseteq 1..Len(sessions')
        BY <2>1
      <3> QED BY <3>1, <3>2, SeqMonotonic
    <2>3. ASSUME NEW label \in Stms, label # l
          PROVE  stm_session'[label] = stm_session[label]
      BY <1>0, <2>1, <2>3
    <2>4. ASSUME NEW j \in 1..Len(swk_objects[l])
          PROVE  swk_objects[l][j] # stm_session'[l]
      <3>1. stm_session'[l] = Len(sessions) + 1
        BY <1>0, <2>1 DEF obj
      <3>2. swk_objects[l] \in Seq(1..Len(sessions))
        BY <1>0, <2>1
      <3>3. swk_objects[l][j] \in 1..Len(sessions)
        BY <3>2, <2>4
      <3> QED BY <2>1, <3>1, <3>3
    <2>5. UnwrapInv'
      BY <1>0, <2>1, <2>3, <2>4 DEF UnwrapInv
    <2> QED BY <1>0, <2>1, <2>2, <2>5
  <1>3. ASSUME NEW t \in Threads, session_returned(t, TRUE)
        PROVE  swk_objects' \in [Stms -> Seq(1..Len(sessions'))] /\ UnwrapInv'
    <2> DEFINE l == kms[t].label
               obj == session_hash[kms[t].sid]
               swks == swk_objects[l]
    <2>1. /\ call[t].pc = "set_wrapping_key" /\ UNCHANGED <<sessions, stm_session>>
          /\ swk_objects' = [swk_objects EXCEPT ![l] = Append(swks, obj)]
      BY <1>0, <1>3 DEF session_returned, callback_returned, Holds, agentTables
    <2>2. /\ kms[t].pc = "session" /\ l \in Stms
          /\ session_lookup(kms[t].sid) /\ sessions[obj].name = l
      BY <1>0, <2>1 DEF ThreadInv, ControlInv, ChallengeInv
    <2>3. obj \in 1..Len(sessions) /\ stm_session[l] = obj
      BY <1>0, <2>2 DEF session_lookup, TypeOK, AnnouncedSessionIsCurrent
    <2> HIDE DEF l, obj
    <2>4. swks \in Seq(1..Len(sessions))
      BY <1>0, <2>2
    <2> HIDE DEF swks
    <2> DEFINE new == Append(swks, obj)
    <2>5. /\ new \in Seq(1..Len(sessions)) /\ new[Len(new)] = obj
      BY <2>3, <2>4
    <2> HIDE DEF new
    <2>6. /\ swk_objects'[l] = new
          /\ \A label \in Stms : label # l => swk_objects'[label] = swk_objects[label]
      BY <1>0, <2>1, <2>2 DEF new
    <2>7. UnwrapInv'
      BY <1>0, <2>1, <2>3, <2>5, <2>6 DEF UnwrapInv
    <2> QED BY <1>0, <2>1, <2>5, <2>7 DEF new
  <1>4. CASE UNCHANGED swk_objects /\ UNCHANGED <<sessions, stm_session>>
    BY <1>1, <1>4
  <1> QED BY <1>2, <1>3, <1>4, Movers

-----------------------------------------------------------------------------
(* The theorems. *)

LEMMA InitKms == KmsInit => KmsInv
  <1> SUFFICES ASSUME KmsInit PROVE KmsInv
    OBVIOUS
  <1>1. AgentInv
    BY InitType, InitLock, InitDelivery DEF KmsInit, AgentInv, Init, AnnouncedSessionIsCurrent
  <1>2. NewInfo \in LoadkeyInfo /\ NewInfo.pc = "done" /\ NewInfo.quotes = 0
    BY DEF NewInfo, LoadkeyInfo, KmsPcs
  <1>3. KmsTypeOK
    BY <1>1, <1>2 DEF KmsInit, KmsTypeOK, AgentInv, KbsStates
  <1>4. \A t \in Threads : ThreadInv(t)
    <2>1. ASSUME NEW t \in Threads
          PROVE  call[t].pc = "idle" /\ kms[t].pc = "done" /\ kms[t].quotes = 0
      BY <1>2 DEF KmsInit, Init
    <2>2. \A t \in Threads : ControlInv(t) /\ ChallengeInv(t) /\ SearchInv(t)
      BY <2>1 DEF ControlInv, ChallengeInv, SearchInv, Requested, Searching
    <2>3. ASSUME NEW t \in Threads PROVE QuotesInv(t)
      BY <2>1 DEF QuotesInv
    <2>4. ASSUME NEW t \in Threads PROVE ExplainedInv(t)
      BY <2>1, Zenon DEF ExplainedInv
    <2> QED BY <2>2, <2>3, <2>4 DEF ThreadInv
  <1>5. AnnouncedSessionsWereOpened
    BY DEF KmsInit, Init, AnnouncedSessionsWereOpened
  <1>6. UnwrapInv
    BY DEF KmsInit, UnwrapInv
  <1> QED BY <1>1, <1>3, <1>4, <1>5, <1>6 DEF KmsInv

LEMMA NextKms == KmsInv /\ [KmsNext]_kmsVars => KmsInv'
  <1> SUFFICES ASSUME KmsInv, [KmsNext]_kmsVars PROVE KmsInv'
    OBVIOUS
  <1>0. KmsTypeOK /\ AgentInv /\ \A t \in Threads : ThreadInv(t)
    BY DEF KmsInv
  <1>1. [Next]_vars
    BY <1>0, KmsIsAgentStep DEF ThreadInv
  <1>2. AgentInv'
    BY <1>0, <1>1, AgentInvNext
  <1>3. kms' \in [Threads -> LoadkeyInfo]
    <2>0. kms \in [Threads -> LoadkeyInfo]
      BY <1>0 DEF KmsTypeOK
    <2>1. ASSUME NEW t \in Threads, Npm(t) PROVE kms' \in [Threads -> LoadkeyInfo]
      BY <1>0, <2>0, <2>1, NpmStack DEF Stack, ThreadInv
    <2>2. ASSUME NEW t \in Threads, kms_called(t) PROVE kms' \in [Threads -> LoadkeyInfo]
      <3>1. NewInfo \in LoadkeyInfo
        BY DEF NewInfo, LoadkeyInfo, KmsPcs
      <3> QED BY <2>0, <2>2, <3>1 DEF kms_called
    <2>3. ASSUME NEW t \in Threads, agent_step(t) PROVE kms' = kms
      BY <2>3 DEF agent_step, npmVars
    <2>4. ASSUME NEW sid \in SessionIds, kbs_expire(sid) PROVE kms' = kms
      BY <2>4 DEF kbs_expire
    <2>5. CASE (Halted /\ UNCHANGED npmVars) \/ UNCHANGED kmsVars
      BY <2>0, <2>5 DEF npmVars, kmsVars
    <2> QED BY <2>0, <2>1, <2>2, <2>3, <2>4, <2>5 DEF KmsNext
  <1>4. KmsTypeOK'
    BY <1>2, <1>3, NextKbs, NextUnwrap DEF KmsTypeOK, AgentInv
  <1>5. ASSUME NEW s \in Threads PROVE ThreadInv(s)'
    <2>0. OneLoadAtATime /\ ControlInv(s) /\ ThreadInv(s)
      BY <1>0 DEF AgentInv, ThreadInv
    <2>1. ASSUME NEW t \in Threads, agent_step(t) \/ kms_called(t) \/ Npm(t)
          PROVE  ThreadInv(s)'
      <3>1. CASE s = t
        BY <1>0, <2>1, <3>1, AgentStepThread, NpmStepThread
      <3>2. CASE s # t
        <4>1. ControlInv(t)
          BY <1>0 DEF ThreadInv
        <4>2. Undisturbed(s)
          BY <1>0, <2>0, <2>1, <3>2, <4>1, OthersUndisturbed
        <4> QED BY <2>0, <4>2, UndisturbedThread
      <3> QED BY <3>1, <3>2
    <2>2. ASSUME NEW sid \in SessionIds, kbs_expire(sid) PROVE ThreadInv(s)'
      <3>1. kbs \in [SessionIds -> KbsStates]
        BY <1>0 DEF KmsTypeOK
      <3>2. UNCHANGED <<call, kms, agentTables>> /\ KbsKept
        BY <2>2, <3>1 DEF kbs_expire, vars, agentTables, KbsKept
      <3>3. Undisturbed(s)
        BY <3>2 DEF Undisturbed
      <3> QED BY <2>0, <3>3, UndisturbedThread
    <2>3. CASE (Halted /\ UNCHANGED npmVars) \/ UNCHANGED kmsVars
      <3>1. UNCHANGED <<call, kms, kbs, agentTables>>
        BY <2>3 DEF Halted, npmVars, kmsVars, vars, agentTables
      <3>2. Undisturbed(s)
        BY <3>1 DEF Undisturbed, KbsKept
      <3> QED BY <2>0, <3>2, UndisturbedThread
    <2> QED BY <2>1, <2>2, <2>3 DEF KmsNext
  <1>6. AnnouncedSessionsWereOpened' /\ UnwrapInv'
    BY NextAnnounced, NextUnwrap
  <1> QED BY <1>2, <1>4, <1>5, <1>6 DEF KmsInv

LEMMA KmsInvariant == KmsSpec => []KmsInv
  BY InitKms, NextKms, PTL DEF KmsSpec

\* The KMS NPM is an NPM: with it, the agent does what KeyAgent allows and no
\* more, so that whatever is proved of KeyAgent holds here.
THEOREM KmsIsAgent == KmsSpec => Spec
  <1>1. KmsInit => Init
    BY DEF KmsInit
  <1>2. KmsInv /\ [KmsNext]_kmsVars => [Next]_vars
    BY KmsIsAgentStep DEF KmsInv, ThreadInv
  <1> QED BY <1>1, <1>2, KmsInvariant, PTL DEF KmsSpec, Spec

\* The types of KmsNpm hold: among the rest, no load tries more than twice.
THEOREM KmsTyping == KmsSpec => []KmsTypeOK
  <1>1. KmsInv => KmsTypeOK
    BY DEF KmsInv
  <1> QED BY <1>1, KmsInvariant, PTL

\* Whatever replies are lost and whatever expires, the agent announces and keeps
\* keys under sessions of the KBS only.
THEOREM AnnouncedWereOpened == KmsSpec => []AnnouncedSessionsWereOpened
  <1>1. KmsInv => AnnouncedSessionsWereOpened
    BY DEF KmsInv
  <1> QED BY <1>1, KmsInvariant, PTL

\* A key offered to the token is wrapped for the wrapping key the token uses,
\* unless the token refused that one.
THEOREM OfferedKeysUnwrap == KmsSpec => []OfferedKeyUnwraps
  <1>1. ASSUME KmsInv PROVE OfferedKeyUnwraps
    <2>1. ASSUME NEW t \in Threads, call[t].pc = "load_key"
          PROVE  LET o    == key_hash[Quark(call[t].url)].session
                     swks == swk_objects[sessions[o].name]
                 IN (\E i \in 1..Len(swks) : swks[i] = o) => swks[Len(swks)] = o
      <3> DEFINE u == call[t].url
                 o == key_hash[Quark(u)].session
      <3>1. /\ TypeOK /\ DeliveryInv /\ SearchInv(t) /\ UnwrapInv
        BY <1>1 DEF KmsInv, AgentInv, ThreadInv
      <3>2. key_lookup(u)
        BY <2>1, <3>1 DEF DeliveryInv
      <3>3. stm_session[sessions[o].name] = o
        BY <2>1, <3>1, <3>2 DEF SearchInv, CurrentKey
      <3>4. sessions[o].name \in Stms
        <4>1. o \in 1..Len(sessions)
          BY <3>1, <3>2 DEF TypeOK, key_lookup
        <4>2. sessions[o] \in Session
          BY <3>1, <4>1 DEF TypeOK
        <4> QED BY <4>2 DEF Session
      <3> QED BY <3>1, <3>3, <3>4 DEF UnwrapInv
    <2> QED BY <2>1 DEF OfferedKeyUnwraps
  <1> QED BY <1>1, KmsInvariant, PTL

\* However the KBS answers, one load attests at most twice.
THEOREM TwoQuotesAtMost == KmsSpec => []AtMostTwoQuotes
  <1>1. KmsInv => AtMostTwoQuotes
    BY DEF KmsInv, ThreadInv, QuotesInv, AtMostTwoQuotes
  <1> QED BY <1>1, KmsInvariant, PTL

\* A failing load has an error, but for a malformed url and a 401 that the NPM
\* does not use.
THEOREM FailuresExplained == KmsSpec => []FailuresAreExplained
  <1>1. KmsInv => FailuresAreExplained
    BY DEF KmsInv, ThreadInv, ExplainedInv, FailuresAreExplained
  <1> QED BY <1>1, KmsInvariant, PTL

=============================================================================
