------------------------------- MODULE KmsNpm -------------------------------
(***************************************************************************)
(* The KMS network provider module under the key agent, with the key       *)
(* server (KBS) it talks to.                                               *)
(*                                                                         *)
(* npm_key_load asks the KBS for the key, announcing the sessions of the   *)
(* agent.  A 200 carries the key and names the session it is wrapped for;  *)
(* a 401 carries a challenge, which the NPM has the token answer with a    *)
(* quote; the 201 that follows opens a session, and the NPM asks again.    *)
(* Each step of the NPM that calls back is a step of KeyAgent as well.     *)
(*                                                                         *)
(* The KBS is not part of the repository.  It is taken to challenge with   *)
(* an id it has not used, to open a session for the challenge it is sent a *)
(* quote for, and to send keys under sessions it has opened; any request   *)
(* may fail or go unanswered, and any session may expire at any moment.    *)
(***************************************************************************)
EXTENDS KeyAgent

CONSTANTS
  Kms,      \* the only NPM of the repository
  Labels,   \* challenge types the KBS may ask for
  NoSid,    \* no session id yet
  NoLabel   \* no challenge type yet

ASSUME KmsAssumption ==
  /\ Npms = {Kms}
  /\ Stms \subseteq Labels
  /\ NoSid \notin SessionIds
  /\ NoLabel \notin Labels

VARIABLES
  kms,        \* per thread: where __npm_loadkey is
  kbs,        \* what the KBS did with a session id
  swk_objects \* per STM: the sessions whose wrapping key its token unwrapped,
              \* in order; wrappingkey_handle is the last

npmVars == <<kms, kbs, swk_objects>>
kmsVars == <<vars, npmVars>>

KmsPcs == {"transfer", "challenge", "quote", "session", "create", "done"}

\* loadkey_info, with what the two recursive functions keep on the stack:
\* the challenge being answered, whether an error was set, whether a 401 was
\* met that the NPM cannot use, and how many quotes were sent.
LoadkeyInfo ==
  [pc : KmsPcs, tries : 0..2, label : Labels \cup {NoLabel}, sid : SessionIds \cup {NoSid},
   failed : BOOLEAN, unusable : BOOLEAN, quotes : Nat]

NewInfo == [pc |-> "done", tries |-> 0, label |-> NoLabel, sid |-> NoSid,
            failed |-> FALSE, unusable |-> FALSE, quotes |-> 0]

KbsStates == {"unused", "challenged", "open", "closed"}

At(t, pc) == Holds(t, "npm") /\ kms[t].pc = pc

KmsInit ==
  /\ Init
  /\ kms = [t \in Threads |-> NewInfo]
  /\ kbs = [sid \in SessionIds |-> "unused"]
  /\ swk_objects = [s \in Stms |-> <<>>]

-----------------------------------------------------------------------------
(* The load around the NPM: steps of the agent alone. *)

agent_step(t) ==
  /\ \/ load_locked(t)
     \/ load_unlocked(t)
     \/ load_not_found(t)
     \/ loadkey_skip(t, Kms)
     \/ stm_load_key(t)
     \/ stm_load_key_refused(t)
     \/ double_free(t)
  /\ UNCHANGED npmVars

kms_called(t) ==
  /\ \E u \in Urls, e \in Errs : load_malformed(t, u, e) \/ load_called(t, u, e)
  /\ kms' = [kms EXCEPT ![t] = NewInfo]
  /\ UNCHANGED <<kbs, swk_objects>>

-----------------------------------------------------------------------------
(* npm_key_load and __npm_loadkey. *)

npm_key_load(t) ==
  /\ loadkey_npm(t, Kms)
  /\ kms' = [kms EXCEPT ![t].pc = "transfer"]
  /\ UNCHANGED <<kbs, swk_objects>>

\* Variant: the counter is tested and not advanced.
next_try_same(n) == n

next_try(n) == n + 1

\* npm_key_load unwinds, from whatever depth.
ends(i) == [NewInfo EXCEPT !.failed = i.failed, !.unusable = i.unusable, !.quotes = i.quotes]

\* Variant: without an error of its own.
fails_silently(i) == ends(i)

\* It does so with an error of the NPM's own.
fails(i) == [ends(i) EXCEPT !.failed = TRUE]

\* The third transfer of one load is not tried.
tried_out(t) ==
  /\ At(t, "transfer")
  /\ kms[t].tries > 1
  /\ kms' = [kms EXCEPT ![t] = fails(@)]
  /\ UNCHANGED <<vars, kbs, swk_objects>>

\* The request for the key is sent; i is what the reply makes of the load.
transfer(t, i) ==
  /\ At(t, "transfer")
  /\ kms[t].tries <= 1
  /\ kms' = [kms EXCEPT ![t] = IF i.pc = "done" THEN i
                                    ELSE [i EXCEPT !.tries = next_try(i.tries)]]
  /\ UNCHANGED vars

\* No connection, a status other than 200 and 401, or a reply that cannot be
\* parsed or lacks the Session-Id header.
transfer_failed(t) ==
  /\ transfer(t, fails(kms[t]))
  /\ UNCHANGED <<kbs, swk_objects>>

\* A 401 of another type than "not-authorized", or one whose challenge is not to
\* be answered with a post: the load fails and no error is set.
transfer_unusable(t) ==
  /\ transfer(t, [ends(kms[t]) EXCEPT !.unusable = TRUE])
  /\ UNCHANGED <<kbs, swk_objects>>

transfer_challenged(t, sid, label) ==
  /\ kbs[sid] = "unused"
  /\ transfer(t, [kms[t] EXCEPT !.pc = "challenge", !.sid = sid, !.label = label])
  /\ kbs' = [kbs EXCEPT ![sid] = "challenged"]
  /\ UNCHANGED swk_objects

\* A 200: the key, wrapped for any session the KBS holds open, be it one the
\* agent has replaced or one whose 201 was lost.
transfer_ok(t, sid) ==
  /\ kbs[sid] = "open"
  /\ transfer(t, [kms[t] EXCEPT !.pc = "create", !.sid = sid])
  /\ UNCHANGED <<kbs, swk_objects>>

key_created(t, type) ==
  /\ At(t, "create")
  /\ key_create(t, type, kms[t].sid)
  /\ kms' = [kms EXCEPT ![t] = ends(@)]
  /\ UNCHANGED <<kbs, swk_objects>>

key_rejected(t) ==
  /\ At(t, "create")
  /\ ~key_lookup(call[t].url) /\ ~session_lookup(kms[t].sid)
  /\ callback_rejected(t)
  /\ kms' = [kms EXCEPT ![t] = ends(@)]
  /\ UNCHANGED <<kbs, swk_objects>>

npm_returned(t) ==
  /\ At(t, "done")
  /\ loadkey_npm_returned(t, IF kms[t].failed THEN "set" ELSE call[t].err)
  /\ kms' = [kms EXCEPT ![t] = [NewInfo EXCEPT !.unusable = kms[t].unusable]]
  /\ UNCHANGED <<kbs, swk_objects>>

-----------------------------------------------------------------------------
(* start_session. *)

get_challenge(t) ==
  /\ At(t, "challenge")
  /\ stm_get_challenge(t, kms[t].label)
  /\ UNCHANGED npmVars

\* The KBS asked for a type of challenge that no STM answers.
get_challenge_rejected(t) ==
  /\ At(t, "challenge")
  /\ kms[t].label \notin Stms
  /\ callback_rejected(t)
  /\ kms' = [kms EXCEPT ![t] = ends(@)]
  /\ UNCHANGED <<kbs, swk_objects>>

\* The STM and the API module set an error whenever they fail.
get_challenge_returned(t, ok) ==
  /\ callback_returned(t, "get_challenge", ok, IF ok THEN call[t].err ELSE "set")
  /\ kms' = [kms EXCEPT ![t] = IF ok THEN [@ EXCEPT !.pc = "quote"] ELSE ends(@)]
  /\ UNCHANGED <<kbs, swk_objects>>

\* Variant: any reply is as good as a 201.
session_granted_any(reply) == reply # "lost"

\* What the NPM takes for an open session: a 201 that it can parse.
session_granted(reply) == reply = "created"

\* The quote is posted.  The KBS opens the session or refuses; that it did may
\* be lost on the way back.
quote_posted(t, reply) ==
  /\ At(t, "quote")
  /\ kbs' = IF reply # "refused" /\ kbs[kms[t].sid] = "challenged"
              THEN [kbs EXCEPT ![kms[t].sid] = "open"]
              ELSE kbs
  /\ reply = "created" => kbs[kms[t].sid] = "challenged"
  /\ LET i == [kms[t] EXCEPT !.quotes = kms[t].quotes + 1]
     IN kms' = [kms EXCEPT ![t] = IF session_granted(reply)
                                    THEN [i EXCEPT !.pc = "session"] ELSE fails(i)]
  /\ UNCHANGED <<vars, swk_objects>>

session_started(t, swk, type) ==
  /\ At(t, "session")
  /\ session_create(t, kms[t].label, kms[t].sid, swk, type)
  /\ UNCHANGED npmVars

\* A 201 with a wrapping-key type that is not supported.
session_rejected(t) ==
  /\ At(t, "session")
  /\ callback_rejected(t)
  /\ kms' = [kms EXCEPT ![t] = ends(@)]
  /\ UNCHANGED <<kbs, swk_objects>>

\* The token unwraps the wrapping key, or does not; the NPM sees to it that a
\* failure has an error.  After a success the key is asked for again.
session_returned(t, ok) ==
  /\ callback_returned(t, "set_wrapping_key", ok, IF ok THEN call[t].err ELSE "set")
  /\ kms' = [kms EXCEPT ![t] = IF ok THEN [@ EXCEPT !.pc = "transfer"] ELSE ends(@)]
  /\ swk_objects' = IF ok THEN [swk_objects EXCEPT ![kms[t].label] =
                                  Append(@, session_hash[kms[t].sid])]
                    ELSE swk_objects
  /\ UNCHANGED kbs

-----------------------------------------------------------------------------
(* The KBS on its own. *)

kbs_expire(sid) ==
  /\ kbs[sid] = "open"
  /\ kbs' = [kbs EXCEPT ![sid] = "closed"]
  /\ UNCHANGED <<vars, kms, swk_objects>>

-----------------------------------------------------------------------------
Npm(t) ==
  \/ npm_key_load(t)
  \/ tried_out(t)
  \/ transfer_failed(t)
  \/ transfer_unusable(t)
  \/ \E sid \in SessionIds, label \in Labels : transfer_challenged(t, sid, label)
  \/ \E sid \in SessionIds : transfer_ok(t, sid)
  \/ \E type \in KeyTypes : key_created(t, type)
  \/ key_rejected(t)
  \/ npm_returned(t)
  \/ get_challenge(t)
  \/ get_challenge_rejected(t)
  \/ \E ok \in BOOLEAN : get_challenge_returned(t, ok)
  \/ \E reply \in {"created", "refused", "lost"} : quote_posted(t, reply)
  \/ \E swk \in Swks, type \in SwkTypes : session_started(t, swk, type)
  \/ session_rejected(t)
  \/ \E ok \in BOOLEAN : session_returned(t, ok)

KmsNext ==
  \/ \E t \in Threads : agent_step(t) \/ kms_called(t) \/ Npm(t)
  \/ \E sid \in SessionIds : kbs_expire(sid)
  \/ Halted /\ UNCHANGED npmVars

KmsSpec == KmsInit /\ [][KmsNext]_kmsVars

\* A thread that holds the lock goes on: the operating system runs it, the token
\* returns, and every request is answered or fails.  Nothing is assumed of the
\* lock, nor of the threads outside.
Holding(t) == rwlock = t /\ (agent_step(t) \/ Npm(t))

KmsFairSpec == KmsSpec /\ \A t \in Threads : WF_kmsVars(Holding(t))

-----------------------------------------------------------------------------
KmsTypeOK ==
  /\ TypeOK
  /\ kms \in [Threads -> LoadkeyInfo]
  /\ kbs \in [SessionIds -> KbsStates]
  /\ swk_objects \in [Stms -> Seq(1..Len(sessions))]

-----------------------------------------------------------------------------
(* Safety. *)

Opened(sid) == kbs[sid] \in {"open", "closed"}

\* A key on its way to a token was wrapped by the KBS for a session of the agent.
\* If the token has ever unwrapped the wrapping key of that session, it is the
\* one it unwraps with now: no session that was opened, replaced or lost in
\* between leaves a key for a wrapping key the token no longer uses.
OfferedKeyUnwraps ==
  \A t \in Threads : call[t].pc = "load_key" =>
    LET o    == key_hash[Quark(call[t].url)].session
        swks == swk_objects[sessions[o].name]
    IN (\E i \in 1..Len(swks) : swks[i] = o) => swks[Len(swks)] = o

\* What the agent announces to the KBS as its sessions, the KBS has opened; and
\* it has seen the quote for every key the agent caches.
AnnouncedSessionsWereOpened ==
  /\ \A sid \in DOMAIN session_hash : Opened(sid)
  /\ \A k \in DOMAIN key_hash : Opened(sessions[key_hash[k].session].session_id)

\* A load that fails has an error to report (C_OnDemand_KeyLoad prints it without
\* looking whether there is one), unless its url was malformed or the KBS sent
\* a 401 that the NPM does not use.
FailuresAreExplained ==
  \A t \in Threads :
    call[t].pc = "returned" /\ ~call[t].ret /\ call[t].err = "none" =>
      call[t].url \in Malformed \/ kms[t].unusable

\* However the KBS answers and whatever expires, one load attests to the KBS
\* twice at most.
AtMostTwoQuotes == \A t \in Threads : kms[t].quotes <= 2

-----------------------------------------------------------------------------
(* What makes these inductive. *)

InNpm == {"npm", "get_challenge", "set_wrapping_key"}

\* Where t is in the NPM goes with where it is in the agent, and says what it
\* holds on its stack.
ControlInv(t) ==
  LET i == kms[t]
  IN /\ i.pc # "done" => call[t].pc \in InNpm
     /\ call[t].pc = "get_challenge" => i.pc = "challenge" /\ i.label \in Stms
     /\ call[t].pc = "set_wrapping_key" => i.pc = "session"
     /\ i.pc \in {"challenge", "quote", "session", "create"} => i.sid \in SessionIds
     /\ i.pc \in {"quote", "session"} => i.label \in Stms

\* The challenge t answers is nobody else's: it becomes a session of the agent
\* once, for the STM that answered it.
ChallengeInv(t) ==
  LET sid == kms[t].sid
  IN /\ kms[t].pc \in {"challenge", "quote"} => kbs[sid] = "challenged"
     /\ kms[t].pc = "session" => Opened(sid)
     /\ kms[t].pc = "session" /\ call[t].pc = "npm" => ~session_lookup(sid)
     /\ call[t].pc = "set_wrapping_key" =>
          session_lookup(sid) /\ sessions[session_hash[sid]].name = kms[t].label

CurrentKey(u) ==
  LET o == key_hash[Quark(u)].session IN stm_session[sessions[o].name] = o

\* The NPM is called for keys the agent does not have, and a key it leaves
\* behind is one of a current session.
SearchInv(t) ==
  LET u == call[t].url
  IN /\ call[t].pc = "find" /\ Kms \in call[t].todo => ~key_lookup(u)
     /\ call[t].pc \in Requested => Kms \notin call[t].todo
     /\ kms[t].pc # "done" => ~key_lookup(u)
     /\ call[t].pc \in {"npm", "load_key"} /\ key_lookup(u) => CurrentKey(u)

\* Each quote was paid for with a try.
QuotesInv(t) ==
  LET i == kms[t]
  IN /\ i.pc \in {"transfer", "session"} => i.quotes <= i.tries
     /\ i.pc \in {"challenge", "quote", "create"} => i.quotes + 1 <= i.tries
     /\ i.quotes <= 2
     /\ call[t].pc \notin InNpm => i.quotes = 0

\* Why a load that is about to fail has an error.
ExplainedInv(t) ==
  LET explained == kms[t].unusable \/ call[t].err # "none"
  IN /\ call[t].pc = "npm" /\ kms[t].pc = "done" =>
          explained \/ kms[t].failed \/ key_lookup(call[t].url)
     /\ call[t].pc = "unlock" /\ ~call[t].ret => explained
     /\ call[t].pc = "returned" /\ ~call[t].ret =>
          explained \/ call[t].url \in Malformed

\* The current session of an STM is the last that its token unwrapped a wrapping
\* key of, or none that it did.
UnwrapInv ==
  \A label \in Stms :
    LET swks == swk_objects[label]
    IN (\E i \in 1..Len(swks) : swks[i] = stm_session[label])
         => swks[Len(swks)] = stm_session[label]

-----------------------------------------------------------------------------
(* Liveness. *)

\* A load that has the lock gives it back, with every token operation and every
\* request to the KBS made under it.
HolderReturns == \A t \in Threads : rwlock = t ~> rwlock # t \/ aborted

=============================================================================
