------------------------------ MODULE TokenLife ------------------------------
(***************************************************************************)
(* Processes that use the PKCS#11 API module on one machine: they start,   *)
(* fork, finalize and initialize the library again, end, and load keys     *)
(* meanwhile.  The tokens are shared; a child inherits the table of opened *)
(* tokens, what the key agent knows and the agent's lock, but not the      *)
(* sessions of the library, nor the thread that may hold the lock.         *)
(*                                                                         *)
(* Apimodule shows the threads of one process call by call.  Here a step   *)
(* is one function of the API module, and a process has one thread that    *)
(* loads keys and another that forks and re-initializes.                   *)
(*                                                                         *)
(* The library numbers sessions as it likes, also with a number it used    *)
(* before C_Finalize.  The last slot always holds an uninitialized token.  *)
(* C_Initialize and C_Finalize do not fail here; in Apimodule they may.    *)
(***************************************************************************)
EXTENDS Naturals, Sequences

CONSTANTS
  Processes,
  Urls,           \* key uris, all of token KMS with the same pin
  AesUrls,        \* those of AES keys, whose objects live as long as the session
  Handles,        \* the sessions a library can have open
  Settings,       \* the settings of the behaviors, members of Setting
  PreloadUrl,     \* the first line of the preload_keys file, or NoUrl
  NoHandle,       \* CK_INVALID_HANDLE
  NoUrl

\* Labels are taken apart by how they compare with KMS.
Labels == {"KMS", "KMS and more", "other", "blank"}

\* The labels of the tokens there are at first, by slot; the calls that may fail for
\* reasons of their own, C_GetTokenInfo or the others; the keys the application
\* loads; and two bounds: how many tokens are made, and how often processes start,
\* fork and finalize.
Setting ==
  [tokens : Seq(Labels \ {"blank"}), faults : SUBSET {"info", "calls"},
   urls : SUBSET Urls, made : Nat, restarts : Nat]

ASSUME TokenLifeAssumption ==
  /\ AesUrls \subseteq Urls
  /\ Settings \subseteq Setting
  /\ PreloadUrl \in Urls \cup {NoUrl}
  /\ NoHandle \notin Handles /\ NoUrl \notin Urls

VARIABLES
  setting,    \* what does not change
  slots,      \* the slots: label, whether our pin is the user pin, RSA keys
  proc,       \* per process: its API module, key agent and load
  library,    \* per process: its PKCS#11 library
  made,       \* history: the process that made each token
  restarts    \* how often a process was started, forked or finalized

tokenVars == <<setting, slots, proc, library, made, restarts>>

-----------------------------------------------------------------------------
Slots == Nat \ {0}

Pcs == {"idle", "returned", "find", "create", "find_again", "open",
        "search", "lock", "load", "load_again", "unlock"}

\* The table's entry for KMS, in the table or not, and its session.
Entry == [there : BOOLEAN, session : Handles \cup {NoHandle}]

Process ==
  [stage : {"down", "loaded", "forked", "preparing", "running", "finalized"},
   entry : Entry, preload_keys_flag : BOOLEAN,
   holder : {"nobody", "worker", "gone"},    \* who holds the agent's lock
   known : SUBSET Urls,                      \* keys the agent has
   session : BOOLEAN,                        \* it has a session to announce
   pc : Pcs, url : Urls \cup {NoUrl}, ok : BOOLEAN,
   create : BOOLEAN,                         \* init_apimodule_token may create
   slot : Slots \cup {0},  \* uri_data.slot_id
   fresh : BOOLEAN,        \* history: the library is the one of the entry
   child : Handles \cup {NoHandle},  \* history: the session of apimodule_prepare_child
   handed : SUBSET Urls]   \* history: keys handed to this library

Library ==
  [open : [Handles -> Slots \cup {0}],   \* the slot of an open session
   searching : SUBSET Handles,
   user : SUBSET Slots,                  \* the slots the user is logged in to
   swk : SUBSET Slots,                   \* with the wrapping key of the agent's session
   aes : SUBSET (Slots \X AesUrls)]

NewLibrary == [open |-> [h \in Handles |-> 0], searching |-> {}, user |-> {},
               swk |-> {}, aes |-> {}]

NewProcess ==
  [stage |-> "loaded", entry |-> [there |-> FALSE, session |-> NoHandle],
   preload_keys_flag |-> FALSE, holder |-> "nobody", known |-> {}, session |-> FALSE,
   pc |-> "idle", url |-> NoUrl, ok |-> FALSE, create |-> FALSE, slot |-> 0,
   fresh |-> FALSE, child |-> NoHandle, handed |-> {}]

Down == [NewProcess EXCEPT !.stage = "down"]

Blank == [label |-> "blank", pin |-> FALSE, rsa |-> {}]

CallsMayFail == "calls" \in setting.faults

Outcome(cond) == IF CallsMayFail THEN {cond, FALSE} ELSE {cond}

-----------------------------------------------------------------------------
TokenLifeInit ==
  \* A token KMS of an earlier run has our pin, or another.
  /\ setting \in Settings
  /\ \E pin \in BOOLEAN :
       slots = [n \in 1..Len(setting.tokens) |->
                 [label |-> setting.tokens[n], pin |-> pin /\ setting.tokens[n] # "other",
                  rsa |-> {}]] \o <<Blank>>
  /\ proc = [p \in Processes |-> Down]
  /\ library = [p \in Processes |-> NewLibrary]
  /\ made = <<>>
  /\ restarts = 0

-----------------------------------------------------------------------------
(* The library as process p sees it. *)

\* The slot of session h, 0 if it is not open.
SlotOf(p, h) == IF h \in Handles THEN library[p].open[h] ELSE 0

Usable(p, h) == SlotOf(p, h) # 0 /\ h \notin library[p].searching

LoggedIn(p, h) == SlotOf(p, h) \in library[p].user

\* The object of key u, for a session on slot n.
Visible(p, n, u) ==
  /\ n \in library[p].user
  /\ IF u \in AesUrls THEN <<n, u>> \in library[p].aes ELSE u \in slots[n].rsa

\* C_Finalize and C_Initialize; the library has none of what it had.
Reinitialized(p) == [library EXCEPT ![p] = NewLibrary]

\* The label of the token is cut to the length of the uri's and then compared.
matches(label) == label \in {"KMS", "KMS and more"}

\* apimodule_findtoken, when C_GetTokenInfo fails for the slots in bad: the first
\* slot that matches.  If none does, rv is what the last slot left in it.
found_slot(bad) ==
  LET good == {n \in 1..Len(slots) : n \notin bad /\ matches(slots[n].label)}
  IN IF good = {} THEN 0 ELSE CHOOSE n \in good : \A m \in good : n <= m

findtoken_rv(bad) == found_slot(bad) # 0 \/ Len(slots) \notin bad

\* What it may return: the rv, and the slot if there is one.
findtoken(p) ==
  {[rv |-> findtoken_rv(bad), slot |-> found_slot(bad)] :
     bad \in IF "info" \in setting.faults THEN SUBSET (1..Len(slots)) ELSE {{}}}

-----------------------------------------------------------------------------
(* Processes. *)

Loading(p) == proc[p].pc \notin {"idle", "returned"}

\* A load of u begins: with the table's token, or by opening it.
Begun(q, u) ==
  [q EXCEPT !.pc = IF q.entry.there THEN "search" ELSE "find", !.url = u, !.ok = FALSE,
            !.create = FALSE]

\* A process whose last load is forgotten.
Idle(q) ==
  [q EXCEPT !.pc = "idle", !.url = NoUrl, !.ok = FALSE, !.create = FALSE, !.slot = 0]

\* The library of q was initialized again: nothing opened before is open.
Reset(q) == [q EXCEPT !.fresh = FALSE, !.child = NoHandle, !.handed = {}]

\* Variant: the flag is not raised, so that the C_Initialize of a child preloads too.
Initialized_unflagged(q, stage) ==
  IF PreloadUrl = NoUrl THEN [q EXCEPT !.stage = stage]
  ELSE Begun([q EXCEPT !.stage = stage], PreloadUrl)

\* The C_Initialize of the API module: the first of the process preloads.
Initialized(q, stage) ==
  LET r == [q EXCEPT !.stage = stage, !.preload_keys_flag = TRUE]
  IN IF q.preload_keys_flag \/ PreloadUrl = NoUrl THEN r ELSE Begun(r, PreloadUrl)

\* C_GetFunctionList in a new process.
start(p) ==
  /\ proc[p].stage = "down"
  /\ restarts < setting.restarts  \* bound
  /\ restarts' = restarts + 1
  /\ proc' = [proc EXCEPT ![p] = NewProcess]
  /\ UNCHANGED <<slots, library, made, setting>>

C_Initialize(p) ==
  /\ proc[p].stage \in {"loaded", "finalized"}
  /\ proc' = [proc EXCEPT ![p] = Initialized(proc[p], "running")]
  /\ UNCHANGED <<slots, library, made, restarts, setting>>

\* C_Finalize, by an application that is not loading a key meanwhile.
C_Finalize(p) ==
  /\ proc[p].stage = "running" /\ ~Loading(p)
  /\ restarts < setting.restarts  \* bound
  /\ restarts' = restarts + 1
  /\ proc' = [proc EXCEPT ![p] = [Idle(Reset(proc[p])) EXCEPT !.stage = "finalized"]]
  /\ library' = Reinitialized(p)
  /\ UNCHANGED <<slots, made, setting>>

\* The lock of a thread that the child does not have stays locked.
inherited_lock(q) == IF q.holder = "nobody" THEN "nobody" ELSE "gone"

\* fork, called by another thread than the one that loads.  The child has the
\* calling thread only.
fork(p, q) ==
  /\ proc[p].stage \in {"loaded", "running"}
  /\ proc[q].stage = "down"
  /\ restarts < setting.restarts  \* bound
  /\ restarts' = restarts + 1
  /\ proc' = [proc EXCEPT ![q] =
       [Idle(Reset(proc[p])) EXCEPT !.stage = "forked", !.holder = inherited_lock(proc[p])]]
  /\ UNCHANGED <<slots, library, made, setting>>

\* apimodule_prepare_child, first the library.
prepare_child(p) ==
  /\ proc[p].stage = "forked"
  /\ library' = Reinitialized(p)
  /\ proc' = [proc EXCEPT ![p] = Initialized(proc[p], "preparing")]
  /\ UNCHANGED <<slots, made, restarts, setting>>

\* C_Login as the user.
can_login(lib, n) == n \in lib.user \/ slots[n].pin

Opened(lib, h, n) == [lib EXCEPT !.open[h] = n]

FreeHandles(p) == {h \in Handles : library[p].open[h] = 0}

\* Variant: no login.
child_login_skipped(p, lib, n) == lib

child_login(p, lib, n) == [lib EXCEPT !.user = @ \cup {n}]

\* Then the token of the first line of the preload_keys file.  Whatever fails,
\* the child runs; if the login does, with the session left open.
prepare_child_session(p) ==
  /\ proc[p].stage = "preparing" /\ ~Loading(p)
  /\ \/ /\ \/ PreloadUrl = NoUrl \/ CallsMayFail \/ FreeHandles(p) = {}
           \/ \E f \in findtoken(p) : f.slot = 0
        /\ proc' = [proc EXCEPT ![p].stage = "running"]
        /\ UNCHANGED library
     \/ \E f \in findtoken(p), h \in FreeHandles(p) :
          /\ PreloadUrl # NoUrl /\ f.slot # 0
          /\ LET lib == Opened(library[p], h, f.slot)
             IN \E ok \in Outcome(can_login(lib, f.slot)) :
                  /\ library' = [library EXCEPT
                                   ![p] = IF ok THEN child_login(p, lib, f.slot) ELSE lib]
                  /\ proc' = [proc EXCEPT ![p].stage = "running",
                                           ![p].child = IF ok THEN h ELSE NoHandle]
  /\ UNCHANGED <<slots, made, restarts, setting>>

\* The application opens a session of its own and may log in.
application_opens(p) ==
  /\ proc[p].stage = "running"
  /\ \E h \in FreeHandles(p), n \in 1..Len(slots), user \in BOOLEAN :
       LET lib == Opened(library[p], h, n)
       IN /\ slots[n].label # "blank"
          /\ user => can_login(lib, n)
          /\ library' = [library EXCEPT
                           ![p] = IF user THEN [lib EXCEPT !.user = @ \cup {n}] ELSE lib]
  /\ UNCHANGED <<slots, proc, made, restarts, setting>>

\* A process ends, or dies.
stop(p) ==
  /\ proc[p].stage # "down"
  /\ proc' = [proc EXCEPT ![p] = Down]
  /\ library' = Reinitialized(p)
  /\ UNCHANGED <<slots, made, restarts, setting>>

-----------------------------------------------------------------------------
(* A load of a key. *)

At(p, pc) == proc[p].stage \in {"preparing", "running"} /\ proc[p].pc = pc

C_OnDemand_KeyLoad(p, u) ==
  /\ proc[p].stage = "running" /\ ~Loading(p)
  /\ proc' = [proc EXCEPT ![p] = Begun(proc[p], u)]
  /\ UNCHANGED <<slots, library, made, restarts, setting>>

Goes(p, pc) == [proc EXCEPT ![p].pc = pc]

Returns(p, ok) ==
  [proc EXCEPT ![p] = [Idle(@) EXCEPT !.pc = "returned", !.url = proc[p].url, !.ok = ok]]

Ends(p, ok) ==
  [proc EXCEPT ![p] = [Idle(@) EXCEPT !.pc = "unlock", !.url = proc[p].url, !.ok = ok]]

\* init_apimodule_token returns NULL: the key agent is asked, or, if it was the
\* agent that asked, its load fails.
NoToken(p) ==
  IF proc[p].create THEN Ends(p, FALSE)
  ELSE [proc EXCEPT ![p].pc = "lock", ![p].slot = 0]

find(p) ==
  /\ At(p, "find")
  /\ \E f \in findtoken(p) :
       proc' = IF ~f.rv THEN NoToken(p)
               ELSE IF f.slot # 0 THEN Goes(p, "find_again")
               ELSE IF proc[p].create THEN Goes(p, "create") ELSE NoToken(p)
  /\ UNCHANGED <<slots, library, made, restarts, setting>>

\* Variant: the label is padded in front.
new_label_padded == "other"

new_label == "KMS"

\* The tokens after C_InitToken of the last one, with our user pin or not yet.
TokenMade(pin) ==
  Append([slots EXCEPT ![Len(slots)] = [label |-> new_label, pin |-> pin, rsa |-> {}]], Blank)

CanMake(p) == Len(made) < setting.made  \* bound: C_InitToken fails then

\* apimodule_createtoken, and the library initialized again for the new slot.
create(p) ==
  /\ At(p, "create")
  /\ CanMake(p) /\ FreeHandles(p) # {}
  /\ slots' = TokenMade(TRUE)
  /\ made' = Append(made, p)
  /\ library' = Reinitialized(p)
  /\ proc' = [proc EXCEPT ![p] = [Reset(proc[p]) EXCEPT !.pc = "find_again"]]
  /\ UNCHANGED <<restarts, setting>>

\* It fails before C_InitToken, with it, or, with the token made, before or after
\* its user pin is set; a session it opened stays open.
create_fails(p) ==
  /\ At(p, "create")
  /\ \/ /\ CallsMayFail \/ ~CanMake(p)
        /\ UNCHANGED <<slots, library, made>>
     \/ /\ CanMake(p) /\ (CallsMayFail \/ FreeHandles(p) = {})
        /\ made' = Append(made, p)
        /\ \/ slots' = TokenMade(FALSE) /\ UNCHANGED library
           \/ \E h \in FreeHandles(p), pin \in BOOLEAN :
                /\ slots' = TokenMade(pin)
                /\ library' = [library EXCEPT ![p] = Opened(@, h, Len(slots))]
  /\ proc' = NoToken(p)
  /\ UNCHANGED <<restarts, setting>>

\* cache_apimodule_token, and the load goes on.
Cached(p, h) ==
  [proc EXCEPT ![p].entry = [there |-> TRUE, session |-> h], ![p].fresh = h # NoHandle,
               ![p].slot = 0, ![p].pc = IF proc[p].create THEN "load" ELSE "search"]

\* The second apimodule_findtoken.  If it does not find the token rv may still be
\* CKR_OK: the entry is cached without a session.
find_again(p) ==
  /\ At(p, "find_again")
  /\ \E f \in findtoken(p) :
       proc' = IF ~f.rv THEN NoToken(p)
               ELSE IF f.slot = 0 THEN Cached(p, NoHandle)
               ELSE [proc EXCEPT ![p].pc = "open", ![p].slot = f.slot]
  /\ UNCHANGED <<slots, library, made, restarts, setting>>

\* C_Logout of the user of slot n, if there is one: the session objects go.
LoggedOut(lib, n) ==
  [lib EXCEPT !.user = @ \ {n}, !.swk = @ \ {n}, !.aes = {o \in @ : o[1] # n}]

\* Variant: the token is cached though the login failed.
open_ok_unchecked(ok) == TRUE

open_ok(ok) == ok

\* C_OpenSession, C_Logout and C_Login.  A failed login leaves the session open.
open_session(p) ==
  /\ At(p, "open")
  /\ \/ /\ CallsMayFail \/ FreeHandles(p) = {}
        /\ proc' = NoToken(p)
        /\ UNCHANGED library
     \/ \E h \in FreeHandles(p), out \in Outcome(TRUE) :
          LET n   == proc[p].slot
              lib == IF out THEN LoggedOut(Opened(library[p], h, n), n)
                     ELSE Opened(library[p], h, n)
          IN \E ok \in Outcome(can_login(lib, n)) :
               /\ library' = [library EXCEPT
                                ![p] = IF ok THEN [lib EXCEPT !.user = @ \cup {n}] ELSE lib]
               /\ proc' = IF open_ok(ok) THEN Cached(p, h) ELSE NoToken(p)
  /\ UNCHANGED <<slots, made, restarts, setting>>

\* Variant: the result of C_FindObjectsInit is not looked at.
search_starts_unchecked(p) == {TRUE}

search_starts(p) == Outcome(Usable(p, proc[p].entry.session))

\* Variant: is_present is not reset before the search.
object_found_stale(p, n) == TRUE

object_found(p, n) == Visible(p, n, proc[p].url)

\* apimodule_findobject.  A search that fails half-way is not ended.  The result
\* of reading an object that was found is that of the load.
search(p) ==
  /\ At(p, "search")
  /\ LET h == proc[p].entry.session
         n == SlotOf(p, h)
     IN \E init \in search_starts(p), ended \in Outcome(TRUE), read \in Outcome(TRUE) :
          /\ library' = IF init /\ ~ended THEN [library EXCEPT ![p].searching = @ \cup {h}]
                        ELSE library
          /\ proc' = IF ~init \/ ~ended THEN Returns(p, FALSE)
                     ELSE IF object_found(p, n) THEN Returns(p, read)
                     ELSE Goes(p, "lock")
  /\ UNCHANGED <<slots, made, restarts, setting>>

\* keyagent_loadkey_with_moduledata: a key the agent knows is not loaded again.
lock(p) ==
  /\ At(p, "lock")
  /\ proc[p].holder = "nobody"
  /\ proc' = [proc EXCEPT ![p].holder = "worker",
                          ![p].pc = IF proc[p].url \in proc[p].known THEN "unlock" ELSE "load",
                          ![p].ok = proc[p].url \in proc[p].known]
  /\ UNCHANGED <<slots, library, made, restarts, setting>>

\* apimodule_get_challenge opens the token, and may create it.
get_challenge(p) ==
  /\ At(p, "load")
  /\ ~proc[p].entry.there
  /\ proc' = [proc EXCEPT ![p].pc = "find", ![p].create = TRUE]
  /\ UNCHANGED <<slots, library, made, restarts, setting>>

\* The key server is asked for the key, with the session announced.
Asking(p) == At(p, "load") \/ At(p, "load_again")

\* With the token open: a key pair and its quote, the session the key server opens
\* for it, and set_wrapping_key.  The agent announces the session also if the token
\* refuses the wrapping key.  The key is asked for again, once.
create_session(p) ==
  /\ Asking(p)
  /\ LET h == proc[p].entry.session
         n == SlotOf(p, h)
     IN /\ LoggedIn(p, h)
        /\ \E ok \in Outcome(TRUE) :
             library' = [library EXCEPT ![p].swk = IF ok THEN @ \cup {n} ELSE @ \ {n}]
  /\ LET again == IF At(p, "load") THEN Goes(p, "load_again") ELSE Ends(p, FALSE)
     IN proc' = [again EXCEPT ![p].session = TRUE]
  /\ UNCHANGED <<slots, made, restarts, setting>>

\* The key server does not deliver the key.
load_fails(p) ==
  /\ Asking(p)
  /\ proc' = Ends(p, FALSE)
  /\ UNCHANGED <<slots, library, made, restarts, setting>>

Stored(p, n, u) ==
  IF u \in AesUrls
    THEN /\ library' = [library EXCEPT ![p].aes = @ \cup {<<n, u>>}]
         /\ UNCHANGED slots
    ELSE /\ slots' = [slots EXCEPT ![n].rsa = @ \cup {u}]
         /\ UNCHANGED library

\* A session and the wrapping key are gone with the library they were made in.
unwraps(p, h) == LoggedIn(p, h) /\ SlotOf(p, h) \in library[p].swk

\* The key is delivered for the session that was announced: the agent knows it, and
\* the API module puts it into the token of its entry, or refuses.
load_key(p) ==
  /\ Asking(p)
  /\ proc[p].session
  /\ LET h == proc[p].entry.session
         u == proc[p].url
     IN \E stored \in Outcome(unwraps(p, h)) :
          /\ IF stored THEN Stored(p, SlotOf(p, h), u) ELSE UNCHANGED <<slots, library>>
          /\ proc' = [proc EXCEPT ![p].known = @ \cup {u},
                                  ![p].handed = IF stored THEN @ \cup {u} ELSE @,
                                  ![p].pc = "unlock", ![p].ok = stored]
  /\ UNCHANGED <<made, restarts, setting>>

\* Variant: a load that failed keeps the lock.
unlocked_if_ok(p) == IF proc[p].ok THEN "nobody" ELSE proc[p].holder

unlocked(p) == "nobody"

unlock(p) ==
  /\ At(p, "unlock")
  /\ proc' = [Returns(p, proc[p].ok) EXCEPT ![p].holder = unlocked(p)]
  /\ UNCHANGED <<slots, library, made, restarts, setting>>

-----------------------------------------------------------------------------
\* A step of a load that has begun.
Worker(p) ==
  \/ find(p) \/ create(p) \/ create_fails(p) \/ find_again(p) \/ open_session(p)
  \/ search(p) \/ lock(p) \/ get_challenge(p)
  \/ create_session(p) \/ load_fails(p) \/ load_key(p) \/ unlock(p)

PrepareChild(p) == prepare_child(p) \/ prepare_child_session(p)

TokenLifeNext ==
  \E p \in Processes :
    \/ start(p) \/ C_Initialize(p) \/ C_Finalize(p) \/ \E q \in Processes : fork(p, q)
    \/ PrepareChild(p) \/ application_opens(p) \/ stop(p)
    \/ \E u \in setting.urls : C_OnDemand_KeyLoad(p, u)
    \/ Worker(p)

TokenLifeSpec == TokenLifeInit /\ [][TokenLifeNext]_tokenVars

\* A thread that can take a step of its load takes it, and fork returns.
TokenLifeFairness == \A p \in Processes : WF_tokenVars(Worker(p)) /\ WF_tokenVars(PrepareChild(p))

TokenLifeFairSpec == TokenLifeSpec /\ TokenLifeFairness

-----------------------------------------------------------------------------
\* Besides the types: the last token is the uninitialized one, and a thread that is
\* in the agent, or opens the token for it, holds the agent's lock.
TokenLifeTypeOK ==
  /\ setting \in Settings
  /\ slots \in Seq([label : Labels, pin : BOOLEAN, rsa : SUBSET (Urls \ AesUrls)])
  /\ proc \in [Processes -> Process]
  /\ library \in [Processes -> Library]
  /\ made \in Seq(Processes) /\ Len(made) <= setting.made
  /\ restarts \in 0..setting.restarts
  /\ \A n \in 1..Len(slots) : slots[n].label = "blank" <=> n = Len(slots)
  /\ \A p \in Processes :
       /\ proc[p].holder = "worker" <=> proc[p].pc \in {"load", "load_again", "unlock"} \/ proc[p].create
       /\ proc[p].session => proc[p].entry.there

\* The session a load of p will use is one that p has in the library it has now:
\* p opened the token since its last C_Initialize, or the table it inherited
\* names the session apimodule_prepare_child has opened.
OwnSession(p) ==
  /\ proc[p].entry.there /\ proc[p].entry.session # NoHandle
  /\ proc[p].fresh \/ proc[p].entry.session = proc[p].child

\* A session in the table that is the process's own is open, logged in, and on a
\* token that is KMS, or could not be told from it: through forks, through
\* C_Finalize, and though other processes make tokens and the application opens
\* sessions of its own.
TableSessionReady ==
  \A p \in Processes : OwnSession(p) =>
    LET n == SlotOf(p, proc[p].entry.session)
    IN n # 0 /\ n \in library[p].user /\ matches(slots[n].label)

\* C_OnDemand_KeyLoad returns CKR_OK only if the object can be found with the
\* table's session, or the agent had the key and this library never got it.  If no
\* call fails by itself that takes a library other than the one that opened the
\* token: it was handed to the library of before a fork or a C_Finalize, or to this
\* one, which has no wrapping key.
SuccessIsSeen ==
  \A p \in Processes : proc[p].pc = "returned" /\ proc[p].ok =>
    LET n == SlotOf(p, proc[p].entry.session)
    IN \/ proc[p].entry.there /\ n # 0 /\ Visible(p, n, proc[p].url)
       \/ /\ proc[p].url \in proc[p].known \ proc[p].handed
          /\ CallsMayFail \/ ~proc[p].fresh

\* A load does not succeed over a session that is of no use for the next one: one
\* that was never opened, is closed, or has a search left in it.
SuccessMeansUsable ==
  \A p \in Processes : proc[p].pc = "returned" /\ proc[p].ok /\ proc[p].entry.there =>
    Usable(p, proc[p].entry.session)

\* An entry without a session, with which every load of the process fails, needs
\* a C_GetTokenInfo that failed, and so does a second token made by one process,
\* in whatever order processes make theirs, fail at it, end and start again.
OneTokenEach ==
  "info" \notin setting.faults =>
    /\ \A p \in Processes : proc[p].entry.there => proc[p].entry.session # NoHandle
    /\ \A i, j \in 1..Len(made) : made[i] = made[j] => i = j

\* A load ends, unless the process was forked while a thread it does not have
\* held the agent's lock: such a load waits for ever.
LoadsEnd ==
  \A p \in Processes : Loading(p) /\ proc[p].holder # "gone" ~> ~Loading(p)

\* fork returns in the child, or the child ends: also in one that has inherited the
\* agent's lock from a thread it does not have.  A child that preloads in the
\* handler of the fork would wait for it; but a lock that was held at the fork means
\* that C_Initialize had been called, and the flag it raises is inherited too.
ForksReturn ==
  \A p \in Processes :
    proc[p].stage \in {"forked", "preparing"} ~> proc[p].stage \in {"running", "down"}

=============================================================================
