# SKC library: a TLA+ development

The SKC library lets an application use keys that live in an SGX enclave. The
application names a key by a PKCS#11 uri; the library has the enclave attest
itself to a key server (KBS), receives the key wrapped for the enclave, and has
the enclave unwrap it. This directory models that program: what happens to the
agent's tables, the sessions with the KBS and the keys when several threads load
keys, modules refuse, replies get lost and sessions expire.

## 1. The system

| part | source | state | operations |
|---|---|---|---|
| key agent | `key-agent/src/intf.cpp`, `session.cpp`, `key.cpp`, `request.cpp` | one writer lock; hash tables of NPMs, STMs, sessions, keys, registered requests | `keyagent_loadkey_with_moduledata`, the callbacks handed to an NPM |
| STM registry, SGX STM | `key-agent/stm/stm_init.cpp`, `stm/sgx/src/application_intf.cpp` | per STM: its current session | `set_session`, `get_challenge`, `load_key` |
| NPM registry, KMS NPM | `key-agent/npm/npm_init.cpp`, `npm/kms/src/intf.cpp`, `utils/curl.cpp` | per load: number of tries; at the KBS: sessions | `register`, `key_load` |
| PKCS#11 API module | `api-module/pkcs11/src/*` | table of tokens: session handle, key pair, wrapping key, challenge; objects in the token | `C_OnDemand_KeyLoad`, `C_Initialize` (preload), fork handler, `get_challenge`, `set_wrapping_key`, `load_key` |
| local cache | `key-agent/src/cache-*.cpp` | SQLite tables of keys, attributes, sessions | cache, uncache, reload at start |
| start of a process | `pkcs11-apimodule.cpp`, `intf.cpp`, `stm_init.cpp`, `npm_init.cpp` | a `g_once` flag; the API module's and the agent's statics | `C_GetFunctionList`, `keyagent_init`, `keyagent_apimodule_register` |
| credential agent | `credential-agent/commandline_tool/*` | key and certificate of a store, the files of a request, key-agent.ini, a lock | `credential_agent_tool`, `credential_agent_init` |
| role script | `container/resources/skc_library_create_roles.sh` | at the authentication service (AAS): users, roles, who has which | make the user, the roles, the token |
| command line | `key-agent/cli/main.c` | none | starts an agent, loads one key |
| configuration, types, logging, packaging, tests, SafeString headers | `config-file`, `include`, `container`, `scripts`, `dist`, `SafeStringLibrary` | none of their own (reference counts) | |

How they interact. An application thread calls `C_OnDemand_KeyLoad`, which looks
for the object in the token without a lock and then calls the agent. The agent
takes its writer lock, looks the url up in `key_hash` and, if it is not there,
walks the NPMs with `g_hash_table_find(_loadkey)`. The KMS NPM asks the KBS over
HTTPS, announcing the sessions in `session_hash`. A 401 carries a challenge: the
NPM calls back `stm_get_challenge` (agent, STM, API module, token: a key pair and
a quote), posts the quote, calls back `session_create` (agent, STM, API module,
token: the wrapping key) and asks again. A 200 carries the wrapped key and the
session it was wrapped for; `key_create` puts it into `key_hash`. Back in
`_loadkey` the agent has the session's STM load the key (API module, token:
unwrap). All of this, the HTTPS requests included, is under the one lock; what
the API module does before it calls the agent is not.

Before that, the role script has made a user whose token entitles to a certificate
(CMS issues it) and to keys; the credential agent has made a key pair with that
token, stored it and written its place into key-agent.ini; and the first
`C_GetFunctionList` of a process has read that file, loaded the plug-ins and
enabled the secure transport module (STM) of its mode. Nothing orders these: they
run again, fail half-way and overlap with running processes, and share files only.

What is hard to test: loads of the same url by several threads; a refusal by the
STM after the key is cached; a session that is replaced, expires, or was opened
by a KBS whose answer got lost; errors handed through four layers; the recursion
of the NPM; in the API module, everything that is done without the lock, and what
forks, `C_Finalize` and other processes do to its table; and, on the machine, a
failure or an overlap between any two commands of the scripts.
`PROJECT.json` lists these hazards by line, with the properties that cover them.

What makes each part correct:

- agent: one load at a time; a key is delivered at most once; the result of a
  load tells what happened to the key; sessions announced are the current ones;
  errors are reported once and exist when a load fails.
- KMS NPM with the KBS: agent, token and KBS agree on sessions and wrapping keys;
  a load ends, after at most two attestations.
- API module: a token is created once, its table entry stays usable, key pair,
  quote and wrapping key belong together, an object is loaded once.
- the API module's processes: a session in the table is good while the library
  it was opened in lives; a load that succeeds is worth something; loads and
  forks come to an end.
- cache: a key reported as stored is there with its data, and stays; a restart
  leaves nothing half stored.
- start of a process: every thread gets the same answer, and CKR_OK means that all
  the pieces are there.
- credential agent: key and certificate match when it says so, and key-agent.ini
  names both from one store.
- role script: a printed token is worth a certificate for the user's name.

## 2. The modules

**`KeyLoader`** is what the agent promises its callers, in four variables: who is
asking for what (`asked`), what was answered, which keys the agent knows, how
often a token received each. A load that succeeds was for a known key, a load
that fails was for a key no token has received, a token receives a key at most
once. It does *not* promise that a successful load finds the key in the token:
the code does not keep that (see `agent_cached`).

**`KeyAgent`** is the agent, for any set of NPMs and STMs.

| in the model | in the code |
|---|---|
| `rwlock` | `keyagent::rwlock` |
| `call[t]`: `pc`, `url`, `todo`, `ret`, `err` | the stack of `keyagent_loadkey_with_moduledata` and `_loadkey`: where it is, the NPMs `g_hash_table_find` has still to visit, the result, the caller's `GError` |
| `apimodule_loadkey_hash` | the table of requests; a request id is a fresh uuid per load, named by its thread |
| `session_hash`, `sessions`, `stm_session` | the table, the heap of session objects (they are never freed), `stm->session` |
| `key_hash` | the table of keys. Its hash keys are quarks; `__delete_key` passes a string address, which is another hash key |
| `delivered`, `aborted` | how often an STM accepted a url's key; the process died on a freed error |

`load_malformed`, `load_called`, `load_locked`, `load_not_found`, `load_unlocked`
are the parts of `keyagent_loadkey_with_moduledata`; `loadkey_skip`,
`loadkey_npm`, `loadkey_npm_returned`, `stm_load_key`, `stm_load_key_refused`
those of `_loadkey`; `stm_get_challenge`, `session_create`, `key_create`,
`callback_rejected` the callbacks; `callback_returned` the answer of STM and API
module to either of the first two. What an NPM does between its call and its
return is left open, so what holds here holds for any NPM. `double_free` is the
undefined behaviour of freeing an error twice: it may end the process, or may
not. Two hash-table operations (`HashRemove`, `HashInsert`) stand for GLib. Of the
callbacks an NPM is handed (`types.h`), `keyagent_stm_set_session` is left out: no
module of the repository calls it.

**`KmsNpm`** extends `KeyAgent` with the KMS NPM and the KBS. Every step of the
NPM that calls back is the conjunction of its own step and the agent's, so the
two compose without an interface of their own. `kms[t]` is the stack of
`__npm_loadkey` and `start_session`; `kbs[sid]` what the KBS did with a session;
`swk_objects[stm]` the wrapping keys the token has unwrapped, in order. The KBS
is external: it challenges with unused ids (a challenge is a nonce), opens a
session for the challenge it is sent a quote for, sends keys under any session
it holds open, may refuse, lose a reply, or expire a session at any time.

**`Apimodule`** is the API module, with the agent reduced to its lock, the keys it
knows and the session it announces. One thread's load is a sequence of PKCS#11
calls, each a step of its own.

| in the model | in the code |
|---|---|
| `api[t]`: `pc`, `url`, `atoken`, `session`, `create`, ... | the stack of `C_OnDemand_KeyLoad` and `init_apimodule_token`, and under the lock that of `apimodule_get_challenge` |
| `api[t].todo` | what `apimodule_preload_keys` has not read yet of its file |
| `token_hash`, `atokens` | `apimodule_token_hash` and the entries it had (they are never freed); there is one label, so the table is an index, 0 for empty |
| `preload_keys_flag` | the static flag in `C_Initialize` |
| `p11` | the PKCS#11 library and its token: external |
| `agent` | the lock's holder, `known` keys, the `announced` session, keys that were `refused` |
| `inits`, `openings` | history: how often `C_InitToken` succeeded, how often a token was opened |

`findtoken` to `cache_token` are the steps of `init_apimodule_token` with
`apimodule_createtoken` inside; `findobjectsinit`, `findobjects`,
`findobjectsfinal` those of `apimodule_findobject`; `get_challenge`,
`generate_rsa_keypair`, `export_quote`, `set_wrapping_key` and `load_key` the
callbacks of the SGX mode; `load_locked`, `load_failed` and `load_unlocked` what
is around them in the agent. A key pair, its quote and the wrapping key the KBS
sends for it carry one number. Assumed of the PKCS#11 library, which is not in
the repository: it does what the standard says of sessions, logins (of the
application, not of a session), searches (one per session), private session
objects and `C_Finalize`; `C_GetTokenInfo` does not fail. Everything else may,
when `TokenMayFail` is set, the `C_Finalize` and `C_Initialize` in the creation of a
token included, whose results nobody looks at: the library may then stay as it was, or
stay finalized. An application calls `C_Initialize`, with success, before it loads keys.

Two threads may find the table empty and open the token both. Their logouts,
`C_Finalize` or second entries then hit each other's handles, and most of what
one would like to claim is false: an object can be loaded twice, a quote can
belong to the other's key pair, the challenge can be NULL, which ends the process. The
properties below therefore distinguish what holds always from what holds
while the token has been opened once (`OpenedOnce`). An application gets into
the second case by preloading, or by loading its first key in one thread.

**`KeyCache`** is the SQLite cache with the processes that share it. `keys` and
`key_attributes` are the tables (of a key only id, url and the presence of its
`KEYDATA` matter), `proc[p]` is a process: the rows of `global_model` it has not
looked at, the result variable it reuses for all of them, `global_delete_list`,
and the key it is storing. `cache_init`, `load_row`, `prune_attrs`, `prune_key`
are `__keyagent_cache_init` and `__keyagent_cache_loadkeys`; `cache_key`,
`get_key`, `insert_attr`, `undo_attrs`, `undo_key` are `__keyagent_cache_key`,
statement by statement; `crash` ends a process anywhere, so it also stands for
what the code does to itself there (`__delete_key` releases its parser twice,
`__get_key` reads row 0 of what may be empty). Assumed of libgda: each statement is
committed by itself, and foreign keys are enforced, its default for SQLite.

What the code cannot promise: a process that loads the cache deletes the row
of a key that another is just storing, perhaps after its data has come, and
then the data with it; and a statement that fails may leave half of a key, or have
a load delete a whole one. `disturbed` remembers that one of these has happened:
`StoredMeansWhole` is claimed always, `WholeKeysStay` and `LoadRepairs` until then.
Crashes do not disturb them. A key that is not RSA is not covered by these two:
whether its row survives a load depends on the row before it. `Failures` is what
may happen to one statement, a choice made anew for each.

**`TokenLife`** is the API module seen from outside one process: processes start,
fork, finalize and initialize the library, open sessions of their own, end, and load
keys, and share the tokens. `Apimodule` has every PKCS#11 call of one process'
threads; here a step is one function of the API module, and a process has one thread
that loads and one that forks and re-initializes.

| in the model | in the code |
|---|---|
| `slots` | the tokens: label, whether our pin is set, RSA keys (token objects); external |
| `library[p]` | the PKCS#11 library in process `p`: open sessions, abandoned searches, logins, AES keys and wrapping keys (session objects); external |
| `proc[p]` | the API module and agent of `p`: table entry, preload flag, lock, known keys, announced session, and where its load is |
| `setting` | what a behavior may do: tokens of earlier runs, which calls may fail, which keys are loaded |
| `fresh`, `child`, `handed`, `made` | history: whose library opened the entry, which keys it got, who made each token |

`fork` copies what the agent has, and the lock with it, and leaves the library and
the other thread behind; `prepare_child` and `prepare_child_session` are
`apimodule_prepare_child`; `find`, `create`, `find_again`, `open_session` are
`init_apimodule_token`; `search` is `apimodule_findobject` and `lock` to `unlock` the
agent. `C_GetTokenInfo` may fail here (`"info"` in the setting), and labels compare
as `apimodule_findtoken` does it, over the length of the uri's label. It is assumed
that an application does not call `C_Finalize` while it loads a key, and that the library
numbers sessions as it likes, so a stale handle may name a session of another token.
`C_Initialize` and `C_Finalize` succeed here. A token whose label only begins with KMS is
taken for KMS, as `utils.c:195` does, although the comment at `utils.c:391` is about "the
token" of the uri: one of the settings has such a token, and "matches" below
includes it.

**`CreateRoles`** is `skc_library_create_roles.sh`, one request per step, for any
number of runs of it with any users. `script[i]` is the shell's variables, `aas` the
authentication service (external: unique names, unknown role ids refused). The status
of a GET is not looked at: an answer that is an object and no list counts as found, with
no id; one that is empty or cannot be read has no length and counts as not found, so
that the script posts, also what is there already, which AAS refuses. A POST is
checked. An answer may be lost after the service has acted (`Posted`).

**`CredentialAgent`** is `credential_agent_tool`, one command of the shell per step,
and `credential_agent_init` around it, for any runs and stores. A key and its
certificate are known by the run that made the key. An openssl that fails
ends the run, once the rest of `gen_and_get_csr_buf` is done, which may still leave a
request for the key in the file (`openssl_failed`); the exit code is 0, as with "already present" (the exit codes these
paths name are not defined): `ExitsZero`. Anything may end a run anywhere, and its
lock with it: `killed` supposes that the whole process group dies, for a child that
outlives the shell would keep the lock of `flock`.

**`AgentInit`** is the start of a process: `C_GetFunctionList` with its once-flag,
`apimodule_init`, `apimodule_load_module`, `keyagent_init` and
`keyagent_apimodule_register`. `build` is what is installed, `agent` the statics of
the API module and of `keyagent`, `thread[t]` where a caller is. A failed step leaves
what was done before it, for the process' life. `register` sets no error when the
mode has no STM, and the caller reads `error->message`: the process dies
(`pkcs11-apimodule.cpp:249`). With the plug-ins of the repository this is so for mode SW.
An NPM that cannot be opened is left out (`npms_started`); that the error object is then
passed as a format string (`npm_init.cpp:23`), which is undefined, is taken to do no more
than log something.

**`Deployment`** composes the three: each has its own variables, and they meet in the
token that decides what CMS approves (`Approved`), in key-agent.ini that `read_conf`
reads, and in the two files `read_certificate` and `read_key` open, in this order, for
each request of a load. `cast` says who takes part in a behavior, so that one
run checks several casts without their product.

The `MC` modules give values to the constants; the `Proofs` modules hold the
theorems.

Definitions marked `Variant:` in the modules are not part of the specification.
Each is the definition that follows it with a plausible slip (a dropped guard, a
missing reset); every checked property is shown to fail under one of them.

## 3. What is checked

| run | question | instance |
|---|---|---|
| `agent_safety` | Do the tables, the lock and the deliveries stay consistent whatever NPMs, STMs and the API module answer? Does the agent keep `KeyLoader`? | 2 threads, 3 urls (one malformed), 2 NPMs of which one knows a single url, 2 STMs, 2 session ids, 3 session objects |
| `agent_search` (violated) | Does the search end at the first NPM that takes the url, as the comment at `intf.cpp:247` says? | the same with 2 session objects |
| `agent_cached` (violated) | Is the object in the token after a successful load, as the AES test takes for granted? | as `agent_search` |
| `kms_safety` | Do agent, token and KBS agree on sessions, wrapping keys and errors? | 2 threads, 2 KMS urls and one other, 1 STM and a challenge type without one, 3 challenges |
| `kms_live` | Does a load that has the lock give it back? | 2 threads, 2 urls, 2 challenges |
| `kms_retired` (violated) | Do the keys of a session leave `key_hash` with it, as `__keyagent_key_remove_by_session` is there for? | as `kms_live` |
| `api_safety` | Does the token, its table entry and the keys stay consistent when any PKCS#11 call may fail? | 2 threads, 2 uris of two pins, one of them preloading both, 2 sessions, 2 key pairs |
| `api_search` | Do searches end, are keys loaded once, does a created token get its pin, if calls fail only for a reason? | 2 threads, 3 uris of 2 keys, 2 of them preloaded, 2 sessions, 2 key pairs |
| `cache_processes` | Do stored keys survive, and does a load repair what a crash left, when statements fail and processes die? | 2 processes, 2 RSA keys and an AES key, 5 rows inserted |
| `life_safety` | Which sessions in the table are good, and what is a successful load worth, through forks, `C_Finalize` and failures? | 2 processes, 2 sessions each, an RSA and an AES key; 4 settings |
| `life_live` | Do loads and forks end? | 2 processes, 1 session each, an AES key, every call may fail |
| `deployment` | What is a printed token worth, do key and certificate match, do callers agree, what does a load present? | 2 scripts, 3 runs on 2 stores, 2 threads, in 4 casts, and 11 faulty installations |

The properties, and what they rule out:

- `OneLoadAtATime`: a request is registered exactly while its thread, which holds
  the lock, is inside a module, on every exit path of `_loadkey`.
- `AnnouncedSessionIsCurrent`: the sessions announced to the KBS are the current
  sessions of their STMs, after any order of new, known and foreign session ids.
- `DeliveredAtMostOnce`, `ResultTellsDelivery`: however many threads, NPMs and
  refusals, a key is accepted once, and a load that went through an NPM succeeds
  exactly when it was.
- `AbortedOnlyAfterRefusal`: the freed error can only bite after an STM refused.
- `UnsupportedMeansNoNpm`, `SuccessMeansDelivered`, `KeysLeaveWithSession` are what a
  comment, a test and the name of a function say of the agent, and are violated; see
  `findings` in `PROJECT.json`. For the last, `key.cpp:146` asks the table to remove the
  address of a url where it is keyed by its quark, so nothing is removed: the key stays,
  and later loads of its url succeed from the table. With the quark in its place in
  `key_remove_by_session` TLC finds no violation.
- `LoaderSpec`: the refinement of `KeyLoader`.
- `OfferedKeyUnwraps`: a key offered to the token was wrapped for the wrapping key
  the token uses, if it ever accepted that one.
- `AnnouncedSessionsWereOpened`: the agent announces, and keeps keys under, only
  sessions the KBS has opened, although replies get lost.
- `FailuresAreExplained`: a failing load has an error, but for malformed urls and
  the 401s the NPM does not use. Those two are real: `C_OnDemand_KeyLoad` then
  dereferences NULL.
- `AtMostTwoQuotes`, `HolderReturns`: the NPM's recursion ends.

- `InitialisedOnce`: `C_InitToken`, which destroys what a token holds, succeeds
  once however many threads find no token. Nothing in `init_apimodule_token`
  looks again before creating it: it holds because only `get_challenge`, under
  the agent's lock, passes `create`, and because a token that was created but
  never opened is found by the next attempt.
- `OneTokenPerThread`: the unlocked table gets one entry per thread at most, over
  any number of loads.
- `PreloadedOnce`: one thread preloads; the `C_Initialize` inside the creation of
  a token never does, or it would wait for the lock its own thread holds.
- `SearchesEnd`: no search stays active in the shared session.
- `CachedTokenUsable`: session open, user logged in, pin right, for the entry in
  the table, while the token was opened once. Under the same condition:
- `WrappingKeysAgree`: key pair, quote, wrapping key and announced session belong
  together through failed challenges, failed unwraps and new sessions;
- `LoadedOnce`: a uri brings its key into the token once, though it is looked for
  outside the lock; `SuccessHasObject`: a successful load has its object in the
  token, unless the token refused the key earlier (the defect of `agent_cached`);
- `TokenKeepsPin`: a token that was created has a user pin.
- `TableSessionReady`: a session in the table that was opened in the library the process has
  now, by itself or by the handler of a fork, is open, logged in and on a token that
  matches, whatever other processes and the application do.
- `SuccessIsSeen`: a load that returns CKR_OK has its object where the table's session
  sees it, or the agent knew the key and this library never got it. The second case is
  real: after a fork or a `C_Finalize` the agent still takes for loaded what went
  to the library of before.
- `SuccessMeansUsable`: a load does not succeed over a session that is useless for the
  next one, although a search that failed is never ended.
- `OneTokenEach`: no process makes a second token, and no entry is without a session, as
  long as `C_GetTokenInfo` works: if it does not, "not found" and success are one.
- `LoadsEnd`: a load ends, but for one in a child that has inherited the agent's lock
  from a thread it does not have, which waits for ever. `ForksReturn`: the fork itself
  returns also there, for its handler does not preload: whoever held the lock had called
  `C_Initialize` before.
- `TokenMeansEntitled`: a token that is printed carries a role of each kind. The
  certificate role is the user's or of a user whose name begins with the user's, for
  AAS is asked with `contextContains`; then CMS refuses it. The transfer role may have
  another permission, for it is looked up by name alone.
- `IssuedPairMatches`: a store whose last key a run made that reached its end has the
  key and its certificate; key-agent.ini, last written by such a run, names one
  store. Any other run leaves a pair that may not match, also when it exits with 0, and
  a later run without `--force` then finds a certificate present and exits with 0 too.
- `AnswersAgree`: see `AgentInit`; a child of a fork dies at once only when
  `C_Finalize` was never resolved, and the process only for want of the mode's STM.
- `LoadPresentsPair`: a load presents a certificate and the key for it, if no run was
  under way at the reads or came between, and the last to make a key and the last to
  write key-agent.ini had ended well.
- `StoredMeansWhole`: `__keyagent_cache_key` returns TRUE only for a key that is
  in the database with its data, whatever fails, dies or interleaves.
- `WholeKeysStay`, `LoadRepairs`: an RSA key with its data stays; a load leaves
  none without. `CacheTypeOK` includes uniqueness of ids and urls and that no
  data is without its row.

Bounds. Two threads are enough for every race on one lock; a third adds only
another waiter. Two STMs and three session objects allow a session to be
replaced, announced again under a known id, and created for the other STM.
Three challenges are one more than a load can use, so a counter that fails to
count is seen. In `KeyAgent`, `MaxSessions` is the only bound in a guard
(`session_create`); in `KmsNpm` it never bites, for there are as many session
objects as ids. `Swks`, `SwkTypes` and `KeyTypes` are single values where no
property tells their members apart. Threads, STMs, session ids, PKCS#11 sessions,
processes and RSA keys are symmetric where no constant names one of them; the runs
that check liveness use no symmetry.

In `Apimodule`, `MaxPairs` (in the guard of `get_challenge`) bounds the key pairs
generated: two are needed for a wrapping key to be replaced, and more only
repeat this. Two sessions are the limit of the library, one for each thread; it
is reached when a failed login has left one open. In `KeyCache`, `MaxRows` (in
the guard of `cache_key`) bounds the rows inserted: five let each key be stored,
lost in a crash and stored again with another in between.

In `TokenLife`, a setting bounds the tokens made (`made`, in `CanMake`) and how
often processes start, fork and finalize (`restarts`, in the guards of `start`, `fork`
and `C_Finalize`). The four settings of `life_safety` are: nothing fails, with three
restarts, enough for a process that starts, finalizes and forks, in any order; any call
but `C_GetTokenInfo` may fail; `C_GetTokenInfo` may fail with a token of an earlier run;
and there is a token whose label begins with KMS.
`deployment` bounds nothing in a guard. Its casts are two scripts whose users'
names begin alike, with a run that uses the token; two scripts with a common
transfer role; three runs on two stores with one thread; two runs with two threads; and
for each faulty installation two threads. Three runs let a third be refused by the
lock, or find a certificate, while the pair of the first two is torn.

Fairness. Safety runs assume none. `KmsFairSpec` assumes weak fairness of the
thread that holds the lock: the operating system runs it, the token returns, and
each HTTPS request is answered or fails. The last is an assumption on the
network, since `curl.cpp` sets no timeout. Nothing is assumed of the lock, so no
claim is made that a waiting thread gets it. `TokenLifeFairness` assumes that a thread
which can take a step of its load takes it (with one thread that loads, the lock is
never contended), and that the handler of a fork runs on.

Deadlock is checked in the runs of `KeyAgent`, `KmsNpm`, `Apimodule` and `KeyCache`;
an agent or API module whose process has died stutters. It is not checked in those of
`TokenLife` and `Deployment`, where all may be over: the restarts are
used up and the processes have ended, or a child is stuck with a lock nobody holds; the
scripts and runs have ended.

## 4. What is proved

`KeyAgentProofs`, for any threads, urls, NPMs, STMs, sessions and keys, from
`KeyAgentAssumption` alone (the two placeholders are not values of their sets,
`Malformed` and `Supports` have their types, `MaxSessions` is a natural number):

| theorem | says |
|---|---|
| `Typing` | `TypeOK`: among the rest, no table points to an object that was not allocated |
| `MutualExclusion` | `OneLoadAtATime` |
| `CurrentSessions`, `OneSessionPerStm` | `AnnouncedSessionIsCurrent`, and that no STM is announced twice |
| `AtMostOneDelivery`, `ResultsTellDelivery`, `AbortsFollowRefusals` | the three delivery properties |
| `LoaderRefinement` | `LoaderSpec`: every step is a step of `KeyLoader` or a stutter |

The argument. `TypeOK` is inductive by itself, and so are `OneLoadAtATime` and
`AnnouncedSessionIsCurrent` on top of it; the hard step is `session_create`,
which moves three tables at once, so it has lemmas of its own. The delivery
properties are not inductive: that a load which is still searching has not
delivered, that a dangling error implies a cached key, and that a waiting load
has not met an NPM yet, have to come with them. `DeliveryInv` adds these; it
needs `OneLoadAtATime` (only the holder delivers) and the lemma `NextKeepsKeys` (a
cached key is still there at the end, as the code stands: see `kms_retired`). The refinement maps `asked`, `answer` and `known` to
functions of `call` and `key_hash`; steps inside a load are stutters
(`InsideLoadStutters`), and the five visible ones are shown each to be one step
of `KeyLoader`, with `DeliveryInv` supplying their guards.

`KmsNpmProofs`, from `KeyAgentAssumption` and `KmsAssumption` (the KMS NPM is the only
one, STMs are challenge types, the two placeholders are not values of their sets):

| theorem | says |
|---|---|
| `KmsIsAgent` | `KmsSpec => Spec`: the agent under the KMS NPM is the agent of `KeyAgent`, so all of the above holds of it |
| `KmsTyping` | `KmsTypeOK` |
| `AnnouncedWereOpened`, `OfferedKeysUnwrap`, `TwoQuotesAtMost`, `FailuresExplained` | the four safety properties of `kms_safety` |

The argument. `KmsInv` joins the invariants of the agent with `ThreadInv`, five
statements on what a thread's place in the NPM says of its stack
(`ControlInv`), of the challenge it answers (`ChallengeInv`: it is nobody
else's and is not announced yet), of the key it loads (`SearchInv`), of its
tries (`QuotesInv`) and of the error it will report (`ExplainedInv`), and with
`UnwrapInv`: an STM's current session is the last its token unwrapped, or none
it did. Since only the holder of the lock moves the tables or has the KBS do
something, a step of another thread leaves `ThreadInv` alone
(`OthersUndisturbed`, `UndisturbedThread`); its own steps are taken one by one
(`AgentStepThread`, `NpmStepThread`). That a session is started as a new object
(`Started`) is what makes `UnwrapInv` inductive.

`ApimoduleProofs`, from `ApimoduleAssumption` (types of the constants, the
placeholders outside their sets):

| theorem | says |
|---|---|
| `ApiTyping` | `ApimoduleTypeOK` |
| `TokenCreatedOnce` | `InitialisedOnce` |
| `KeysPreloadedOnce` | `PreloadedOnce` |

The argument. That the token is created once needs to know that a thread which is
about to create it holds the agent's lock and that there still is no token. So
`ApiInv` says for every place of a load (`PlaceOK`) who holds the lock, that only
a load with `create` is in `apimodule_createtoken`, that the token is missing
before `inittoken` and present after, and which entries of the table there are;
the last is what typing needs, for the callbacks index the table. A step of one thread
leaves the place of another alone if it does not create the token without the
lock or shorten the table (`OthersStay`); with this, `ThreadStep`, `QuietStep`
and `HeldStep` reduce each action to what it does to its own thread, and
`NoTokenStep`, `TokenCallStep`, `SessionCallStep`, `LogoutCallStep` do so once
for each shape of PKCS#11 call.

`ApimoduleSessionProofs`, from `ApimoduleAssumption` and `FiniteAssumption` (the threads
and the uris are finitely many, for they are counted); the last three suppose
what the run `api_search` supposes, that a PKCS#11 call fails only for a reason in
the token's state (`~TokenMayFail`), and `TokenHasPin` that there is a session to be had
(`Handles # {}`: otherwise `C_OpenSession` fails between `C_InitToken` and
`C_InitPIN`, and the token is left without a pin):

| theorem | says |
|---|---|
| `TokensBounded` | `OneTokenPerThread` |
| `TokenUsable` | `CachedTokenUsable` |
| `WrappingKeyAgreement` | `WrappingKeysAgree` |
| `SuccessIsReal` | `SuccessHasObject` |
| `SearchesAreEnded` | `SearchesEnd` |
| `KeysLoadedOnce` | `LoadedOnce` |
| `TokenHasPin` | `TokenKeepsPin` |

The argument. `SessionInv` says what the token is like while a thread is where `ApiInv`
says it is. `CountInv`: entries and threads that open the token are together no more
than the threads, since caching an entry is leaving the open and nobody begins one
when there is an entry. `OnceInv`: if the token was opened once, its one opener is alone
with it (`Alone`): no entry, no known key, no challenge out, nobody else logged in; so
a logout or `C_Finalize` of its own takes nothing from anybody, and the entry it caches is
usable. From then on nothing opens or logs out (`Calm`), so the entry stays so. `WrapInv`:
a key pair is new, so its number is no wrapping key's until its challenge is
answered; that the challenge handed out belongs to the pair needs `OnceInv` again, for
the entry of the caller and that of `sgx_get_challenge` are looked up separately.
`SuccessInv` and `CopiesInv` relate the agent's known keys to what is in the token; in
the latter a load that has searched in vain (`Past`) and an RSA key that was in the token
before exclude each other, which is why the search may come before the lock. A thread
whose open fails goes on to the agent without having searched: then no thread
opens the token any more, and no challenge is answered unless it is opened a second time
(`Dead`). Each step of an open is
reduced to `OpeningKeeps`, each failing one to `GivesUpKeeps`, and the rest to
`QuietKeeps` or, for callbacks that move keys, to `CalmKeeps`, `HeldLibrary` and
`HeldKeyless`.

`KeyCacheProofs`, from `KeyCacheAssumption`:

| theorem | says |
|---|---|
| `CacheTyping` | `CacheTypeOK` |
| `StoredKeysAreWhole` | `StoredMeansWhole`, for any failures and interleavings |
| `WholeRsaKeysStay`, `LoadsRepair` | `WholeKeysStay`, `LoadRepairs` |

The argument. `CacheInv` adds to the types that ids in memory were handed out, that
a process which loads has every RSA row without data still before it or in its
delete list and no whole one in that list, that loading and storing do not
overlap and no statement fails unless it is remembered, and that a row being undone
is gone already. Ids
only grow, so a deleted id never comes back as another key's; this is what the
foreign keys and AUTOINCREMENT of `cache-init.cpp:77` are needed for.

`TokenLifeProofs`, for any processes, keys, sessions and settings (whatever fails, with any
number of tokens and restarts), from `TokenLifeAssumption`:

| theorem | says |
|---|---|
| `TokenLifeTypes` | `TokenLifeTypeOK`, with the holder of the agent's lock |
| `SessionsReady` | `TableSessionReady` |
| `SuccessSeen` | `SuccessIsSeen` |
| `SuccessUsable` | `SuccessMeansUsable` |
| `TokensMadeOnce` | `OneTokenEach` |

The argument. `TokenLifeInv` says the same of each process, of its record, its library and
the slots (`Good`). `Control`: a process that opens the token has no entry in its table,
and one without an entry knows no key, so opening, which logs out and drops session
objects, takes nothing away. `Table`: the entry's session, if it is the process's own, is
logged in on a slot that matches, and every key handed to this library is there; if no
call fails by itself, all known keys were handed to the library that opened the token.
`Progress`: a load past its search has left none in the session. The slots only gain
(`Gains`): a token is only made of the blank last slot, where nobody is logged in, so no
process disturbs another (`GoodGains`, `Step`). `MadeOnce`: if a process is about to
make a token it has made none, because a token once made is found (`Found`, by the
least slot of `Least`) by every look at the slots.

`DeploymentProofs`, for any casts, scripts, users, runs, stores, threads and modes, from
`CreateRolesAssumption`, `CredentialAgentAssumption`, `AgentInitAssumption` and
`DeploymentAssumption` (types of the constants, the placeholders outside their sets):

| theorem | says |
|---|---|
| `DeploymentTypes` | `DeploymentTypeOK`, with the lock of the credential agent |
| `TokensEntitle` | `TokenMeansEntitled` |
| `PairsMatch` | `IssuedPairMatches` |
| `CallersAgree` | `AnswersAgree` |
| `LoadsPresentPairs` | `LoadPresentsPair` |

The argument. `DeploymentInv` is the conjunction of one invariant for each part, and a
step of one part leaves the invariants of the others alone, but for the loads.
`RolesInv`: a script knows only its own user's id and a role that AAS has and whose
name begins with the user's; AAS only gains (`RolesKept`), and the mapping succeeds
only with both ids. `CredentialInv`: who is at a command holds the lock, so one run is;
`PairInv` says for its place which of key, request, answer, certificate and
key-agent.ini are its own. `AgentInv`: one thread at most is in `apimodule_init`
(`OnceInv`), and what it has done by each step (`DoneInv`); `Within` and `Outside` reduce
a step to what it does to the statics. `LoadInv` is where the parts meet: the paths
do not change after the once-flag is done, and if no run has begun since the certificate
was read in a calm store, none is under way, so the key is still that of the certificate
(`ToolLoads`).

Only model-checked: the three liveness properties `HolderReturns`, `LoadsEnd` and
`ForksReturn` (fairness is out of the prover's reach), and the three properties that
are violated. Every safety and action property that a passing run checks, and the
refinement of `KeyLoader`, is a theorem.

## Not modelled

- Configuration files, shared types, logging, packaging, tests, the SafeString headers:
  no state of their own; see `components` in `PROJECT.json`.
- Uris: every uri is well-formed or not; how one is split, with its length limits, is
  data here. Names, messages and buffers are values of small sets.
- The modes SW and HSM of the API module: `AgentInit` shows that without an STM of the
  mode no process gets as far as to use them.
- In `KeyAgent` the calls into the local cache, as with the default configuration, and
  with them the errors the cache may set. In `KeyCache` the table of sessions, and
  `__keyagent_uncache_key`, which no removal of a key reaches.
- A child forked while a thread is in `apimodule_init` inherits a busy once-flag: its own
  `C_GetFunctionList` would wait for ever. `AgentInit` does not follow the child.
- `update_agent_config` of the credential agent, which nothing calls; the proxy and
  the other services behind AAS and CMS.

## Plan

Done: `KeyLoader`, `KeyAgent`, `KmsNpm`, `Apimodule`, `KeyCache`, `TokenLife`,
`CreateRoles`, `CredentialAgent`, `AgentInit`, `Deployment`, and proofs of all of them.
What would come next:

1. `SkcLibrary`: `KmsNpm` and `Apimodule` composed, each step of the callbacks the
   conjunction of both sides; `Apimodule`'s reduced agent refined by the real one.
2. `KeyCache`: the table of sessions; an abstract store (a url is stored or not)
   that it implements.
3. Uri splitting as an operator with its length limits.
