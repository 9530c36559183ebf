--------------------------- MODULE CredentialAgent ---------------------------
(***************************************************************************)
(* The credential agent: runs of credential_agent_tool, some of them by    *)
(* credential_agent_init, that make a key, have a certificate issued for   *)
(* it and tell the key agent where the two are.  One step is one command   *)
(* of the shell, and the files are seen by others between any two.         *)
(*                                                                         *)
(* A key and its certificate are known by the run that made the key.       *)
(***************************************************************************)
CONSTANTS
  Runs,      \* runs of the tool
  Stores,    \* store directories
  Earlier,   \* the pair of a run of long ago
  Absent,    \* no file
  Damaged    \* a file that is not whole, or not a key or certificate

ASSUME CredentialAgentAssumption ==
  /\ {Earlier, Absent, Damaged} \cap Runs = {}
  /\ Earlier # Absent /\ Earlier # Damaged /\ Absent # Damaged

VARIABLES
  args,        \* per run: its store, --force, and whether credential_agent_init runs it
  files,       \* per store: the files certificate_key and certificate
  request,     \* the files all runs share: the request, and CMS's answer
  conf,        \* the stores key-agent.ini names for certificate and certificate_key
  lock,        \* the runs that hold the lock
  run,         \* per run: the command it is at, and how it ended
  appended,    \* the runs after which the intermediate CA was added to ca_cert
  generator,   \* history: per store, whose key it has
  named_by     \* history: who wrote key-agent.ini last

agentVars == <<args, files, request, conf, lock, run, appended, generator, named_by>>

-----------------------------------------------------------------------------
Owners == Runs \cup {Earlier}

Contents == Owners \cup {Absent, Damaged}

Args == [store : Stores, force : BOOLEAN, init : BOOLEAN]

Commands == {"genrsa", "x509", "curl", "truncate", "write", "conf_certificate",
             "conf_key"}

\* How a run ended; an openssl that fails ends it with exit 0.
Ends == {"issued", "present", "openssl", "locked", "failed", "killed"}

ExitsZero(end) == end \in {"issued", "present", "openssl"}

CredentialTypeOK ==
  /\ args \in [Runs -> Args]
  /\ files \in [Stores -> [certificate_key : Contents, certificate : Contents]]
  /\ request \in [csr : Contents, answer : Contents]
  /\ conf \in [certificate : Stores, certificate_key : Stores]
  /\ lock \in SUBSET Runs /\ \A q, r \in lock : q = r
  /\ run \in [Runs -> {"new"} \cup Commands \cup Ends]
  /\ appended \in SUBSET Runs
  /\ generator \in [Stores -> Owners \cup {Absent}]
  /\ named_by \in Owners

\* The stores have the pair of an earlier run, or nothing.
CredentialInit ==
  /\ files \in [Stores -> {[certificate_key |-> c, certificate |-> c] :
                           c \in {Earlier, Absent}}]
  /\ generator = [s \in Stores |-> files[s].certificate_key]
  /\ request = [csr |-> Absent, answer |-> Absent]
  /\ \E s \in Stores : conf = [certificate |-> s, certificate_key |-> s]
  /\ lock = {}
  /\ run = [r \in Runs |-> "new"]
  /\ appended = {}
  /\ named_by = Earlier

-----------------------------------------------------------------------------
(* credential_agent_tool. *)

Store(r) == args[r].store

Forced(r) == args[r].force \/ args[r].init

At(r, command) == run[r] = command

GoesTo(r, where) == run' = [run EXCEPT ![r] = where]

\* The run ends, and its lock with it.
Finishes(r, end) == GoesTo(r, end) /\ lock' = lock \ {r}

\* Variant: the lock is one that runs share.
refused_lock_shared(r) == FALSE

\* Variant: a lock for each store.
refused_lock_by_store(r) == \E q \in lock : Store(q) = Store(r)

\* flock -n
refused_lock(r) == lock # {}

start(r) ==
  /\ At(r, "new")
  /\ IF refused_lock(r) THEN GoesTo(r, "locked") /\ UNCHANGED lock
     ELSE IF files[Store(r)].certificate # Absent /\ ~Forced(r)
          THEN Finishes(r, "present")
          ELSE GoesTo(r, "genrsa") /\ lock' = lock \cup {r}
  /\ UNCHANGED <<args, files, request, conf, appended, generator, named_by>>

\* An openssl command has failed.  The signal that ends the run waits until the rest
\* of gen_and_get_csr_buf is done, which may still make a request for the key that
\* is in the file.
openssl_failed(r, key) ==
  /\ Finishes(r, "openssl")
  /\ request' \in {request} \cup {[request EXCEPT !.csr = k] : k \in {key} \cap Owners}

\* The key in use is overwritten first of all, or cannot be.
genrsa(r) ==
  /\ At(r, "genrsa")
  /\ \/ /\ \/ /\ files' = [files EXCEPT ![Store(r)].certificate_key = r]
              /\ GoesTo(r, "x509") /\ UNCHANGED <<lock, request>>
           \/ /\ files' = [files EXCEPT ![Store(r)].certificate_key = Damaged]
              /\ openssl_failed(r, Damaged)
        /\ generator' = [generator EXCEPT ![Store(r)] = r]
     \/ /\ openssl_failed(r, files[Store(r)].certificate_key)
        /\ UNCHANGED <<files, generator>>
  /\ UNCHANGED <<args, conf, appended, named_by>>

\* req and x509toreq: a request for the key that is now in the file.
make_csr(r) ==
  /\ At(r, "x509")
  /\ \/ /\ request' = [request EXCEPT !.csr = files[Store(r)].certificate_key]
        /\ GoesTo(r, "curl") /\ UNCHANGED lock
     \/ openssl_failed(r, files[Store(r)].certificate_key)
  /\ UNCHANGED <<args, files, conf, appended, generator, named_by>>

\* CMS issues a certificate, or curl fails, or the answer is not a certificate.
issue_certificate(r, approved) ==
  /\ At(r, "curl")
  /\ \/ /\ approved
        /\ request' = [request EXCEPT !.answer = request.csr]
        /\ GoesTo(r, "truncate") /\ UNCHANGED lock
     \/ /\ request' = [request EXCEPT !.answer = Damaged]
        /\ Finishes(r, "failed")
  /\ UNCHANGED <<args, files, conf, appended, generator, named_by>>

\* The shell opens $certificate before sed has read the answer.
truncate_certificate(r) ==
  /\ At(r, "truncate")
  /\ files' = [files EXCEPT ![Store(r)].certificate = Damaged]
  /\ GoesTo(r, "write")
  /\ UNCHANGED <<args, request, conf, lock, appended, generator, named_by>>

write_certificate(r) ==
  /\ At(r, "write")
  /\ files' = [files EXCEPT ![Store(r)].certificate = request.answer]
  /\ GoesTo(r, "conf_certificate")
  /\ UNCHANGED <<args, request, conf, lock, appended, generator, named_by>>

\* update_keyagent_conf, one sed after the other.  sed -i replaces the file at once.
update_certificate(r) ==
  /\ At(r, "conf_certificate")
  /\ \/ /\ conf' = [conf EXCEPT !.certificate = Store(r)]
        /\ named_by' = r
        /\ GoesTo(r, "conf_key") /\ UNCHANGED lock
     \/ /\ Finishes(r, "failed")
        /\ UNCHANGED <<conf, named_by>>
  /\ UNCHANGED <<args, files, request, appended, generator>>

update_certificate_key(r) ==
  /\ At(r, "conf_key")
  /\ \/ /\ conf' = [conf EXCEPT !.certificate_key = Store(r)]
        /\ Finishes(r, "issued")
     \/ /\ Finishes(r, "failed")
        /\ UNCHANGED conf
  /\ UNCHANGED <<args, files, request, appended, generator, named_by>>

\* A signal, or the machine goes down.
killed(r) ==
  /\ run[r] \in Commands
  /\ Finishes(r, "killed")
  /\ UNCHANGED <<args, files, request, conf, appended, generator, named_by>>

\* credential_agent_init goes on after a tool that exits 0; it adds the intermediate
\* CA again each time, if CMS sends one.
add_intermediate_ca(r) ==
  /\ args[r].init /\ ExitsZero(run[r]) /\ r \notin appended
  /\ appended' = appended \cup {r}
  /\ UNCHANGED <<args, files, request, conf, lock, run, generator, named_by>>

CredentialNext(r, approved) ==
  \/ start(r) \/ genrsa(r) \/ make_csr(r) \/ issue_certificate(r, approved)
  \/ truncate_certificate(r) \/ write_certificate(r)
  \/ update_certificate(r) \/ update_certificate_key(r)
  \/ killed(r) \/ add_intermediate_ca(r)

-----------------------------------------------------------------------------
\* The run has done all it was started for.
Issued(r) == r = Earlier \/ (r \in Runs /\ run[r] = "issued")

\* Who made the last key of store s has also had its certificate issued.
Settled(s) == generator[s] \in Owners /\ Issued(generator[s])

(* Runs start whenever they like, of one store or two, and end or die at   *)
(* any command; they share the files of the request.  A store whose last   *)
(* key was made by a run that reached its end has this key and the         *)
(* certificate for it, and key-agent.ini, if such a run was the last to    *)
(* write it, names one store for both.  After any other run the pair may   *)
(* not match, also when the tool has exited with 0.                        *)
IssuedPairMatches ==
  /\ \A s \in {q \in Stores : Settled(q)} :
       files[s] = [certificate_key |-> generator[s], certificate |-> generator[s]]
  /\ Issued(named_by) => conf.certificate = conf.certificate_key

=============================================================================
