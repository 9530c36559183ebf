-------------------------- MODULE DeploymentProofs --------------------------
(***************************************************************************)
(* Proofs about Deployment, for every set of scripts, runs, stores and     *)
(* threads and every cast: what a printed token is worth, that key and     *)
(* certificate match, that callers get one answer, and that a load         *)
(* presents a pair.                                                        *)
(***************************************************************************)
EXTENDS Deployment, TLAPS

USE CreateRolesAssumption, CredentialAgentAssumption, AgentInitAssumption,
    DeploymentAssumption

-----------------------------------------------------------------------------
(* The scripts. *)

\* The token, or the roles, have a role of each kind that AAS still has.
Worth(token, i) ==
  /\ token \cap TransferRoles # {}
  /\ \E v \in Begins[SKC_USER[i]] : CertApprover(v) \in token /\ CertApprover(v) \in aas.roles

\* A script knows its own user, and a role that begins with its name; it asks for the
\* token of a user that has got both roles.
ScriptInv(i) ==
  /\ script[i].user_id \in {NoId, SKC_USER[i]}
  /\ script[i].cms_role_id # NoRole =>
       \E v \in Begins[SKC_USER[i]] :
         script[i].cms_role_id = CertApprover(v) /\ CertApprover(v) \in aas.roles
  /\ script[i].pc = "get_token" => Worth(aas.granted[SKC_USER[i]], i)
  /\ script[i].pc = "printed" => Worth(script[i].token, i)

RolesInv == RolesTypeOK /\ \A i \in Scripts : ScriptInv(i)

LEMMA InitRoles == RolesInit => RolesInv
  <1> SUFFICES ASSUME RolesInit  PROVE RolesInv
    OBVIOUS
  <1>1. script \in [Scripts -> Script]
    BY DEF RolesInit, Script, Calls
  <1>2. aas \in [users : SUBSET Users, roles : SUBSET Roles, granted : [Users -> SUBSET Roles]]
    BY DEF RolesInit
  <1>3. \A i \in Scripts : ScriptInv(i)
    BY DEF RolesInit, ScriptInv
  <1> QED BY <1>1, <1>2, <1>3 DEF RolesInv, RolesTypeOK

\* No role that AAS has is NoRole.
LEMMA NoRoleIsNone == NoRole \notin Roles
  BY DEF NoRole, Roles, CertRoles, TransferRoles, CertApprover, KeyTransfer

\* AAS only gains, so the other scripts keep what they have.
LEMMA RolesKept ==
  ASSUME RolesInv, RolesTypeOK', NEW i \in Scripts, NEW s,
         script' = [script EXCEPT ![i] = s],
         aas.roles \subseteq aas'.roles,
         \A u \in Users : aas.granted[u] \subseteq aas'.granted[u],
         ScriptInv(i)'
  PROVE  RolesInv'
  <1> SUFFICES ASSUME NEW j \in Scripts, j # i  PROVE ScriptInv(j)'
    BY DEF RolesInv
  <1>1. script'[j] = script[j]
    BY DEF RolesInv, RolesTypeOK
  <1>2. ScriptInv(j) /\ SKC_USER[j] \in Users
    BY DEF RolesInv
  <1>3. aas.granted[SKC_USER[j]] \subseteq aas'.granted[SKC_USER[j]]
    BY <1>2
  <1>4. \A t, w : t \subseteq w /\ Worth(t, j) => Worth(w, j)'
    BY DEF Worth
  <1> QED BY <1>1, <1>2, <1>3, <1>4 DEF ScriptInv

LEMMA StepRoles ==
  ASSUME RolesInv, NEW i \in Scripts, RolesNext(i)
  PROVE  RolesInv'
  <1> DEFINE u == SKC_USER[i]
             s == script[i]
  <1>0. /\ u \in Users /\ s \in Script /\ ScriptInv(i) /\ u \in Begins[u]
        /\ aas \in [users : SUBSET Users, roles : SUBSET Roles,
                    granted : [Users -> SUBSET Roles]]
        /\ script \in [Scripts -> Script]
        /\ Begins[u] \subseteq Users
    BY DEF RolesInv, RolesTypeOK
  \* A step that changes the script to q and leaves AAS alone, or adds to it.
  <1>1. ASSUME NEW q \in Script, script' = [script EXCEPT ![i] = q],
               aas' \in [users : SUBSET Users, roles : SUBSET Roles,
                         granted : [Users -> SUBSET Roles]],
               aas.roles \subseteq aas'.roles,
               \A v \in Users : aas.granted[v] \subseteq aas'.granted[v],
               q.user_id \in {NoId, u},
               q.cms_role_id # NoRole =>
                 \E v \in Begins[u] :
                   q.cms_role_id = CertApprover(v) /\ CertApprover(v) \in aas'.roles,
               q.pc = "get_token" => Worth(aas.granted[u], i)',
               q.pc = "printed" => Worth(q.token, i)'
        PROVE  RolesInv'
    <2>1. script' \in [Scripts -> Script] /\ script'[i] = q
      BY <1>0, <1>1
    <2>2. RolesTypeOK'
      BY <1>1, <2>1 DEF RolesTypeOK
    <2>3. ScriptInv(i)'
      BY <1>1, <2>1 DEF ScriptInv
    <2> QED BY <1>1, <2>2, <2>3, RolesKept
  \* The script ends with what it has.
  <1>f. ASSUME Goes(i, [script[i] EXCEPT !.pc = "failed"]),
               aas' \in [users : SUBSET Users, roles : SUBSET Roles,
                         granted : [Users -> SUBSET Roles]],
               aas.roles \subseteq aas'.roles,
               \A v \in Users : aas.granted[v] \subseteq aas'.granted[v]
        PROVE  RolesInv'
    <2> DEFINE q == [s EXCEPT !.pc = "failed"]
    <2>1. /\ q \in Script /\ q.pc = "failed" /\ q.user_id = s.user_id
          /\ q.cms_role_id = s.cms_role_id /\ script' = [script EXCEPT ![i] = q]
      BY <1>0, <1>f DEF Script, Goes
    <2> HIDE DEF q
    <2> QED BY <1>0, <1>1, <1>f, <2>1 DEF ScriptInv
  <1>2. CASE find_user(i)
    BY <1>0, <1>1, <1>2 DEF find_user, Goes, Calling, ScriptInv, Script, Calls
  <1>3. CASE make_user(i)
    <2> DEFINE q == [s EXCEPT !.pc = "find_cert", !.user_id = u]
    <2>1. aas' = [aas EXCEPT !.users = @ \cup {u}] /\ Posted(i, q)
      BY <1>3 DEF make_user
    <2>2. /\ aas' \in [users : SUBSET Users, roles : SUBSET Roles,
                       granted : [Users -> SUBSET Roles]]
          /\ aas.roles \subseteq aas'.roles
          /\ \A v \in Users : aas.granted[v] \subseteq aas'.granted[v]
      BY <1>0, <2>1
    <2>3. CASE Goes(i, [s EXCEPT !.pc = "failed"])
      BY <1>f, <2>2, <2>3
    <2>4. CASE Goes(i, q)
      <3>1. /\ q \in Script /\ script' = [script EXCEPT ![i] = q]
            /\ q.pc = "find_cert" /\ q.user_id = u /\ q.cms_role_id = s.cms_role_id
        BY <1>0, <2>1, <2>4 DEF Script, Calls, Goes, CertRoles, TransferRoles
      <3> HIDE DEF q
      <3> QED BY <1>0, <1>1, <2>1, <2>2, <3>1 DEF ScriptInv, Worth
    <2> QED BY <2>1, <2>3, <2>4 DEF Posted
  <1>4. CASE find_cert(i)
    <2>1. /\ aas' = aas
          /\ \/ \E r \in aas.roles \cap cert_roles_of(u) :
                  Goes(i, [s EXCEPT !.pc = "find_transfer", !.cms_role_id = r])
             \/ Goes(i, [s EXCEPT !.pc = "make_cert"])
             \/ Goes(i, [s EXCEPT !.pc = "find_transfer"])
      BY <1>4 DEF find_cert
    <2>2. CASE Goes(i, [s EXCEPT !.pc = "make_cert"]) \/ Goes(i, [s EXCEPT !.pc = "find_transfer"])
      <3>1. PICK q : /\ q \in {[s EXCEPT !.pc = "make_cert"], [s EXCEPT !.pc = "find_transfer"]}
                     /\ script' = [script EXCEPT ![i] = q]
        BY <2>2 DEF Goes
      <3>2. /\ q \in Script /\ q.pc \in {"make_cert", "find_transfer"}
            /\ q.user_id = s.user_id /\ q.cms_role_id = s.cms_role_id
        BY <1>0, <3>1 DEF Script, Calls
      <3> QED BY <1>0, <1>1, <2>1, <3>1, <3>2 DEF ScriptInv
    <2>3. ASSUME NEW r \in aas.roles \cap cert_roles_of(u),
                 Goes(i, [s EXCEPT !.pc = "find_transfer", !.cms_role_id = r])
          PROVE  RolesInv'
      <3> DEFINE q == [s EXCEPT !.pc = "find_transfer", !.cms_role_id = r]
      <3>1. PICK v \in Begins[u] : r = CertApprover(v)
        BY <2>3 DEF cert_roles_of
      <3>2. /\ q \in Script /\ q.pc = "find_transfer" /\ q.user_id = s.user_id
            /\ q.cms_role_id = r /\ script' = [script EXCEPT ![i] = q]
        BY <1>0, <2>3, <3>1 DEF Script, Calls, Goes, CertRoles
      <3> HIDE DEF q
      <3>3. /\ q.cms_role_id = CertApprover(v) /\ CertApprover(v) \in aas'.roles
            /\ q.user_id \in {NoId, u}
        BY <1>0, <2>1, <2>3, <3>1, <3>2 DEF ScriptInv
      <3> QED BY <1>0, <1>1, <2>1, <3>1, <3>2, <3>3
    <2> QED BY <2>1, <2>2, <2>3
  <1>5. CASE make_cert(i)
    <2> DEFINE q == [s EXCEPT !.pc = "find_transfer", !.cms_role_id = CertApprover(u)]
    <2>1. aas' = [aas EXCEPT !.roles = @ \cup {CertApprover(u)}] /\ Posted(i, q)
      BY <1>5 DEF make_cert
    <2>2. /\ aas' \in [users : SUBSET Users, roles : SUBSET Roles,
                       granted : [Users -> SUBSET Roles]]
          /\ aas.roles \subseteq aas'.roles
          /\ \A v \in Users : aas.granted[v] \subseteq aas'.granted[v] /\ CertApprover(u) \in aas'.roles
      BY <1>0, <2>1 DEF Roles, CertRoles
    <2>3. CASE Goes(i, [s EXCEPT !.pc = "failed"])
      BY <1>f, <2>2, <2>3
    <2>4. CASE Goes(i, q)
      <3>1. /\ q \in Script /\ script' = [script EXCEPT ![i] = q]
            /\ q.pc = "find_transfer" /\ q.user_id = s.user_id /\ q.cms_role_id = CertApprover(u)
        BY <1>0, <2>1, <2>4 DEF Script, Calls, Goes, CertRoles, TransferRoles
      <3> HIDE DEF q
      <3> QED BY <1>0, <1>1, <2>1, <2>2, <3>1 DEF ScriptInv, Worth
    <2> QED BY <2>1, <2>3, <2>4 DEF Posted
  <1>6. CASE find_transfer(i)
    BY <1>0, <1>1, <1>6 DEF find_transfer, Goes, Calling, ScriptInv, Script, Calls
  <1>7. CASE make_transfer(i)
    <2> DEFINE q == [s EXCEPT !.pc = "map_roles", !.kbs_role_id = KeyTransfer(PERMISSION[i])]
    <2>1. aas' = [aas EXCEPT !.roles = @ \cup {KeyTransfer(PERMISSION[i])}] /\ Posted(i, q)
      BY <1>7 DEF make_transfer
    <2>2. /\ aas' \in [users : SUBSET Users, roles : SUBSET Roles,
                       granted : [Users -> SUBSET Roles]]
          /\ aas.roles \subseteq aas'.roles
          /\ \A v \in Users : aas.granted[v] \subseteq aas'.granted[v]
      BY <1>0, <2>1 DEF Roles, TransferRoles
    <2>3. CASE Goes(i, [s EXCEPT !.pc = "failed"])
      BY <1>f, <2>2, <2>3
    <2>4. CASE Goes(i, q)
      <3>1. /\ q \in Script /\ script' = [script EXCEPT ![i] = q]
            /\ q.pc = "map_roles" /\ q.user_id = s.user_id /\ q.cms_role_id = s.cms_role_id
        BY <1>0, <2>1, <2>4 DEF Script, Calls, Goes, CertRoles, TransferRoles
      <3> HIDE DEF q
      <3> QED BY <1>0, <1>1, <2>1, <2>2, <3>1 DEF ScriptInv, Worth
    <2> QED BY <2>1, <2>3, <2>4 DEF Posted
  <1>8. CASE map_roles(i)
    <2> DEFINE q == [s EXCEPT !.pc = "get_token"]
    <2>1. /\ s.user_id # NoId /\ {s.cms_role_id, s.kbs_role_id} \subseteq aas.roles
          /\ aas' = [aas EXCEPT !.granted[s.user_id] = @ \cup {s.cms_role_id, s.kbs_role_id}]
          /\ Posted(i, q)
      BY <1>8 DEF map_roles
    <2>2. /\ aas' \in [users : SUBSET Users, roles : SUBSET Roles,
                       granted : [Users -> SUBSET Roles]]
          /\ aas.roles \subseteq aas'.roles
          /\ \A v \in Users : aas.granted[v] \subseteq aas'.granted[v]
          /\ s.cms_role_id \in aas'.granted[u] /\ s.kbs_role_id \in aas'.granted[u]
      BY <1>0, <2>1, NoRoleIsNone DEF ScriptInv
    <2>3. CASE Goes(i, [s EXCEPT !.pc = "failed"])
      BY <1>f, <2>2, <2>3
    <2>4. CASE Goes(i, q)
      <3>1. /\ q \in Script /\ script' = [script EXCEPT ![i] = q]
            /\ q.pc = "get_token" /\ q.user_id = s.user_id /\ q.cms_role_id = s.cms_role_id
        BY <1>0, <2>1, <2>4 DEF Script, Calls, Goes
      <3>4. s.cms_role_id # NoRole /\ s.kbs_role_id \in TransferRoles
        BY <1>0, <2>1, NoRoleIsNone DEF Script
      <3> HIDE DEF q
      <3>2. Worth(aas.granted[u], i)'
        BY <1>0, <2>1, <2>2, <3>1, <3>4 DEF ScriptInv, Worth
      <3>3. q.user_id \in {NoId, u} /\ aas'.roles = aas.roles
        BY <1>0, <2>1, <3>1 DEF ScriptInv
      <3> QED BY <1>0, <1>1, <2>2, <3>1, <3>2, <3>3 DEF ScriptInv
    <2> QED BY <2>1, <2>3, <2>4 DEF Posted
  <1>9. CASE get_token(i)
    BY <1>0, <1>1, <1>9 DEF get_token, Goes, Calling, ScriptInv, Script, Calls, Worth
  <1>10. CASE request_fails(i)
    BY <1>0, <1>f, <1>10 DEF request_fails
  <1> QED BY <1>2, <1>3, <1>4, <1>5, <1>6, <1>7, <1>8, <1>9, <1>10 DEF RolesNext

\* A token that is worth something entitles, or the role is another's.
LEMMA WorthEntitles == RolesInv => TokenMeansEntitled
  BY DEF RolesInv, ScriptInv, TokenMeansEntitled, Worth, Printed, Approves

-----------------------------------------------------------------------------
(* The credential agent. *)

\* Who is at a command holds the lock.
LockInv == \A r \in Runs : run[r] \in Commands => r \in lock

\* A run that has made its key is the store's, and what it has got since is for it.
PairInv ==
  /\ \A r \in Runs :
       /\ run[r] \in Commands \ {"genrsa"} =>
            generator[Store(r)] = r /\ files[Store(r)].certificate_key = r
       /\ run[r] = "curl" => request.csr = r
       /\ run[r] \in {"truncate", "write"} => request.answer = r
       /\ run[r] \in {"conf_certificate", "conf_key"} => files[Store(r)].certificate = r
       /\ run[r] = "conf_key" => conf.certificate = Store(r) /\ named_by = r
  /\ \A s \in Stores : generator[s] \in Runs => Store(generator[s]) = s

CredentialInv == CredentialTypeOK /\ LockInv /\ PairInv /\ IssuedPairMatches

LEMMA InitCredential ==
  ASSUME CredentialInit, args \in [Runs -> Args]
  PROVE  CredentialInv
  <1>1. PICK p \in [Stores -> {Earlier, Absent}] :
          files = [s \in Stores |-> [certificate_key |-> p[s], certificate |-> p[s]]]
    <2> DEFINE p == [s \in Stores |-> files[s].certificate_key]
    <2>1. \A s \in Stores : \E c \in {Earlier, Absent} :
            files[s] = [certificate_key |-> c, certificate |-> c]
      BY DEF CredentialInit
    <2>2. p \in [Stores -> {Earlier, Absent}]
      BY <2>1
    <2>3. files = [s \in Stores |-> [certificate_key |-> p[s], certificate |-> p[s]]]
      BY <2>1 DEF CredentialInit
    <2> QED BY <2>2, <2>3
  <1>2. generator = p
    BY <1>1 DEF CredentialInit
  <1>3. CredentialTypeOK
    BY <1>1, <1>2 DEF CredentialInit, CredentialTypeOK, Contents, Owners
  <1>4. LockInv /\ PairInv
    BY <1>1, <1>2 DEF CredentialInit, LockInv, PairInv, Commands
  <1>5. IssuedPairMatches
    BY <1>1, <1>2 DEF CredentialInit, IssuedPairMatches, Settled, Issued, Owners
  <1> QED BY <1>3, <1>4, <1>5 DEF CredentialInv

\* Only one run is at a command.
LEMMA StepCredential ==
  ASSUME CredentialInv, NEW r \in Runs, NEW approved, CredentialNext(r, approved)
  PROVE  CredentialInv'
  <1> USE DEF CredentialInv, CredentialTypeOK, At, GoesTo, Finishes
  <1>0. /\ Store(r) \in Stores /\ args' = args /\ \A q \in Runs : Store(q) = Store(q)'
        /\ \A q \in Runs : Store(q) \in Stores
    BY DEF CredentialNext, start, genrsa, make_csr, openssl_failed, issue_certificate, truncate_certificate,
           write_certificate, update_certificate, update_certificate_key, killed,
           add_intermediate_ca, Args, Store
  <1>a. \A q \in Runs : q # r /\ run[r] \in Commands => run[q] \notin Commands
    BY DEF LockInv
  <1>b. r \in Owners /\ r # Absent /\ r # Damaged /\ r # Earlier
    BY DEF Owners
  <1>1. CASE start(r)
    <2>1. CredentialTypeOK'
      <3>1. /\ run' \in [Runs -> {"new"} \cup Commands \cup Ends]
            /\ lock' \in SUBSET Runs /\ \A q, p \in lock' : q = p
        BY <1>1 DEF start, refused_lock, Commands, Ends
      <3> QED BY <1>0, <1>1, <3>1 DEF start
    <2>2. LockInv'
      BY <1>1 DEF start, LockInv, Commands
    <2>3. PairInv'
      BY <1>0, <1>a, <1>1 DEF start, PairInv, Commands
    <2>4. IssuedPairMatches'
      BY <1>0, <1>b, <1>1 DEF start, PairInv, Commands, IssuedPairMatches, Settled, Issued, Owners
    <2> QED BY <2>1, <2>2, <2>3, <2>4
  <1>2. CASE genrsa(r)
    <2>1. CredentialTypeOK'
      <3>1. /\ run' \in [Runs -> {"new"} \cup Commands \cup Ends]
            /\ lock' \in SUBSET Runs /\ \A q, p \in lock' : q = p
        BY <1>2 DEF genrsa, openssl_failed, Commands, Ends
      <3>2. r \in Contents /\ Damaged \in Contents
        BY <1>b DEF Contents
      <3>3. \/ generator' = [generator EXCEPT ![Store(r)] = r]
            \/ generator' = generator
        BY <1>2 DEF genrsa, openssl_failed
      <3>4. generator' \in [Stores -> Owners \cup {Absent}]
        <4>1. generator \in [Stores -> Owners \cup {Absent}] /\ r \in Owners \cup {Absent}
          BY <1>b
        <4> QED BY <3>3, <4>1
      <3>5. \E c \in Contents :
              \/ files' = [files EXCEPT ![Store(r)].certificate_key = c]
              \/ files' = files
        BY <1>2, <3>2 DEF genrsa, openssl_failed
      <3>6. files' \in [Stores -> [certificate_key : Contents, certificate : Contents]]
        BY <3>5
      <3>7. \/ request' = request
            \/ \E k \in Contents : request' = [request EXCEPT !.csr = k]
        BY <1>2 DEF genrsa, openssl_failed, Contents
      <3>8. request' \in [csr : Contents, answer : Contents]
        BY <3>7
      <3>9. UNCHANGED <<args, conf, appended, named_by>>
        BY <1>2 DEF genrsa
      <3> QED BY <3>1, <3>4, <3>6, <3>8, <3>9
    <2>2. LockInv'
      BY <1>2 DEF genrsa, openssl_failed, LockInv, Commands
    <2>3. PairInv'
      <3>1. /\ \A q \in Runs : q # r => run'[q] = run[q] /\ run[q] \notin Commands
            /\ run'[r] \in {"x509", "openssl"}
            /\ UNCHANGED <<args, conf, appended, named_by>>
        BY <1>a, <1>2 DEF genrsa, openssl_failed, Commands
      <3>2. run'[r] = "x509" =>
              generator'[Store(r)] = r /\ files'[Store(r)].certificate_key = r
        BY <1>0, <1>2 DEF genrsa, openssl_failed
      <3>3. generator' \in {generator, [generator EXCEPT ![Store(r)] = r]}
        BY <1>2 DEF genrsa
      <3>4. \A s \in Stores : generator'[s] \in Runs => Store(generator'[s]) = s
        BY <1>0, <3>3 DEF PairInv
      <3>5. \A s \in Stores : generator'[s] \in Runs => args'[generator'[s]].store = s
        BY <1>0, <3>4 DEF Store
      <3>6. \A q \in Runs : run'[q] \in Commands \ {"genrsa"} => q = r /\ run'[q] = "x509"
        BY <3>1 DEF Commands
      <3>7. \A q \in Runs : run'[q] \in Commands \ {"genrsa"} =>
              generator'[Store(q)'] = q /\ files'[Store(q)'].certificate_key = q
        BY <1>0, <3>2, <3>6
      <3> QED BY <3>5, <3>6, <3>7 DEF PairInv, Commands, Store
    <2>4. IssuedPairMatches'
      BY <1>0, <1>b, <1>2 DEF genrsa, openssl_failed, PairInv, Commands, IssuedPairMatches,
                                     Settled, Issued, Owners
    <2> QED BY <2>1, <2>2, <2>3, <2>4
  <1>3. CASE make_csr(r)
    <2>1. CredentialTypeOK'
      <3>1. /\ run' \in [Runs -> {"new"} \cup Commands \cup Ends]
            /\ lock' \in SUBSET Runs /\ \A q, p \in lock' : q = p
        BY <1>3 DEF make_csr, openssl_failed, Commands, Ends
      <3>2. files[Store(r)].certificate_key \in Contents
        BY <1>0
      <3>3. request' \in [csr : Contents, answer : Contents]
        BY <1>3, <3>2 DEF make_csr, openssl_failed
      <3>4. UNCHANGED <<args, files, conf, appended, generator, named_by>>
        BY <1>3 DEF make_csr, openssl_failed
      <3>5. lock' \in SUBSET Runs /\ \A q, p \in lock' : q = p
        BY <3>1
      <3> QED BY <3>1, <3>3, <3>4, <3>5
    <2>2. LockInv'
      BY <1>3 DEF make_csr, openssl_failed, LockInv, Commands
    <2>3. PairInv'
      BY <1>0, <1>a, <1>3 DEF make_csr, openssl_failed, PairInv, Commands
    <2>4. IssuedPairMatches'
      BY <1>0, <1>b, <1>3 DEF make_csr, openssl_failed, PairInv, Commands, IssuedPairMatches,
                                     Settled, Issued, Owners
    <2> QED BY <2>1, <2>2, <2>3, <2>4
  <1>4. CASE issue_certificate(r, approved)
    <2>1. CredentialTypeOK'
      <3>1. run' \in [Runs -> {"new"} \cup Commands \cup Ends] /\ lock' \in SUBSET Runs
        BY <1>4 DEF issue_certificate, Commands, Ends
      <3>2. \A q, p \in lock' : q = p
        BY <1>4 DEF issue_certificate
      <3>3. request.csr \in Contents /\ Damaged \in Contents
        BY DEF Contents
      <3>4. \E c \in Contents : request' = [request EXCEPT !.answer = c]
        BY <1>4, <3>3 DEF issue_certificate
      <3>5. request' \in [csr : Contents, answer : Contents]
        BY <3>4
      <3>6. UNCHANGED <<args, files, conf, appended, generator, named_by>>
        BY <1>4 DEF issue_certificate
      <3> QED BY <3>1, <3>2, <3>5, <3>6
    <2>2. LockInv'
      BY <1>4 DEF issue_certificate, LockInv, Commands
    <2>3. PairInv'
      BY <1>0, <1>a, <1>4 DEF issue_certificate, PairInv, Commands
    <2>4. IssuedPairMatches'
      BY <1>0, <1>b, <1>4 DEF issue_certificate, PairInv, Commands, IssuedPairMatches, Settled, Issued, Owners
    <2> QED BY <2>1, <2>2, <2>3, <2>4
  <1>5. CASE truncate_certificate(r)
    <2>1. CredentialTypeOK'
      BY <1>0, <1>b, <1>5 DEF truncate_certificate, Commands, Ends, Contents, Owners
    <2>2. LockInv'
      BY <1>5 DEF truncate_certificate, LockInv, Commands
    <2>3. PairInv'
      BY <1>0, <1>a, <1>5 DEF truncate_certificate, PairInv, Commands
    <2>4. IssuedPairMatches'
      BY <1>0, <1>b, <1>5 DEF truncate_certificate, PairInv, Commands, IssuedPairMatches, Settled, Issued, Owners
    <2> QED BY <2>1, <2>2, <2>3, <2>4
  <1>6. CASE write_certificate(r)
    <2>1. CredentialTypeOK'
      BY <1>0, <1>b, <1>6 DEF write_certificate, Commands, Ends, Contents, Owners
    <2>2. LockInv'
      BY <1>6 DEF write_certificate, LockInv, Commands
    <2>3. PairInv'
      BY <1>0, <1>a, <1>6 DEF write_certificate, PairInv, Commands
    <2>4. IssuedPairMatches'
      BY <1>0, <1>b, <1>6 DEF write_certificate, PairInv, Commands, IssuedPairMatches, Settled, Issued, Owners
    <2> QED BY <2>1, <2>2, <2>3, <2>4
  <1>7. CASE update_certificate(r)
    <2>1. CredentialTypeOK'
      BY <1>0, <1>b, <1>7 DEF update_certificate, Commands, Ends, Contents, Owners
    <2>2. LockInv'
      BY <1>7 DEF update_certificate, LockInv, Commands
    <2>3. PairInv'
      BY <1>0, <1>a, <1>7 DEF update_certificate, PairInv, Commands
    <2>4. IssuedPairMatches'
      BY <1>0, <1>b, <1>7 DEF update_certificate, PairInv, Commands, IssuedPairMatches, Settled, Issued, Owners
    <2> QED BY <2>1, <2>2, <2>3, <2>4
  <1>8. CASE update_certificate_key(r)
    <2>1. CredentialTypeOK'
      BY <1>0, <1>b, <1>8 DEF update_certificate_key, Commands, Ends, Contents, Owners
    <2>2. LockInv'
      BY <1>8 DEF update_certificate_key, LockInv, Commands
    <2>3. PairInv'
      BY <1>0, <1>a, <1>8 DEF update_certificate_key, PairInv, Commands
    <2>4. IssuedPairMatches'
      BY <1>0, <1>b, <1>8 DEF update_certificate_key, PairInv, Commands, IssuedPairMatches, Settled, Issued, Owners
    <2> QED BY <2>1, <2>2, <2>3, <2>4
  <1>9. CASE killed(r)
    <2>1. CredentialTypeOK'
      BY <1>0, <1>b, <1>9 DEF killed, Commands, Ends, Contents, Owners
    <2>2. LockInv'
      BY <1>9 DEF killed, LockInv, Commands
    <2>3. PairInv'
      BY <1>0, <1>a, <1>9 DEF killed, PairInv, Commands
    <2>4. IssuedPairMatches'
      BY <1>0, <1>b, <1>9 DEF killed, PairInv, Commands, IssuedPairMatches, Settled, Issued, Owners
    <2> QED BY <2>1, <2>2, <2>3, <2>4
  <1>10. CASE add_intermediate_ca(r)
    <2>1. CredentialTypeOK'
      BY <1>0, <1>b, <1>10 DEF add_intermediate_ca, Commands, Ends, Contents, Owners
    <2>2. LockInv'
      BY <1>10 DEF add_intermediate_ca, LockInv, Commands
    <2>3. PairInv'
      BY <1>0, <1>a, <1>10 DEF add_intermediate_ca, PairInv, Commands
    <2>4. IssuedPairMatches'
      BY <1>0, <1>b, <1>10 DEF add_intermediate_ca, PairInv, Commands, IssuedPairMatches, Settled, Issued, Owners
    <2> QED BY <2>1, <2>2, <2>3, <2>4
  <1> QED BY <1>1, <1>2, <1>3, <1>4, <1>5, <1>6, <1>7, <1>8, <1>9, <1>10
      DEF CredentialNext

-----------------------------------------------------------------------------
(* The start of the key agent. *)

\* One thread at most runs apimodule_init, and who has an answer has its result.
OnceInv ==
  /\ \A t \in Threads :
       /\ thread[t].pc \in Steps => agent.once = "busy"
       /\ \A u \in Threads : thread[t].pc \in Steps /\ thread[u].pc \in Steps => t = u
       /\ Answered(t) =>
            agent.once = "done" /\ thread[t].answer = [rv |-> agent.rv, list |-> agent.func_list]
  /\ agent.rv = "CKR_OK" =>
       /\ agent.once # "no"
       /\ \A t \in Threads : thread[t].pc \in Steps => thread[t].pc = "leave"
  /\ agent.atfork => agent.once = "done"

\* What apimodule_init has done by the steps that follow.
Opened == agent.func_list = TRUE /\ (agent.c_finalize <=> build.library = "full") /\ build.library # "missing"

DoneInv ==
  /\ \A t \in Threads :
       /\ thread[t].pc \in Steps \ {"read_ini", "leave"} => agent.mode = build.mode
       /\ thread[t].pc \in Steps \ {"read_ini", "load_module", "leave"} => Opened
       /\ thread[t].pc = "register" => agent.initialized /\ agent.stm_hash = build.stms
  /\ agent.rv = "CKR_OK" => Opened /\ agent.initialized /\ agent.mode \in agent.enabled
  /\ agent.child = "died" => agent.atfork /\ ~agent.c_finalize
  /\ ~agent.alive => build.mode \notin build.stms

AgentInv == InitTypeOK(Stores) /\ OnceInv /\ DoneInv

LEMMA InitAgent ==
  ASSUME build \in Build, NEW s \in Stores, AgentInitial(s)
  PROVE  AgentInv
  <1>1. InitTypeOK(Stores)
    BY DEF AgentInitial, InitTypeOK, AgentState, ThreadState, NoAnswer, Answer
  <1>2. OnceInv
    BY DEF AgentInitial, OnceInv, Steps, Answered
  <1>3. DoneInv
    BY DEF AgentInitial, DoneInv, Steps
  <1> QED BY <1>1, <1>2, <1>3 DEF AgentInv

\* A thread that moves keeps its answer, and the others stay where they are.
LEMMA MovesOnly ==
  ASSUME thread \in [Threads -> ThreadState], NEW t \in Threads,
         NEW pc \in {"out", "once", "answered"} \cup Steps, Moves(t, pc)
  PROVE  /\ thread' \in [Threads -> ThreadState]
         /\ thread'[t].pc = pc /\ thread'[t].answer = thread[t].answer
         /\ \A u \in Threads : u # t => thread'[u] = thread[u]
  BY DEF Moves, ThreadState

\* A step of apimodule_init after which thread t is at step pc.
LEMMA Within ==
  ASSUME AgentInv, NEW t \in Threads, thread[t].pc \in Steps,
         NEW pc \in Steps, Moves(t, pc), build' = build,
         agent' \in AgentState(Stores), agent'.once = agent.once,
         agent'.atfork = agent.atfork, agent'.child = agent.child,
         agent'.rv = "CKR_OK" =>
           pc = "leave" /\ Opened' /\ agent'.initialized /\ agent'.mode \in agent'.enabled,
         pc \in Steps \ {"read_ini", "leave"} => agent'.mode = build.mode,
         pc \in Steps \ {"read_ini", "load_module", "leave"} => Opened',
         pc = "register" => agent'.initialized /\ agent'.stm_hash = build.stms,
         ~agent'.alive => build.mode \notin build.stms
  PROVE  AgentInv'
  <1>1. /\ thread' \in [Threads -> ThreadState]
        /\ thread'[t].pc = pc
        /\ \A u \in Threads : u # t => thread'[u] = thread[u]
    BY MovesOnly DEF AgentInv, InitTypeOK
  <1>2. agent.once = "busy" /\ \A u \in Threads : u # t => thread[u].pc \notin Steps
    BY DEF AgentInv, OnceInv
  <1>3. \A u \in Threads : ~Answered(u) /\ (u # t => ~Answered(u)')
    BY <1>1, <1>2 DEF AgentInv, OnceInv, Answered
  <1>4. ~Answered(t)'
    BY <1>1 DEF Answered, Steps
  <1>5. ~agent'.atfork /\ agent'.child # "died"
    BY <1>2 DEF AgentInv, OnceInv, DoneInv
  <1>6. InitTypeOK(Stores)'
    BY <1>1 DEF AgentInv, InitTypeOK
  <1>7. OnceInv'
    BY <1>1, <1>2, <1>3, <1>4, <1>5 DEF OnceInv
  <1>8. \A u \in Threads : thread'[u].pc \in Steps => u = t
    BY <1>1, <1>2
  <1>9. DoneInv'
    <2>1. ASSUME NEW u \in Threads
          PROVE  /\ thread'[u].pc \in Steps \ {"read_ini", "leave"} => agent'.mode = build'.mode
                 /\ thread'[u].pc \in Steps \ {"read_ini", "load_module", "leave"} => Opened'
                 /\ thread'[u].pc = "register" =>
                      agent'.initialized /\ agent'.stm_hash = build'.stms
      <3>1. CASE u = t
        BY <1>1, <3>1, Zenon
      <3>2. CASE u # t
        BY <1>8, <3>2 DEF Steps
      <3> QED BY <3>1, <3>2
    <2>2. agent'.rv = "CKR_OK" => Opened' /\ agent'.initialized /\ agent'.mode \in agent'.enabled
      OBVIOUS
    <2>3. agent'.child # "died" /\ (~agent'.alive => build'.mode \notin build'.stms)
      BY <1>5
    <2> QED BY <2>1, <2>2, <2>3, Zenon DEF DoneInv
  <1> QED BY <1>6, <1>7, <1>9 DEF AgentInv

\* The steps of apimodule_init.
LEMMA StepInit ==
  ASSUME AgentInv, NEW t \in Threads,
         NEW certificate \in Stores, NEW certificate_key \in Stores, NEW there,
         \/ read_ini(t) \/ load_module(t) \/ keyagent_init(t, certificate, certificate_key)
         \/ check_access(t, there) \/ load_npms(t) \/ load_stms(t) \/ register(t)
  PROVE  AgentInv'
  <1>0. /\ agent \in AgentState(Stores) /\ build \in Build /\ build' = build
        /\ thread[t].pc \in Steps \ {"leave"} /\ agent.rv # "CKR_OK"
        /\ agent.alive
    BY DEF AgentInv, InitTypeOK, OnceInv, InStep, Steps, read_ini, load_module, keyagent_init,
           check_access, load_npms, load_stms, register
  <1>s. {"read_ini", "load_module", "keyagent_init", "access", "load_npms", "load_stms",
         "register", "leave"} \subseteq Steps
    BY DEF Steps
  \* apimodule_init fails, or ends.
  <1>f. ASSUME Moves(t, "leave"), agent' \in AgentState(Stores), agent'.once = agent.once,
               agent'.atfork = agent.atfork, agent'.child = agent.child,
               agent'.rv = "CKR_OK" =>
                 Opened' /\ agent'.initialized /\ agent'.mode \in agent'.enabled,
               ~agent'.alive => build.mode \notin build.stms
        PROVE  AgentInv'
    BY <1>0, <1>s, <1>f, Within, Zenon
  \* apimodule_init goes on.
  <1>g. ASSUME NEW pc \in Steps \ {"leave", "read_ini"}, Moves(t, pc),
               agent' \in AgentState(Stores), agent'.once = agent.once,
               agent'.atfork = agent.atfork, agent'.child = agent.child,
               agent'.rv = agent.rv, agent'.alive = agent.alive,
               agent'.mode = build.mode,
               pc # "load_module" => Opened',
               pc = "register" => agent'.initialized /\ agent'.stm_hash = build.stms
        PROVE  AgentInv'
    <2>1. agent'.rv # "CKR_OK" /\ agent'.alive
      BY <1>0, <1>g, Zenon
    <2>2. pc \in Steps /\ pc # "leave"
      OBVIOUS
    <2> QED BY <1>0, <1>g, <2>1, <2>2, Within, Zenon
  <1>1. CASE read_ini(t)
    <2> DEFINE m == IF build.ini = "no mode" THEN NoMode ELSE build.mode
    <2>1. agent' = [agent EXCEPT !.mode = m] /\ m \in Modes \cup {NoMode}
      BY <1>0, <1>1 DEF read_ini, Build
    <2>2. build.ini = "whole" => m = build.mode
      OBVIOUS
    <2> HIDE DEF m
    <2>3. /\ agent' \in AgentState(Stores) /\ agent'.once = agent.once
          /\ agent'.atfork = agent.atfork /\ agent'.child = agent.child
          /\ agent'.rv = agent.rv /\ agent'.alive = agent.alive /\ agent'.mode = m
      BY <1>0, <2>1 DEF AgentState
    <2>4. CASE build.ini = "whole"
      <3>1. Moves(t, "load_module")
        BY <1>1, <2>4 DEF read_ini
      <3> QED BY <1>g, <1>s, <2>2, <2>3, <2>4, <3>1
    <2>5. CASE build.ini # "whole"
      <3>1. Moves(t, "leave")
        BY <1>1, <2>5 DEF read_ini, Fails
      <3> QED BY <1>0, <1>f, <2>3, <3>1
    <2> QED BY <2>4, <2>5
  <1>2. CASE load_module(t)
    <2>0. thread[t].pc = "load_module" /\ agent.mode = build.mode
      BY <1>2 DEF load_module, InStep, AgentInv, DoneInv, Steps
    <2>1. CASE build.library = "missing"
      <3>1. Moves(t, "leave") /\ agent' = agent
        BY <1>2, <2>1 DEF load_module, Fails
      <3> QED BY <1>0, <1>f, <3>1
    <2>2. CASE build.library # "missing"
      <3> DEFINE b == build.library = "full"
      <3>1. /\ Moves(t, "keyagent_init") /\ b \in BOOLEAN
            /\ agent' = [agent EXCEPT !.func_list = TRUE, !.c_finalize = b]
        BY <1>2, <2>2 DEF load_module
      <3>2. b <=> build.library = "full"
        OBVIOUS
      <3> HIDE DEF b
      <3>3. /\ agent' \in AgentState(Stores) /\ agent'.once = agent.once
            /\ agent'.atfork = agent.atfork /\ agent'.child = agent.child
            /\ agent'.rv = agent.rv /\ agent'.alive = agent.alive /\ agent'.mode = agent.mode
            /\ agent'.func_list = TRUE /\ agent'.c_finalize = b
        BY <1>0, <3>1 DEF AgentState
      <3>4. Opened'
        BY <1>0, <2>2, <3>2, <3>3 DEF Opened
      <3> QED BY <1>g, <1>s, <2>0, <3>1, <3>3, <3>4
    <2> QED BY <2>1, <2>2
  \* From here on the library is open.
  <1>o. ~read_ini(t) /\ ~load_module(t) => Opened /\ agent.mode = build.mode
    BY DEF AgentInv, DoneInv, InStep, Steps, keyagent_init, check_access, load_npms,
           load_stms, register
  \* A step that keeps func_list, c_finalize and the mode.
  <1>k. ASSUME ~read_ini(t) /\ ~load_module(t), agent'.func_list = agent.func_list,
               agent'.c_finalize = agent.c_finalize, agent'.mode = agent.mode
        PROVE  Opened' /\ agent'.mode = build.mode
    BY <1>0, <1>k, <1>o DEF Opened
  <1>e. thread[t].pc \notin {"read_ini", "load_module"} => ~read_ini(t) /\ ~load_module(t)
    BY DEF read_ini, load_module, InStep
  <1>3. CASE keyagent_init(t, certificate, certificate_key)
    <2>0. thread[t].pc \notin {"read_ini", "load_module"}
      BY <1>3 DEF keyagent_init, InStep
    <2>1. CASE build.agent_ini
      <3>1. Moves(t, "access") /\ agent' = [agent EXCEPT !.certificate = certificate, !.certificate_key = certificate_key]
        BY <1>0, <1>3, <2>1 DEF keyagent_init, Build, Fails
      <3>2. /\ agent' \in AgentState(Stores)
            /\ agent'.once = agent.once /\ agent'.atfork = agent.atfork /\ agent'.child = agent.child
            /\ agent'.rv = agent.rv /\ agent'.alive = agent.alive /\ agent'.mode = agent.mode
            /\ agent'.func_list = agent.func_list /\ agent'.c_finalize = agent.c_finalize
        BY <1>0, <3>1 DEF AgentState
      <3> QED BY <1>e, <1>g, <1>k, <1>s, <2>0, <3>1, <3>2
    <2>2. CASE ~(build.agent_ini)
      <3>1. Moves(t, "leave") /\ agent' = [agent EXCEPT !.certificate = certificate, !.certificate_key = certificate_key]
        BY <1>3, <2>2 DEF keyagent_init, Fails
      <3>2. /\ agent' \in AgentState(Stores)
            /\ agent'.once = agent.once /\ agent'.atfork = agent.atfork /\ agent'.child = agent.child
            /\ agent'.rv = agent.rv /\ agent'.alive = agent.alive /\ agent'.mode = agent.mode
            /\ agent'.func_list = agent.func_list /\ agent'.c_finalize = agent.c_finalize
        BY <1>0, <3>1 DEF AgentState
      <3> QED BY <1>0, <1>f, <3>1, <3>2
    <2> QED BY <2>1, <2>2
  <1>4. CASE check_access(t, there)
    <2>0. thread[t].pc \notin {"read_ini", "load_module"}
      BY <1>4 DEF check_access, InStep
    <2>1. CASE there
      <3>1. Moves(t, "load_npms") /\ agent' = agent
        BY <1>0, <1>4, <2>1 DEF check_access, Build, Fails
      <3>2. /\ agent' \in AgentState(Stores)
            /\ agent'.once = agent.once /\ agent'.atfork = agent.atfork /\ agent'.child = agent.child
            /\ agent'.rv = agent.rv /\ agent'.alive = agent.alive /\ agent'.mode = agent.mode
            /\ agent'.func_list = agent.func_list /\ agent'.c_finalize = agent.c_finalize
        BY <1>0, <3>1 DEF AgentState
      <3> QED BY <1>e, <1>g, <1>k, <1>s, <2>0, <3>1, <3>2
    <2>2. CASE ~(there)
      <3>1. Moves(t, "leave") /\ agent' = agent
        BY <1>4, <2>2 DEF check_access, Fails
      <3>2. /\ agent' \in AgentState(Stores)
            /\ agent'.once = agent.once /\ agent'.atfork = agent.atfork /\ agent'.child = agent.child
            /\ agent'.rv = agent.rv /\ agent'.alive = agent.alive /\ agent'.mode = agent.mode
            /\ agent'.func_list = agent.func_list /\ agent'.c_finalize = agent.c_finalize
        BY <1>0, <3>1 DEF AgentState
      <3> QED BY <1>0, <1>f, <3>1, <3>2
    <2> QED BY <2>1, <2>2
  <1>5. CASE load_npms(t)
    <2>0. thread[t].pc \notin {"read_ini", "load_module"}
      BY <1>5 DEF load_npms, InStep
    <2>1. CASE "npm" \in build.files
      <3>1. Moves(t, "load_stms") /\ agent' = [agent EXCEPT !.npm_hash = build.npms] /\ build.npms \in SUBSET {"KMS"}
        BY <1>0, <1>5, <2>1 DEF load_npms, Build, Fails, npms_started
      <3>2. /\ agent' \in AgentState(Stores)
            /\ agent'.once = agent.once /\ agent'.atfork = agent.atfork /\ agent'.child = agent.child
            /\ agent'.rv = agent.rv /\ agent'.alive = agent.alive /\ agent'.mode = agent.mode
            /\ agent'.func_list = agent.func_list /\ agent'.c_finalize = agent.c_finalize
        BY <1>0, <3>1 DEF AgentState
      <3> QED BY <1>e, <1>g, <1>k, <1>s, <2>0, <3>1, <3>2
    <2>2. CASE ~("npm" \in build.files)
      <3>1. Moves(t, "leave") /\ agent' = agent
        BY <1>5, <2>2 DEF load_npms, Fails
      <3>2. /\ agent' \in AgentState(Stores)
            /\ agent'.once = agent.once /\ agent'.atfork = agent.atfork /\ agent'.child = agent.child
            /\ agent'.rv = agent.rv /\ agent'.alive = agent.alive /\ agent'.mode = agent.mode
            /\ agent'.func_list = agent.func_list /\ agent'.c_finalize = agent.c_finalize
        BY <1>0, <3>1 DEF AgentState
      <3> QED BY <1>0, <1>f, <3>1, <3>2
    <2> QED BY <2>1, <2>2
  <1>6. CASE load_stms(t)
    <2>0. thread[t].pc \notin {"read_ini", "load_module"}
      BY <1>6 DEF load_stms, InStep
    <2>1. CASE "stm" \in build.files
      <3>1. Moves(t, "register") /\ agent' = [agent EXCEPT !.initialized = TRUE, !.stm_hash = build.stms] /\ build.stms \in SUBSET Modes
        BY <1>0, <1>6, <2>1 DEF load_stms, Build, Fails, stms_started
      <3>2. /\ agent' \in AgentState(Stores) /\ agent'.initialized /\ agent'.stm_hash = build.stms
            /\ agent'.once = agent.once /\ agent'.atfork = agent.atfork /\ agent'.child = agent.child
            /\ agent'.rv = agent.rv /\ agent'.alive = agent.alive /\ agent'.mode = agent.mode
            /\ agent'.func_list = agent.func_list /\ agent'.c_finalize = agent.c_finalize
        BY <1>0, <3>1 DEF AgentState
      <3> QED BY <1>e, <1>g, <1>k, <1>s, <2>0, <3>1, <3>2
    <2>2. CASE ~("stm" \in build.files)
      <3>1. Moves(t, "leave") /\ agent' = agent
        BY <1>6, <2>2 DEF load_stms, Fails
      <3>2. /\ agent' \in AgentState(Stores)
            /\ agent'.once = agent.once /\ agent'.atfork = agent.atfork /\ agent'.child = agent.child
            /\ agent'.rv = agent.rv /\ agent'.alive = agent.alive /\ agent'.mode = agent.mode
            /\ agent'.func_list = agent.func_list /\ agent'.c_finalize = agent.c_finalize
        BY <1>0, <3>1 DEF AgentState
      <3> QED BY <1>0, <1>f, <3>1, <3>2
    <2> QED BY <2>1, <2>2
  <1>7. CASE register(t)
    <2>0. /\ thread[t].pc = "register" /\ Moves(t, "leave")
          /\ agent.initialized = TRUE /\ agent.stm_hash = build.stms
      BY <1>0, <1>7 DEF register, InStep, AgentInv, DoneInv, AgentState
    <2>1. Opened /\ agent.mode = build.mode /\ agent.mode \in Modes
      BY <1>0, <1>e, <1>o, <2>0 DEF Build
    <2>2. CASE agent.mode \in agent.stm_hash
      <3>1. agent' = [agent EXCEPT !.enabled = @ \cup {agent.mode}, !.rv = "CKR_OK"]
        BY <1>7, <2>2 DEF register, may_enable
      <3>2. /\ agent' \in AgentState(Stores) /\ agent'.once = agent.once
            /\ agent'.atfork = agent.atfork /\ agent'.child = agent.child
            /\ agent'.alive = agent.alive /\ agent'.mode = agent.mode
            /\ agent'.func_list = agent.func_list /\ agent'.c_finalize = agent.c_finalize
            /\ agent'.initialized = TRUE /\ agent.mode \in agent'.enabled
        BY <1>0, <2>0, <2>1, <3>1 DEF AgentState
      <3>3. Opened'
        BY <1>0, <2>1, <3>2 DEF Opened
      <3> QED BY <1>0, <1>f, <2>0, <3>2, <3>3
    <2>3. CASE agent.mode \notin agent.stm_hash
      <3>1. agent' = [agent EXCEPT !.alive = FALSE]
        BY <1>7, <2>3 DEF register, may_enable
      <3>2. /\ agent' \in AgentState(Stores) /\ agent'.once = agent.once
            /\ agent'.atfork = agent.atfork /\ agent'.child = agent.child
            /\ agent'.rv = agent.rv
        BY <1>0, <3>1 DEF AgentState
      <3> QED BY <1>0, <1>f, <2>0, <2>1, <2>3, <3>2
    <2> QED BY <2>2, <2>3
  <1> QED BY <1>1, <1>2, <1>3, <1>4, <1>5, <1>6, <1>7

\* A thread that is not, and does not become, one of those in apimodule_init.
LEMMA Outside ==
  ASSUME AgentInv, NEW t \in Threads, thread[t].pc \notin Steps,
         NEW s \in ThreadState, thread' = [thread EXCEPT ![t] = s], s.pc \notin Steps,
         s.pc = "answered" =>
           agent.once = "done" /\ s.answer = [rv |-> agent.rv, list |-> agent.func_list],
         UNCHANGED <<build, agent>>
  PROVE  AgentInv'
  <1>1. /\ thread' \in [Threads -> ThreadState] /\ thread'[t] = s
        /\ \A u \in Threads : u # t => thread'[u] = thread[u]
    BY DEF AgentInv, InitTypeOK
  <1>2. \A u \in Threads : thread'[u].pc \in Steps => u # t /\ thread[u].pc \in Steps
                                                  /\ thread'[u].pc = thread[u].pc
    BY <1>1, Zenon
  <1>3. InitTypeOK(Stores)'
    BY <1>1 DEF AgentInv, InitTypeOK
  <1>4. OnceInv'
    <2>1. ASSUME NEW u \in Threads, Answered(u)'
          PROVE  agent.once = "done" /\ thread'[u].answer = [rv |-> agent.rv, list |-> agent.func_list]
      BY <1>1, <2>1, Zenon DEF AgentInv, OnceInv, Answered
    <2> QED BY <1>2, <2>1 DEF AgentInv, OnceInv
  <1>5. DoneInv'
    <2>1. ASSUME NEW u \in Threads
          PROVE  /\ thread'[u].pc \in Steps \ {"read_ini", "leave"} => agent.mode = build.mode
                 /\ thread'[u].pc \in Steps \ {"read_ini", "load_module", "leave"} => Opened
                 /\ thread'[u].pc = "register" => agent.initialized /\ agent.stm_hash = build.stms
      <3>1. CASE thread'[u].pc \in Steps
        BY <1>2, <3>1, Zenon DEF AgentInv, DoneInv
      <3> QED BY <3>1 DEF Steps
    <2> QED BY <2>1, Zenon DEF AgentInv, DoneInv, Opened
  <1> QED BY <1>3, <1>4, <1>5 DEF AgentInv

LEMMA StepAgent ==
  ASSUME AgentInv, NEW t \in Threads,
         NEW certificate \in Stores, NEW certificate_key \in Stores, NEW there,
         \/ C_GetFunctionList(t) \/ once_enter(t) \/ answered(t)
         \/ read_ini(t) \/ load_module(t) \/ keyagent_init(t, certificate, certificate_key)
         \/ check_access(t, there) \/ load_npms(t) \/ load_stms(t) \/ register(t)
         \/ once_leave(t) \/ fork
  PROVE  AgentInv'
  <1>0. /\ agent \in AgentState(Stores) /\ build \in Build /\ thread \in [Threads -> ThreadState]
        /\ OnceInv /\ DoneInv /\ thread[t] \in ThreadState
    BY DEF AgentInv, InitTypeOK
  <1>1. CASE C_GetFunctionList(t)
    <2> DEFINE s == [thread[t] EXCEPT !.pc = "once"]
    <2>1. thread[t].pc = "out" /\ thread' = [thread EXCEPT ![t] = s] /\ UNCHANGED <<build, agent>>
      BY <1>0, <1>1 DEF C_GetFunctionList, InStep, Moves
    <2>2. s \in ThreadState /\ s.pc = "once"
      BY <1>0 DEF ThreadState
    <2> HIDE DEF s
    <2> QED BY <2>1, <2>2, Outside DEF Steps
  <1>2. CASE answered(t)
    <2> DEFINE s == [pc |-> "answered", answer |-> [rv |-> agent.rv, list |-> agent.func_list]]
    <2>1. /\ thread[t].pc = "once" /\ thread' = [thread EXCEPT ![t] = s]
          /\ UNCHANGED <<build, agent>> /\ agent.once = "done"
      BY <1>0, <1>2 DEF answered, InStep
    <2>2. s \in ThreadState /\ s.pc = "answered"
          /\ s.answer = [rv |-> agent.rv, list |-> agent.func_list]
      BY <1>0 DEF ThreadState, AgentState, Answer
    <2> HIDE DEF s
    <2> QED BY <2>1, <2>2, Outside DEF Steps
  <1>3. CASE once_enter(t)
    <2>1. /\ agent.once = "no" /\ agent' = [agent EXCEPT !.once = "busy"] /\ build' = build
          /\ Moves(t, "read_ini") /\ thread[t].pc = "once"
      BY <1>3 DEF once_enter, enters, InStep
    <2>2. /\ agent' \in AgentState(Stores) /\ agent'.once = "busy" /\ agent'.rv = agent.rv
          /\ agent'.atfork = agent.atfork /\ agent'.child = agent.child
          /\ agent'.alive = agent.alive
      BY <1>0, <2>1 DEF AgentState
    <2>3. /\ thread' \in [Threads -> ThreadState] /\ thread'[t].pc = "read_ini"
          /\ \A u \in Threads : u # t => thread'[u] = thread[u]
      BY <1>0, <2>1, MovesOnly DEF Steps
    <2>4. agent'.rv # "CKR_OK" /\ ~agent'.atfork /\ agent'.child # "died"
      BY <1>0, <2>1, <2>2 DEF OnceInv, DoneInv
    <2>5. \A u \in Threads : thread[u].pc \notin Steps /\ ~Answered(u)
      BY <1>0, <2>1 DEF OnceInv
    <2>6. \A u \in Threads : ~Answered(u)' /\ (thread'[u].pc \in Steps => u = t)
      BY <2>3, <2>5 DEF Answered
    <2>7. InitTypeOK(Stores)'
      BY <1>0, <2>1, <2>2, <2>3 DEF InitTypeOK
    <2>8. OnceInv'
      BY <2>2, <2>4, <2>6 DEF OnceInv
    <2>9. ~agent'.alive => build'.mode \notin build'.stms
      BY <1>0, <2>1, <2>2 DEF DoneInv
    <2>10. \A u \in Threads : thread'[u].pc \notin Steps \ {"read_ini"}
      BY <2>3, <2>6
    <2>11. DoneInv'
      BY <2>4, <2>9, <2>10, Zenon DEF DoneInv, Steps
    <2> QED BY <2>7, <2>8, <2>11 DEF AgentInv
  <1>4. CASE \/ read_ini(t) \/ load_module(t) \/ keyagent_init(t, certificate, certificate_key)
             \/ check_access(t, there) \/ load_npms(t) \/ load_stms(t) \/ register(t)
    BY <1>4, StepInit
  <1>5. CASE once_leave(t)
    <2> DEFINE s == [pc |-> "answered", answer |-> [rv |-> agent.rv, list |-> agent.func_list]]
               b == agent.mode = "SGX"
    <2>1. /\ thread[t].pc = "leave" /\ thread' = [thread EXCEPT ![t] = s] /\ build' = build
          /\ agent' = [agent EXCEPT !.atfork = b, !.once = "done"] /\ b \in BOOLEAN
      BY <1>5 DEF once_leave, InStep
    <2>2. s \in ThreadState /\ s.pc = "answered"
          /\ s.answer = [rv |-> agent.rv, list |-> agent.func_list]
      BY <1>0 DEF ThreadState, AgentState, Answer
    <2> HIDE DEF s, b
    <2>3. /\ agent' \in AgentState(Stores) /\ agent'.once = "done" /\ agent'.rv = agent.rv
          /\ agent'.func_list = agent.func_list /\ agent'.child = agent.child
          /\ agent'.alive = agent.alive /\ agent'.c_finalize = agent.c_finalize
          /\ agent'.mode = agent.mode /\ agent'.enabled = agent.enabled
          /\ agent'.initialized = agent.initialized
      BY <1>0, <2>1 DEF AgentState
    <2>4. /\ thread' \in [Threads -> ThreadState] /\ thread'[t] = s
          /\ \A u \in Threads : u # t => thread'[u] = thread[u]
      BY <1>0, <2>1, <2>2
    <2>5. agent.once = "busy" /\ ~agent.atfork /\ agent.child # "died"
          /\ \A u \in Threads : ~Answered(u) /\ (u # t => thread[u].pc \notin Steps)
      BY <1>0, <2>1 DEF OnceInv, DoneInv, Steps
    <2>6. \A u \in Threads : thread'[u].pc \notin Steps /\ (Answered(u)' => u = t)
      BY <2>2, <2>4, <2>5 DEF Answered, Steps
    <2>7. InitTypeOK(Stores)'
      BY <1>0, <2>1, <2>3, <2>4 DEF InitTypeOK
    <2>8. OnceInv'
      BY <2>2, <2>3, <2>4, <2>6 DEF OnceInv
    <2>9. agent'.rv = "CKR_OK" => Opened' /\ agent'.initialized /\ agent'.mode \in agent'.enabled
      BY <1>0, <2>1, <2>3 DEF DoneInv, Opened
    <2>10. ~agent'.alive => build'.mode \notin build'.stms
      BY <1>0, <2>1, <2>3 DEF DoneInv
    <2>11. DoneInv'
      BY <2>3, <2>5, <2>6, <2>9, <2>10, Zenon DEF DoneInv, Steps
    <2> QED BY <2>7, <2>8, <2>11 DEF AgentInv
  <1>6. CASE fork
    <2> DEFINE c == IF ~agent.atfork THEN "plain" ELSE IF agent.c_finalize THEN "prepared" ELSE "died"
    <2>1. agent' = [agent EXCEPT !.child = c] /\ UNCHANGED <<build, thread>>
      BY <1>6 DEF fork
    <2>2. c \in {"none", "prepared", "plain", "died"}
          /\ (c = "died" => agent.atfork /\ ~agent.c_finalize)
      OBVIOUS
    <2> HIDE DEF c
    <2>3. /\ agent' \in AgentState(Stores) /\ agent'.once = agent.once /\ agent'.rv = agent.rv
          /\ agent'.func_list = agent.func_list /\ agent'.child = c /\ agent'.atfork = agent.atfork
          /\ agent'.alive = agent.alive /\ agent'.c_finalize = agent.c_finalize
          /\ agent'.mode = agent.mode /\ agent'.enabled = agent.enabled
          /\ agent'.initialized = agent.initialized /\ agent'.stm_hash = agent.stm_hash
      BY <1>0, <2>1, <2>2 DEF AgentState
    <2>4. InitTypeOK(Stores)'
      BY <1>0, <2>1, <2>3 DEF InitTypeOK
    <2>5. OnceInv'
      BY <1>0, <2>1, <2>3 DEF OnceInv, Answered
    <2>6. Opened => Opened'
      BY <2>1, <2>3 DEF Opened
    <2>7. DoneInv'
      BY <1>0, <2>1, <2>2, <2>3, <2>6, Zenon DEF DoneInv
    <2> QED BY <2>4, <2>5, <2>7 DEF AgentInv
  <1> QED BY <1>1, <1>2, <1>3, <1>4, <1>5, <1>6

\* The answers are the result, and the result has been got.
LEMMA AgentAnswers == AgentInv => AnswersAgree
  <1> SUFFICES ASSUME AgentInv  PROVE AnswersAgree
    OBVIOUS
  <1>1. \A t \in Threads : Answered(t) =>
          thread[t].answer = [rv |-> agent.rv, list |-> agent.func_list]
    BY DEF AgentInv, OnceInv
  <1>2. \A t \in Threads : AnsweredOk(t) => agent.rv = "CKR_OK" /\ thread[t].answer.list = agent.func_list
    BY <1>1 DEF AnsweredOk
  <1>3. agent.rv = "CKR_OK" =>
          /\ agent.func_list = TRUE /\ agent.initialized /\ agent.mode \in agent.enabled
          /\ (agent.c_finalize <=> build.library = "full") /\ build.library \in {"full", "bare"}
    BY DEF AgentInv, DoneInv, Opened, InitTypeOK, Build
  <1>4. \A t \in Threads : AnsweredOk(t) =>
          thread[t].answer.list /\ agent.initialized /\ agent.mode \in agent.enabled
    BY <1>2, <1>3
  <1>5. agent.child = "died" =>
          build.library = "bare" \/ ~ \E t \in Threads : AnsweredOk(t)
    BY <1>2, <1>3 DEF AgentInv, DoneInv
  <1>6. ~agent.alive => build.mode \notin build.stms
    BY DEF AgentInv, DoneInv
  <1> QED BY <1>1, <1>4, <1>5, <1>6, Zenon DEF AnswersAgree

-----------------------------------------------------------------------------
(* The loads. *)

\* A load is of a process that has read its conf for good; what it has read of the
\* certificate stays true until another run begins.
LoadInv ==
  /\ load \in [Threads -> Load]
  /\ \A t \in Threads :
       /\ load[t].calm => agent.certificate = agent.certificate_key
       /\ load[t].pc # "none" => agent.once = "done"
       /\ load[t].pc = "certificate" /\ load[t].calm =>
            /\ load[t].seen \subseteq Begun
            /\ Begun = load[t].seen =>
                 Calm(agent.certificate) /\ load[t].certificate = files[agent.certificate].certificate
  /\ LoadPresentsPair

DeploymentInv == cast \in Casts /\ RolesInv /\ CredentialInv /\ AgentInv /\ LoadInv

LEMMA InitDeployment == DeploymentInit => DeploymentInv
  <1> SUFFICES ASSUME DeploymentInit  PROVE DeploymentInv
    OBVIOUS
  <1>1. cast \in Casts /\ args \in [Runs -> Args] /\ build \in Build
    BY DEF DeploymentInit, Cast
  <1>2. RolesInv
    BY InitRoles DEF DeploymentInit
  <1>3. CredentialInv
    BY <1>1, InitCredential DEF DeploymentInit
  <1>4. AgentInv
    BY <1>1, <1>3, InitAgent DEF DeploymentInit, CredentialInv, CredentialTypeOK
  <1>5. NoLoad \in Load /\ NoLoad.pc = "none"
    BY DEF NoLoad, Load, Contents
  <1>6. agent.certificate = agent.certificate_key
    BY DEF DeploymentInit, AgentInitial
  <1>7. load \in [Threads -> Load] /\ \A t \in Threads : load[t].pc = "none"
    BY <1>5 DEF DeploymentInit
  <1>8. LoadInv
    BY <1>6, <1>7 DEF LoadInv, LoadPresentsPair
  <1> QED BY <1>1, <1>2, <1>3, <1>4, <1>8 DEF DeploymentInv

\* A step of the credential agent, seen by the loads: none when all is calm.
LEMMA ToolLoads ==
  ASSUME CredentialInv, LoadInv, NEW r \in Runs, NEW approved, CredentialNext(r, approved),
         UNCHANGED <<initVars, cast, load>>
  PROVE  LoadInv'
  <1>1. \/ run' = run /\ UNCHANGED <<files, generator, lock>>
        \/ run[r] = "new" /\ run'[r] # "new" /\ \A q \in Runs : q # r => run'[q] = run[q]
        \/ lock # {} /\ \A q \in Runs : run[q] # "new" => run'[q] # "new"
    BY DEF CredentialInv, CredentialTypeOK, LockInv, CredentialNext, start, genrsa, make_csr,
           openssl_failed, issue_certificate, truncate_certificate, write_certificate,
           update_certificate, update_certificate_key, killed, add_intermediate_ca, At, GoesTo, Finishes, Commands
  <1>2. Begun \subseteq Begun'
    BY <1>1 DEF Begun
  <1>3. ASSUME NEW t \in Threads, load[t].pc = "certificate", load[t].calm, Begun' = load[t].seen
        PROVE  Calm(agent.certificate)' /\ load[t].certificate = files'[agent.certificate].certificate
    <2>1. Begun = load[t].seen
      BY <1>2, <1>3 DEF LoadInv
    <2>2. /\ Calm(agent.certificate)
          /\ load[t].certificate = files[agent.certificate].certificate
      BY <1>3, <2>1 DEF LoadInv
    <2>3. lock = {} /\ ~(run[r] = "new" /\ run'[r] # "new")
      BY <1>3, <2>1, <2>2 DEF Begun, Calm
    <2>4. run' = run /\ UNCHANGED <<files, generator, lock, agent>>
      BY <1>1, <2>3 DEF initVars
    <2> QED BY <2>2, <2>4 DEF Calm, Settled, Issued
  <1>4. load' = load /\ agent' = agent
    BY DEF initVars
  <1>5. ASSUME NEW t \in Threads, load[t].pc = "certificate", load[t].calm
        PROVE  /\ load[t].seen \subseteq Begun'
               /\ Begun' = load[t].seen =>
                    /\ Calm(agent.certificate)'
                    /\ load[t].certificate = files'[agent.certificate].certificate
    BY <1>2, <1>3, <1>5 DEF LoadInv
  <1> QED BY <1>4, <1>5, Zenon DEF LoadInv, LoadPresentsPair

\* The parts only take steps of those who are cast.
LEMMA CastIs ==
  ASSUME cast \in Casts
  PROVE  cast.scripts \subseteq Scripts /\ cast.runs \subseteq Runs /\ cast.threads \subseteq Threads
  BY DEF Cast

\* A step of the start: key-agent.ini is read before any load.
LEMMA StartLoads ==
  ASSUME CredentialInv, AgentInv, LoadInv, cast \in Casts, init_step
  PROVE  AgentInv' /\ LoadInv'
  <1>0. /\ agent \in AgentState(Stores) /\ UNCHANGED <<files, run, generator, lock, conf>>
        /\ conf.certificate \in Stores /\ conf.certificate_key \in Stores
        /\ cast.threads \subseteq Threads
    BY CastIs DEF AgentInv, InitTypeOK, init_step, agentVars, CredentialInv, CredentialTypeOK
  <1>1. ASSUME NEW t \in Threads, read_conf(t)
        PROVE  AgentInv' /\ LoadInv'
    <2> DEFINE c == lock = {} /\ Issued(named_by)
    <2>1. /\ keyagent_init(t, conf.certificate, conf.certificate_key)
          /\ load' = [u \in Threads |-> [load[u] EXCEPT !.calm = c]] /\ c \in BOOLEAN
      BY <1>1 DEF read_conf, Issued
    <2>2. agent.once # "done"
      BY <2>1 DEF keyagent_init, InStep, AgentInv, OnceInv, Steps
    <2>3. \A u \in Threads : load[u] \in Load /\ load[u].pc = "none"
      BY <2>2 DEF LoadInv
    <2>4. c => conf.certificate = conf.certificate_key
      BY DEF CredentialInv, IssuedPairMatches
    <2> HIDE DEF c
    <2>5. /\ load' \in [Threads -> Load]
          /\ \A u \in Threads : load'[u].pc = "none" /\ load'[u].calm = c
      BY <2>1, <2>3 DEF Load
    <2>6. agent' = [agent EXCEPT !.certificate = conf.certificate,
                                 !.certificate_key = conf.certificate_key]
      BY <2>1 DEF keyagent_init
    <2>7. agent'.certificate = conf.certificate /\ agent'.certificate_key = conf.certificate_key
      BY <1>0, <2>6 DEF AgentState
    <2>8. LoadInv'
      BY <2>4, <2>5, <2>7 DEF LoadInv, LoadPresentsPair
    <2>9. AgentInv'
      BY <1>0, <2>1, StepAgent
    <2> QED BY <2>8, <2>9
  <1>2. ASSUME UNCHANGED load, agent'.certificate = agent.certificate,
               agent'.certificate_key = agent.certificate_key,
               agent.once = "done" => agent'.once = "done"
        PROVE  LoadInv'
    <2>1. Begun' = Begun /\ (Calm(agent.certificate) => Calm(agent.certificate)')
      BY <1>0, <1>2 DEF Begun, Calm, Settled, Issued
    <2> QED BY <1>0, <1>2, <2>1 DEF LoadInv, LoadPresentsPair
  <1>3. ASSUME NEW t \in Threads,
               \/ C_GetFunctionList(t) \/ once_enter(t) \/ answered(t) \/ read_ini(t)
               \/ load_module(t) \/ check_access(t, CredentialsThere) \/ load_npms(t)
               \/ load_stms(t) \/ register(t) \/ once_leave(t) \/ fork,
               UNCHANGED load
        PROVE  AgentInv' /\ LoadInv'
    <2>1. AgentInv'
      BY <1>0, <1>3, StepAgent
    <2> DEFINE Kept ==
          /\ agent'.certificate = agent.certificate
          /\ agent'.certificate_key = agent.certificate_key
          /\ agent.once = "done" => agent'.once = "done"
    <2>2. Kept
      <3>0. agent \in AgentState(Stores)
        BY <1>0
      <3>1. CASE C_GetFunctionList(t) \/ answered(t) \/ check_access(t, CredentialsThere)
        BY <3>1 DEF C_GetFunctionList, answered, check_access
      <3>2. CASE once_enter(t)
        BY <3>0, <3>2 DEF once_enter, enters, AgentState
      <3>3. CASE read_ini(t)
        <4> DEFINE m == IF build.ini = "no mode" THEN NoMode ELSE build.mode
        <4>1. agent' = [agent EXCEPT !.mode = m]
          BY <3>3 DEF read_ini
        <4> HIDE DEF m
        <4> QED BY <3>0, <4>1 DEF AgentState
      <3>4. CASE once_leave(t)
        <4> DEFINE a == agent.mode = "SGX"
        <4>1. agent' = [agent EXCEPT !.atfork = a, !.once = "done"]
          BY <3>4 DEF once_leave
        <4> HIDE DEF a
        <4> QED BY <3>0, <4>1 DEF AgentState
      <3>5. CASE fork
        <4> DEFINE c == IF ~agent.atfork THEN "plain"
                        ELSE IF agent.c_finalize THEN "prepared" ELSE "died"
        <4>1. agent' = [agent EXCEPT !.child = c]
          BY <3>5 DEF fork
        <4> HIDE DEF c
        <4> QED BY <3>0, <4>1 DEF AgentState
      <3>6. CASE load_module(t)
        <4> DEFINE b == build.library = "full"
        <4>1. agent' = agent \/ agent' = [agent EXCEPT !.func_list = TRUE, !.c_finalize = b]
          BY <3>6 DEF load_module
        <4> HIDE DEF b
        <4> QED BY <3>0, <4>1 DEF AgentState
      <3>7. CASE load_npms(t)
        <4>1. agent' = agent \/ agent' = [agent EXCEPT !.npm_hash = npms_started]
          BY <3>7 DEF load_npms
        <4> QED BY <3>0, <4>1 DEF AgentState
      <3>8. CASE load_stms(t)
        <4>1. \/ agent' = agent
              \/ agent' = [agent EXCEPT !.initialized = TRUE, !.stm_hash = stms_started]
          BY <3>8 DEF load_stms
        <4> QED BY <3>0, <4>1 DEF AgentState
      <3>9. CASE register(t)
        <4> DEFINE e == agent.enabled \cup {agent.mode}
        <4>1. \/ agent' = [agent EXCEPT !.enabled = e, !.rv = "CKR_OK"]
              \/ agent' = [agent EXCEPT !.alive = FALSE]
          BY <3>9 DEF register
        <4> HIDE DEF e
        <4>2. CASE agent' = [agent EXCEPT !.enabled = e, !.rv = "CKR_OK"]
          BY <3>0, <4>2 DEF AgentState
        <4>3. CASE agent' = [agent EXCEPT !.alive = FALSE]
          BY <3>0, <4>3 DEF AgentState
        <4> QED BY <4>1, <4>2, <4>3
      <3> HIDE DEF Kept
      <3> QED BY <1>3, <3>1, <3>2, <3>3, <3>4, <3>5, <3>6, <3>7, <3>8, <3>9
    <2> QED BY <1>2, <1>3, <2>1, <2>2
  <1> QED BY <1>0, <1>1, <1>3 DEF init_step

LEMMA StepLoads ==
  ASSUME CredentialInv, AgentInv, LoadInv, cast \in Casts, load_step
  PROVE  LoadInv'
  <1>0. /\ agent \in AgentState(Stores) /\ UNCHANGED <<files, run, generator, lock, agent>>
        /\ cast.threads \subseteq Threads /\ load \in [Threads -> Load]
        /\ agent.certificate \in Stores /\ Begun \subseteq Runs
    BY CastIs DEF AgentInv, InitTypeOK, AgentState, load_step, agentVars, initVars, LoadInv, Begun
  <1>1. PICK t \in Threads : read_certificate(t) \/ read_key(t)
    BY <1>0 DEF load_step
  <1>2. /\ load[t] \in Load /\ \A s \in Stores : files[s].certificate \in Contents
        /\ \A s \in Stores : files[s].certificate_key \in Contents
    BY <1>0 DEF CredentialInv, CredentialTypeOK
  <1>3. Begun' = Begun /\ (Calm(agent.certificate) => Calm(agent.certificate)')
    BY <1>0 DEF Begun, Calm, Settled, Issued
  \* Thread t's load becomes l; the others stay.
  <1>4. ASSUME NEW l \in Load, load' = [load EXCEPT ![t] = l],
               l.calm => load[t].calm, agent.once = "done",
               l.pc = "certificate" /\ l.calm =>
                 /\ l.seen \subseteq Begun
                 /\ Calm(agent.certificate) /\ l.certificate = files[agent.certificate].certificate,
               l.pc = "both" /\ l.calm =>
                 l.certificate \in Owners /\ l.certificate = l.certificate_key
        PROVE  LoadInv'
    <2>1. /\ load' \in [Threads -> Load] /\ load'[t] = l
          /\ \A u \in Threads : u # t => load'[u] = load[u]
      BY <1>0, <1>4
    <2>2. ASSUME NEW u \in Threads
          PROVE  /\ load'[u].calm => agent'.certificate = agent'.certificate_key
                 /\ load'[u].pc # "none" => agent'.once = "done"
                 /\ load'[u].pc = "certificate" /\ load'[u].calm =>
                      /\ load'[u].seen \subseteq Begun'
                      /\ Begun' = load'[u].seen =>
                           /\ Calm(agent.certificate)'
                           /\ load'[u].certificate = files'[agent'.certificate].certificate
                 /\ load'[u].pc = "both" /\ load'[u].calm =>
                      load'[u].certificate \in Owners /\ load'[u].certificate = load'[u].certificate_key
      <3>1. CASE u = t
        BY <1>0, <1>3, <1>4, <2>1, <3>1 DEF LoadInv
      <3>2. CASE u # t
        BY <1>0, <1>3, <2>1, <3>2 DEF LoadInv, LoadPresentsPair
      <3> QED BY <3>1, <3>2
    <2> QED BY <2>1, <2>2 DEF LoadInv, LoadPresentsPair
  <1>5. CASE read_certificate(t)
    <2> DEFINE c == load[t].calm /\ Calm(agent.certificate)
               l == [load[t] EXCEPT !.pc = "certificate",
                                    !.certificate = files[agent.certificate].certificate,
                                    !.calm = c, !.seen = Begun]
    <2>0. Answered(t)
      BY <1>5 DEF read_certificate, AnsweredOk
    <2>1. load' = [load EXCEPT ![t] = l] /\ agent.once = "done"
      <3>1. load' = [load EXCEPT ![t] = l]
        BY <1>0, <1>5 DEF read_certificate
      <3>2. agent.once = "done"
        BY <2>0 DEF AgentInv, OnceInv
      <3> QED BY <3>1, <3>2
    <2>2. c \in BOOLEAN /\ (c => load[t].calm /\ Calm(agent.certificate))
      BY <1>2 DEF Load
    <2> HIDE DEF c
    <2>3. /\ l \in Load /\ l.pc = "certificate" /\ l.calm = c /\ l.seen = Begun
          /\ l.certificate = files[agent.certificate].certificate
      BY <1>0, <1>2, <2>2 DEF Load
    <2> HIDE DEF l
    <2> QED BY <1>4, <2>1, <2>2, <2>3
  <1>6. CASE read_key(t)
    <2> DEFINE c == load[t].calm /\ Begun = load[t].seen
               k == files[agent.certificate_key].certificate_key
               l == [load[t] EXCEPT !.pc = "both", !.certificate_key = k, !.calm = c, !.seen = {}]
    <2>1. /\ load' = [load EXCEPT ![t] = l] /\ load[t].pc = "certificate"
          /\ k \in Contents /\ agent.certificate_key \in Stores
      <3>1. load' = [load EXCEPT ![t] = l] /\ load[t].pc = "certificate"
        BY <1>0, <1>6 DEF read_key, key_store
      <3>2. agent.certificate_key \in Stores
        BY <1>0 DEF AgentState
      <3> QED BY <1>2, <3>1, <3>2
    <2>2. c \in BOOLEAN /\ (c => load[t].calm /\ Begun = load[t].seen)
      BY <1>2 DEF Load
    <2>3. c => load[t].certificate \in Owners /\ load[t].certificate = k
      <3>1. c => /\ Settled(agent.certificate) /\ agent.certificate = agent.certificate_key
                 /\ load[t].certificate = files[agent.certificate].certificate
        BY <2>1, <2>2 DEF LoadInv, Calm
      <3>2. Settled(agent.certificate) =>
              /\ files[agent.certificate].certificate \in Owners
              /\ files[agent.certificate].certificate = files[agent.certificate].certificate_key
        <4>1. ASSUME Settled(agent.certificate)
              PROVE  /\ generator[agent.certificate] \in Owners
                     /\ files[agent.certificate] =
                          [certificate_key |-> generator[agent.certificate],
                           certificate |-> generator[agent.certificate]]
          BY <1>0, <4>1, Zenon DEF CredentialInv, IssuedPairMatches, Settled
        <4> QED BY <4>1
      <3> QED BY <3>1, <3>2
    <2> HIDE DEF c, k
    <2>4. /\ l \in Load /\ l.pc = "both" /\ l.calm = c /\ l.certificate_key = k
          /\ l.certificate = load[t].certificate
      BY <1>2, <2>1, <2>2 DEF Load
    <2>5. agent.once = "done"
      BY <2>1 DEF LoadInv
    <2> HIDE DEF l
    <2> QED BY <1>4, <2>1, <2>2, <2>3, <2>4, <2>5
  <1> QED BY <1>1, <1>5, <1>6

LEMMA StepDeployment == DeploymentInv /\ [DeploymentNext]_deploymentVars => DeploymentInv'
  <1> SUFFICES ASSUME DeploymentInv, [DeploymentNext]_deploymentVars  PROVE DeploymentInv'
    OBVIOUS
  <1>0. /\ cast \in Casts /\ RolesInv /\ CredentialInv /\ AgentInv /\ LoadInv
        /\ cast.scripts \subseteq Scripts /\ cast.runs \subseteq Runs
    BY CastIs DEF DeploymentInv
  \* What the parts keep when it is not their step.
  <1>r. UNCHANGED rolesVars => RolesInv'
    BY <1>0 DEF rolesVars, RolesInv, RolesTypeOK, ScriptInv, Worth
  <1>c. UNCHANGED agentVars => CredentialInv'
    BY <1>0 DEF agentVars, CredentialInv, CredentialTypeOK, LockInv, PairInv, Store,
         IssuedPairMatches, Settled, Issued
  <1>a. UNCHANGED initVars => AgentInv'
    BY <1>0 DEF initVars, AgentInv, InitTypeOK, OnceInv, DoneInv, Opened, Answered
  <1>l. UNCHANGED <<agentVars, initVars, load>> => LoadInv'
    BY <1>0 DEF agentVars, initVars, LoadInv, LoadPresentsPair, Begun, Calm, Settled, Issued
  <1>1. CASE roles_step
    <2>1. RolesInv' /\ UNCHANGED <<agentVars, initVars, cast, load>>
      BY <1>0, <1>1, StepRoles DEF roles_step
    <2> QED BY <1>0, <1>a, <1>c, <1>l, <2>1 DEF DeploymentInv
  <1>2. CASE tool_step
    <2>1. CredentialInv' /\ LoadInv' /\ UNCHANGED <<rolesVars, initVars, cast>>
      BY <1>0, <1>2, StepCredential, ToolLoads DEF tool_step
    <2> QED BY <1>0, <1>a, <1>r, <2>1 DEF DeploymentInv
  <1>3. CASE init_step
    <2>1. AgentInv' /\ LoadInv' /\ UNCHANGED <<rolesVars, agentVars, cast>>
      BY <1>0, <1>3, StartLoads DEF init_step
    <2> QED BY <1>0, <1>c, <1>r, <2>1 DEF DeploymentInv
  <1>4. CASE load_step
    <2>1. LoadInv' /\ UNCHANGED <<rolesVars, agentVars, initVars, cast>>
      BY <1>0, <1>4, StepLoads DEF load_step
    <2> QED BY <1>0, <1>a, <1>c, <1>r, <2>1 DEF DeploymentInv
  <1>5. CASE UNCHANGED deploymentVars
    BY <1>0, <1>a, <1>c, <1>l, <1>r, <1>5 DEF DeploymentInv, deploymentVars
  <1> QED BY <1>1, <1>2, <1>3, <1>4, <1>5 DEF DeploymentNext

-----------------------------------------------------------------------------
\* The invariants of the parts hold together, from any cast's beginning on.
THEOREM DeploymentInvariant == DeploymentSpec => []DeploymentInv
  <1>1. DeploymentInit => DeploymentInv
    BY InitDeployment
  <1>2. DeploymentInv /\ [DeploymentNext]_deploymentVars => DeploymentInv'
    BY StepDeployment
  <1> QED BY <1>1, <1>2, PTL DEF DeploymentSpec

\* The state of all parts has its type; in particular flock -n lets one run of
\* credential_agent_tool at a time past the start.
THEOREM DeploymentTypes == DeploymentSpec => []DeploymentTypeOK
  <1>1. DeploymentInv => DeploymentTypeOK
    BY DEF DeploymentInv, RolesInv, CredentialInv, AgentInv, LoadInv, DeploymentTypeOK
  <1> QED BY <1>1, DeploymentInvariant, PTL

\* For any number of scripts and names: a script of create_roles that gets as far as
\* printing a token prints one with both roles, of its user or of one whose name
\* begins with the user's.
THEOREM TokensEntitle == DeploymentSpec => []TokenMeansEntitled
  <1>1. DeploymentInv => TokenMeansEntitled
    BY WorthEntitles DEF DeploymentInv
  <1> QED BY <1>1, DeploymentInvariant, PTL

\* For any number of runs and stores: a run of credential_agent_tool that reaches its
\* end leaves the certificate of the key it made, and key-agent.ini names the store.
THEOREM PairsMatch == DeploymentSpec => []IssuedPairMatches
  <1>1. DeploymentInv => IssuedPairMatches
    BY DEF DeploymentInv, CredentialInv
  <1> QED BY <1>1, DeploymentInvariant, PTL

\* For any number of threads: those that call C_GetFunctionList get one answer, and
\* CKR_OK of apimodule_init means what the API module goes on to rely on.
THEOREM CallersAgree == DeploymentSpec => []AnswersAgree
  <1>1. DeploymentInv => AnswersAgree
    BY AgentAnswers DEF DeploymentInv
  <1> QED BY <1>1, DeploymentInvariant, PTL

\* A load of the key agent that no run disturbs presents curl with a certificate and
\* the key for it, however long ago the process has read its paths.
THEOREM LoadsPresentPairs == DeploymentSpec => []LoadPresentsPair
  <1>1. DeploymentInv => LoadPresentsPair
    BY DEF DeploymentInv, LoadInv
  <1> QED BY <1>1, DeploymentInvariant, PTL

=============================================================================
