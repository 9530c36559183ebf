----------------------------- MODULE Deployment -----------------------------
(***************************************************************************)
(* A machine on which the library is put to use: scripts that make its     *)
(* user and token, runs of the credential agent that use the token, and a  *)
(* process that starts its key agent and loads a key with the pair of      *)
(* files the credential agent has left.  Nothing orders them: they share   *)
(* the token, the stores and key-agent.ini.                                *)
(***************************************************************************)
EXTENDS CreateRoles, CredentialAgent, AgentInit

CONSTANT Casts   \* who takes part: members of Cast

\* The scripts and runs that take part, the arguments of the runs and the user of
\* their certificates, and what the process finds installed, if there is one.
Cast ==
  [scripts : SUBSET Scripts, runs : SUBSET Runs, threads : SUBSET Threads,
   args : [Runs -> Args], user : Users, build : Build]

ASSUME DeploymentAssumption == Casts \subseteq Cast

VARIABLES
  cast,   \* who takes part
  load    \* per thread: the two files a load presents, and a history

deploymentVars == <<rolesVars, agentVars, initVars, cast, load>>

-----------------------------------------------------------------------------
\* calm: the stores read were settled, key-agent.ini was, and no run was under way.
\* seen: the runs begun when the certificate was read.
Load ==
  [pc : {"none", "certificate", "both"}, certificate : Contents,
   certificate_key : Contents, calm : BOOLEAN, seen : SUBSET Runs]

NoLoad == [pc |-> "none", certificate |-> Absent, certificate_key |-> Absent,
           calm |-> TRUE, seen |-> {}]

DeploymentInit ==
  /\ cast \in Casts
  /\ args = cast.args /\ build = cast.build
  /\ RolesInit /\ CredentialInit
  /\ AgentInitial(conf.certificate)
  /\ load = [t \in Threads |-> NoLoad]

-----------------------------------------------------------------------------
(* The parts, and what they see of each other. *)

Begun == {r \in Runs : run[r] # "new"}

Calm(s) == lock = {} /\ Settled(s)

\* Whether CMS may issue a certificate for a request with the token in
\* credential_agent.ini: the token of a script that has printed one, or else the one
\* that is there already, of which nothing is known.
Approved ==
  LET printed == {i \in cast.scripts : Printed(i) /\ SKC_USER[i] = cast.user} IN
  printed # {} => \E i \in printed : Approves(script[i].token, cast.user)

roles_step ==
  /\ \E i \in cast.scripts : RolesNext(i)
  /\ UNCHANGED <<agentVars, initVars, cast, load>>

tool_step ==
  /\ \E r \in cast.runs : CredentialNext(r, Approved)
  /\ UNCHANGED <<rolesVars, initVars, cast, load>>

\* The certificate, its CA's and the key; ca_cert was put there by hand.
CredentialsThere ==
  /\ files[agent.certificate].certificate # Absent
  /\ files[agent.certificate_key].certificate_key # Absent

\* key-agent.ini is read, for good.
read_conf(t) ==
  /\ keyagent_init(t, conf.certificate, conf.certificate_key)
  /\ load' = [u \in Threads |->
               [load[u] EXCEPT !.calm = lock = {} /\ Issued(named_by)]]

init_step ==
  /\ \/ \E t \in cast.threads :
          \/ /\ \/ C_GetFunctionList(t) \/ once_enter(t) \/ answered(t)
                \/ read_ini(t) \/ load_module(t) \/ check_access(t, CredentialsThere)
                \/ load_npms(t) \/ load_stms(t) \/ register(t)
                \/ once_leave(t)
             /\ UNCHANGED load
          \/ read_conf(t)
     \/ cast.threads # {} /\ fork /\ UNCHANGED load
  /\ UNCHANGED <<rolesVars, agentVars, cast>>

\* Variant: the path of the key is that of the day, not that of the certificate's.
key_store_now == conf.certificate_key

key_store == agent.certificate_key

\* curl opens the certificate of a request and then its key, if there is an NPM.
read_certificate(t) ==
  /\ agent.alive /\ AnsweredOk(t) /\ agent.npm_hash # {} /\ load[t].pc = "none"
  /\ load' = [load EXCEPT ![t] =
       [@ EXCEPT !.pc = "certificate", !.certificate = files[agent.certificate].certificate,
                 !.calm = load[t].calm /\ Calm(agent.certificate), !.seen = Begun]]

read_key(t) ==
  /\ agent.alive /\ load[t].pc = "certificate"
  /\ load' = [load EXCEPT ![t] =
       [@ EXCEPT !.pc = "both", !.certificate_key = files[key_store].certificate_key,
                 !.calm = load[t].calm /\ Begun = load[t].seen, !.seen = {}]]

load_step ==
  /\ \E t \in cast.threads : read_certificate(t) \/ read_key(t)
  /\ UNCHANGED <<rolesVars, agentVars, initVars, cast>>

DeploymentNext == roles_step \/ tool_step \/ init_step \/ load_step

DeploymentSpec == DeploymentInit /\ [][DeploymentNext]_deploymentVars

-----------------------------------------------------------------------------
(* The state of every part has its type, and one run at a time holds the   *)
(* credential agent's lock.                                                *)
DeploymentTypeOK ==
  /\ RolesTypeOK /\ CredentialTypeOK /\ InitTypeOK(Stores)
  /\ cast \in Casts
  /\ load \in [Threads -> Load]

(* A load presents a certificate and the key it was issued for, although   *)
(* it reads them one after the other from paths read long before, perhaps  *)
(* of a store that is no longer the current one: provided that no run of   *)
(* the credential agent was under way at the three reads or began between  *)
(* the last two, and that the last run to make a key in the store, and the *)
(* last to write key-agent.ini, had reached their end.                     *)
LoadPresentsPair ==
  \A t \in Threads :
    load[t].pc = "both" /\ load[t].calm =>
      load[t].certificate \in Owners /\ load[t].certificate = load[t].certificate_key

=============================================================================
