------------------------------ MODULE AgentInit ------------------------------
(***************************************************************************)
(* How a process comes to have a key agent: its threads call               *)
(* C_GetFunctionList, and the first of them runs apimodule_init, which     *)
(* loads the PKCS#11 library, starts the key agent (keyagent_init) and     *)
(* registers with it for the mode of the API module.  The others wait for  *)
(* it, and all of them, also later ones, get what it left.                 *)
(*                                                                         *)
(* A step that fails leaves what was done before it: the handler for       *)
(* children may be registered although no library was loaded.              *)
(***************************************************************************)
CONSTANTS
  Threads,   \* threads that call C_GetFunctionList
  Modes,     \* modes of the API module; the STM of a mode has its name
  NoMode     \* the mode was not read

ASSUME AgentInitAssumption == "SGX" \in Modes /\ NoMode \notin Modes

VARIABLES
  build,     \* what is installed, and does not change
  agent,     \* the process: API module, key agent and a child
  thread     \* per thread: its step, and the answer it got

initVars == <<build, agent, thread>>

-----------------------------------------------------------------------------
\* pkcs11-apimodule.ini up to the first key that is missing; the library, which may
\* export C_GetFunctionList only; whether key-agent.ini is whole; the kinds of plug-ins
\* there are files of; and the NPMs and STMs that start.
Build ==
  [mode : Modes, ini : {"no mode", "no module", "whole"},
   library : {"missing", "bare", "full"},
   agent_ini : BOOLEAN, files : SUBSET {"npm", "stm"},
   npms : SUBSET {"KMS"}, stms : SUBSET Modes]

Steps == {"read_ini", "load_module", "keyagent_init", "access", "load_npms",
          "load_stms", "register", "leave"}

Answer == [rv : {"CKR_OK", "error"}, list : BOOLEAN]

NoAnswer == [rv |-> "error", list |-> FALSE]

\* The stores are those read from key-agent.ini for certificate and certificate_key.
AgentState(stores) ==
  [once : {"no", "busy", "done"}, mode : Modes \cup {NoMode}, rv : {"CKR_OK", "error"},
   func_list : BOOLEAN, c_finalize : BOOLEAN, atfork : BOOLEAN,
   certificate : stores, certificate_key : stores, initialized : BOOLEAN,
   npm_hash : SUBSET {"KMS"}, stm_hash : SUBSET Modes, enabled : SUBSET Modes,
   alive : BOOLEAN, child : {"none", "prepared", "plain", "died"}]
ThreadState == [pc : {"out", "once", "answered"} \cup Steps, answer : Answer]

InitTypeOK(stores) ==
  /\ build \in Build
  /\ agent \in AgentState(stores)
  /\ thread \in [Threads -> ThreadState]

AgentInitial(s) ==
  /\ agent = [once |-> "no", mode |-> NoMode, rv |-> "error", func_list |-> FALSE,
              c_finalize |-> FALSE, atfork |-> FALSE, certificate |-> s,
              certificate_key |-> s, initialized |-> FALSE, npm_hash |-> {},
              stm_hash |-> {}, enabled |-> {}, alive |-> TRUE, child |-> "none"]
  /\ thread = [t \in Threads |-> [pc |-> "out", answer |-> NoAnswer]]

-----------------------------------------------------------------------------
InStep(t, pc) == agent.alive /\ thread[t].pc = pc

Moves(t, pc) == thread' = [thread EXCEPT ![t].pc = pc]

\* apimodule_init returns with an error.
Fails(t) == Moves(t, "leave")

C_GetFunctionList(t) ==
  /\ InStep(t, "out")
  /\ Moves(t, "once")
  /\ UNCHANGED <<build, agent>>

\* Variant: once is an ordinary flag, which two threads may find unset.
enters_checked_late == agent.once # "done"

\* g_once_init_enter
enters == agent.once = "no"

once_enter(t) ==
  /\ InStep(t, "once")
  /\ enters
  /\ agent' = [agent EXCEPT !.once = "busy"]
  /\ Moves(t, "read_ini")
  /\ UNCHANGED build

\* *ppFunctionList = func_list, also after a failure.
answered(t) ==
  /\ InStep(t, "once")
  /\ agent.once = "done"
  /\ thread' = [thread EXCEPT ![t] =
       [pc |-> "answered", answer |-> [rv |-> agent.rv, list |-> agent.func_list]]]
  /\ UNCHANGED <<build, agent>>

read_ini(t) ==
  /\ InStep(t, "read_ini")
  /\ agent' = [agent EXCEPT !.mode = IF build.ini = "no mode" THEN NoMode ELSE build.mode]
  /\ IF build.ini = "whole" THEN Moves(t, "load_module") ELSE Fails(t)
  /\ UNCHANGED build

\* The library may have no C_Finalize to be looked up.
load_module(t) ==
  /\ InStep(t, "load_module")
  /\ IF build.library = "missing"
     THEN /\ Fails(t)
          /\ UNCHANGED agent
     ELSE /\ agent' = [agent EXCEPT !.func_list = TRUE,
                                    !.c_finalize = build.library = "full"]
          /\ Moves(t, "keyagent_init")
  /\ UNCHANGED build

\* key-agent.ini, read at once, names these two stores.
keyagent_init(t, certificate, certificate_key) ==
  /\ InStep(t, "keyagent_init")
  /\ agent' = [agent EXCEPT !.certificate = certificate,
                            !.certificate_key = certificate_key]
  /\ IF build.agent_ini THEN Moves(t, "access") ELSE Fails(t)
  /\ UNCHANGED build

\* The certificate, the CA's and a key of format PEM must be there.
check_access(t, there) ==
  /\ InStep(t, "access")
  /\ IF there THEN Moves(t, "load_npms") ELSE Fails(t)
  /\ UNCHANGED <<build, agent>>

\* A plug-in that does not start is logged and left out.  For an NPM that cannot be
\* opened the format of the log message is the GError itself (npm_init.cpp:23): the
\* bytes of a small quark, which end in a zero, so the message is garbage and no more.
npms_started == build.npms

stms_started == build.stms

\* That there is no file npm_*.so is an error.
load_npms(t) ==
  /\ InStep(t, "load_npms")
  /\ IF "npm" \in build.files
     THEN /\ agent' = [agent EXCEPT !.npm_hash = npms_started]
          /\ Moves(t, "load_stms")
     ELSE /\ Fails(t)
          /\ UNCHANGED agent
  /\ UNCHANGED build

\* So for stm_*.so; the local cache is off.
load_stms(t) ==
  /\ InStep(t, "load_stms")
  /\ IF "stm" \in build.files
     THEN /\ agent' = [agent EXCEPT !.initialized = TRUE, !.stm_hash = stms_started]
          /\ Moves(t, "register")
     ELSE /\ Fails(t)
          /\ UNCHANGED agent
  /\ UNCHANGED build

\* __keyagent_stm_apimodule_enable
may_enable(mode) == mode \in agent.stm_hash

\* keyagent_apimodule_register.  Without an STM of the mode it fails and sets no
\* error, and apimodule_init reads error->message.
register(t) ==
  /\ InStep(t, "register")
  /\ IF may_enable(agent.mode)
     THEN agent' = [agent EXCEPT !.enabled = @ \cup {agent.mode}, !.rv = "CKR_OK"]
     ELSE agent' = [agent EXCEPT !.alive = FALSE]
  /\ Moves(t, "leave")
  /\ UNCHANGED build

\* pthread_atfork, once, whether or not apimodule_init was successful.
once_leave(t) ==
  /\ InStep(t, "leave")
  /\ agent' = [agent EXCEPT !.atfork = agent.mode = "SGX", !.once = "done"]
  /\ thread' = [thread EXCEPT ![t] =
       [pc |-> "answered", answer |-> [rv |-> agent.rv, list |-> agent.func_list]]]
  /\ UNCHANGED build

\* The process forks; apimodule_prepare_child begins with C_Finalize, a call of
\* c_finalize.
fork ==
  /\ agent.alive /\ agent.child = "none"
  /\ agent' = [agent EXCEPT !.child = IF ~agent.atfork THEN "plain"
                                      ELSE IF agent.c_finalize THEN "prepared"
                                      ELSE "died"]
  /\ UNCHANGED <<build, thread>>

-----------------------------------------------------------------------------
Answered(t) == thread[t].pc = "answered"

AnsweredOk(t) == Answered(t) /\ thread[t].answer.rv = "CKR_OK"

(* However threads race for the initialization, and whichever of its steps *)
(* fails: all of them get the same answer; who gets CKR_OK has a library,  *)
(* an initialized key agent and, enabled in it, the STM of the mode; a     *)
(* child dies at once only if C_Finalize was never resolved, after a       *)
(* failure or with a library that does not export it; and the process dies *)
(* only for want of the mode's STM.                                        *)
AnswersAgree ==
  /\ \A t, u \in Threads :
       Answered(t) /\ Answered(u) => thread[t].answer = thread[u].answer
  /\ \A t \in Threads : AnsweredOk(t) =>
       thread[t].answer.list /\ agent.initialized /\ agent.mode \in agent.enabled
  /\ agent.child = "died" =>
       build.library = "bare" \/ ~ \E t \in Threads : AnsweredOk(t)
  /\ ~agent.alive => build.mode \notin build.stms

=============================================================================
