----------------------------- MODULE CreateRoles -----------------------------
(***************************************************************************)
(* skc_library_create_roles.sh: the user of the library, its two roles and *)
(* its token, made by requests to the authentication service (AAS).  Each  *)
(* thing is looked up and made only if it is not there, so a script can be *)
(* run again after a failure; several scripts may run at once.  Names of   *)
(* users and roles are unique in AAS, which maps only roles it has; ids    *)
(* are the users and roles themselves.                                     *)
(***************************************************************************)

CONSTANTS
  Scripts,           \* runs of the script
  Users,             \* values of SKC_USER
  Permissions,       \* values of PERMISSION
  SKC_USER,          \* the user of a script
  PERMISSION,        \* the permission of a script
  Begins,            \* per user, the users whose names begin with its name
  NoId               \* what jq makes of an answer that is not a list

ASSUME CreateRolesAssumption ==
  /\ SKC_USER \in [Scripts -> Users]
  /\ PERMISSION \in [Scripts -> Permissions]
  /\ Begins \in [Users -> SUBSET Users] /\ \A u \in Users : u \in Begins[u]
  /\ NoId \notin Users

VARIABLES
  aas,       \* the service: its users, its roles, and the roles of each user
  script     \* per script: the call it is at, what it has found, what it prints

rolesVars == <<aas, script>>

-----------------------------------------------------------------------------
CertApprover(u) == [name |-> "CertApprover", context |-> u]
KeyTransfer(p) == [name |-> "KeyTransfer", context |-> p]

CertRoles == {CertApprover(u) : u \in Users}
TransferRoles == {KeyTransfer(p) : p \in Permissions}
Roles == CertRoles \cup TransferRoles

NoRole == [name |-> "none", context |-> NoId]

Calls == {"find_user", "make_user", "find_cert", "make_cert",
          "find_transfer", "make_transfer", "map_roles", "get_token"}

Script ==
  [pc : Calls \cup {"printed", "failed"}, user_id : Users \cup {NoId},
   cms_role_id : CertRoles \cup {NoRole}, kbs_role_id : TransferRoles \cup {NoRole},
   token : SUBSET Roles]

RolesTypeOK ==
  /\ aas \in [users : SUBSET Users, roles : SUBSET Roles,
              granted : [Users -> SUBSET Roles]]
  /\ script \in [Scripts -> Script]

RolesInit ==
  /\ aas = [users |-> {}, roles |-> {}, granted |-> [u \in Users |-> {}]]
  /\ script = [i \in Scripts |->
                [pc |-> "find_user", user_id |-> NoId, cms_role_id |-> NoRole,
                 kbs_role_id |-> NoRole, token |-> {}]]

Calling(i, call) == script[i].pc = call

\* Script i goes on as s.
Goes(i, s) == script' = [script EXCEPT ![i] = s]

\* A POST that the service refuses, or whose answer does not come: the script ends,
\* whether or not the service has done what it asks.
Posted(i, s) == Goes(i, s) \/ Goes(i, [script[i] EXCEPT !.pc = "failed"])

-----------------------------------------------------------------------------
(* create_skclib_user. *)

\* The status of a GET is not looked at.  An answer that is an object and not a list
\* has a length, and no id at [0].  An empty answer, or one jq cannot read, has no
\* length at all: the test fails, as it does for an empty list, and the script goes
\* on to make what may be there.
find_user(i) ==
  LET u == SKC_USER[i] IN
  /\ Calling(i, "find_user")
  /\ \/ /\ u \in aas.users
        /\ Goes(i, [script[i] EXCEPT !.pc = "find_cert", !.user_id = u])
     \/ Goes(i, [script[i] EXCEPT !.pc = "make_user"])
     \/ Goes(i, [script[i] EXCEPT !.pc = "find_cert"])
  /\ UNCHANGED aas

make_user(i) ==
  LET u == SKC_USER[i] IN
  /\ Calling(i, "make_user")
  /\ u \notin aas.users
  /\ Posted(i, [script[i] EXCEPT !.pc = "find_cert", !.user_id = u])
  /\ aas' = [aas EXCEPT !.users = @ \cup {u}]

-----------------------------------------------------------------------------
(* create_roles. *)

\* Variant: the roles are found by their name alone, as those of KeyTransfer are.
cert_roles_by_name(u) == CertRoles

\* contextContains=CN=$SKC_USER
cert_roles_of(u) == {CertApprover(v) : v \in Begins[u]}

\* The first role of the list, in an order of the service's own.
find_cert(i) ==
  LET found == aas.roles \cap cert_roles_of(SKC_USER[i]) IN
  /\ Calling(i, "find_cert")
  /\ \/ \E r \in found :
          Goes(i, [script[i] EXCEPT !.pc = "find_transfer", !.cms_role_id = r])
     \/ Goes(i, [script[i] EXCEPT !.pc = "make_cert"])
     \/ Goes(i, [script[i] EXCEPT !.pc = "find_transfer"])
  /\ UNCHANGED aas

make_cert(i) ==
  LET r == CertApprover(SKC_USER[i]) IN
  /\ Calling(i, "make_cert")
  /\ r \notin aas.roles
  /\ Posted(i, [script[i] EXCEPT !.pc = "find_transfer", !.cms_role_id = r])
  /\ aas' = [aas EXCEPT !.roles = @ \cup {r}]

\* name=KeyTransfer, whatever its permissions.
find_transfer(i) ==
  LET found == aas.roles \cap TransferRoles IN
  /\ Calling(i, "find_transfer")
  /\ \/ \E r \in found :
          Goes(i, [script[i] EXCEPT !.pc = "map_roles", !.kbs_role_id = r])
     \/ Goes(i, [script[i] EXCEPT !.pc = "make_transfer"])
     \/ Goes(i, [script[i] EXCEPT !.pc = "map_roles"])
  /\ UNCHANGED aas

make_transfer(i) ==
  LET r == KeyTransfer(PERMISSION[i]) IN
  /\ Calling(i, "make_transfer")
  /\ r \notin aas.roles
  /\ Posted(i, [script[i] EXCEPT !.pc = "map_roles", !.kbs_role_id = r])
  /\ aas' = [aas EXCEPT !.roles = @ \cup {r}]

-----------------------------------------------------------------------------
(* mapUser_to_role and the token. *)

map_roles(i) ==
  LET s == script[i]
      ids == {s.cms_role_id, s.kbs_role_id}
  IN
  /\ Calling(i, "map_roles")
  /\ s.user_id # NoId /\ ids \subseteq aas.roles
  /\ Posted(i, [s EXCEPT !.pc = "get_token"])
  /\ aas' = [aas EXCEPT !.granted[s.user_id] = @ \cup ids]

\* The token carries the roles its user has now.
get_token(i) ==
  /\ Calling(i, "get_token")
  /\ Goes(i, [script[i] EXCEPT !.pc = "printed", !.token = aas.granted[SKC_USER[i]]])
  /\ UNCHANGED aas

\* A curl that fails, or a POST that is refused: what is there already cannot be
\* made again, and an id that is not known cannot be mapped.
request_fails(i) ==
  /\ script[i].pc \in Calls
  /\ Goes(i, [script[i] EXCEPT !.pc = "failed"])
  /\ UNCHANGED aas

RolesNext(i) ==
  \/ find_user(i) \/ make_user(i)
  \/ find_cert(i) \/ make_cert(i)
  \/ find_transfer(i) \/ make_transfer(i)
  \/ map_roles(i) \/ get_token(i)
  \/ request_fails(i)

-----------------------------------------------------------------------------
Printed(i) == script[i].pc = "printed"

\* The certificate service (CMS) issues a certificate for CN=u to a token with the
\* role whose context names it.
Approves(token, u) == CertApprover(u) \in token

(* Whatever fails and however scripts interleave, a script that prints a   *)
(* token has made it worth something: it carries a KeyTransfer role and a  *)
(* CertApprover role, and CMS issues a certificate for the user's name     *)
(* with it unless the service has a role of another user whose name begins *)
(* with it, which the look-up by contextContains takes for the user's own. *)
TokenMeansEntitled ==
  \A i \in {j \in Scripts : Printed(j)} :
    LET u == SKC_USER[i]
        token == script[i].token
    IN /\ token \cap TransferRoles # {}
       /\ \E v \in Begins[u] : CertApprover(v) \in token
       /\ \/ Approves(token, u)
          \/ \E v \in Begins[u] \ {u} : CertApprover(v) \in aas.roles

=============================================================================
