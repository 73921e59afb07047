-------------------------------- MODULE ACL --------------------------------
(***************************************************************************)
(* The access-control list of Contracts/shared/src/acl.rs, and the         *)
(* wrappers through which the contracts offer it (messaging and trading).  *)
(* "roles_ex", the set of created roles, decides nothing and is left out:  *)
(* every function that needs a role creates it.                            *)
(***************************************************************************)
EXTENDS Ledger, SequencesExt

CONSTANTS
  AclUsers,      \* the accounts that call it
  Admin,         \* the admin given to init
  Roles,         \* role names, "admin" among them
  Permissions,   \* permission names, "manage_acl" among them
  MaxRoleDepth   \* the depth at which check_role panics

VARIABLES
  u_roles,       \* "u_roles": user -> roles, in the order they were assigned
  r_perms,       \* "r_perms": role -> permissions
  r_parent       \* "r_parent": role -> parent role, for some of the roles

aclVars == <<u_roles, r_perms, r_parent>>

AclTypeOK ==
  /\ u_roles \in [AclUsers -> Seq(Roles)]
  /\ \A u \in AclUsers : IsInjective(u_roles[u])
  /\ r_perms \in [Roles -> SUBSET Permissions]
  /\ DOMAIN r_parent \subseteq Roles
  /\ \A r \in DOMAIN r_parent : r_parent[r] \in Roles \ {r}

\* As init leaves it.
AclInit ==
  /\ u_roles = [u \in AclUsers |-> IF u = Admin THEN <<"admin">> ELSE <<>>]
  /\ r_perms = [r \in Roles |-> IF r = "admin" THEN {"manage_acl"} ELSE {}]
  /\ r_parent = Empty

\* The roles check_role visits from a role upwards; "" when there is no parent.
Lineage(role) ==
  LET up[d \in 0 .. MaxRoleDepth + 1] ==
        IF d = 0 THEN role
        ELSE IF Has(r_parent, up[d - 1]) THEN r_parent[up[d - 1]] ELSE ""
  IN  up

\* A bug this module must not have: the parent is asked before the role itself.
check_role_parent_first(role, permission) ==
  LET up == Lineage(role)
  IN  IF up[MaxRoleDepth + 1] # "" THEN "panic"
      ELSE IF \E d \in 0 .. MaxRoleDepth : up[d] # "" /\ permission \in r_perms[up[d]]
      THEN "granted" ELSE "denied"

\* The role's own permissions come before its parent's, and a lineage that is
\* too long, or goes round in a circle, panics when nothing on it grants.
check_role(role, permission) ==
  LET up == Lineage(role)
  IN  IF \E d \in 0 .. MaxRoleDepth : up[d] # "" /\ permission \in r_perms[up[d]]
      THEN "granted"
      ELSE IF up[MaxRoleDepth + 1] # "" THEN "panic" ELSE "denied"

\* Roles are asked in order until one grants; a panic ends the call.
has_permission(user, permission) ==
  \E i \in DOMAIN u_roles[user] :
    /\ check_role(u_roles[user][i], permission) = "granted"
    /\ \A j \in 1 .. i - 1 : check_role(u_roles[user][j], permission) = "denied"

require_permission(user, permission) == has_permission(user, permission)

assign_role(admin, user, role) ==
  /\ require_permission(admin, "manage_acl")
  /\ u_roles' = [u_roles EXCEPT ![user] = IF Contains(@, role) THEN @ ELSE Append(@, role)]
  /\ UNCHANGED <<now, r_perms, r_parent>>

\* Also assign_permission, with one permission.
assign_permissions_batch(admin, role, permissions) ==
  /\ require_permission(admin, "manage_acl")
  /\ r_perms' = [r_perms EXCEPT ![role] = @ \cup permissions]
  /\ UNCHANGED <<now, u_roles, r_parent>>

set_role_parent(admin, child, parent) ==
  /\ require_permission(admin, "manage_acl")
  /\ child # parent
  /\ r_parent' = Put(r_parent, child, parent)
  /\ UNCHANGED <<now, u_roles, r_perms>>

AclNext ==
  \E a \in AclUsers :
    \/ \E u \in AclUsers, r \in Roles : assign_role(a, u, r)
    \/ \E r \in Roles, p \in SUBSET Permissions : assign_permissions_batch(a, r, p)
    \/ \E c, p \in Roles : set_role_parent(a, c, p)

AclSpec == AclInit /\ [][AclNext]_<<now, aclVars>>

-----------------------------------------------------------------------------
\* The access list can always be managed: no sequence of assignments and
\* changes of the hierarchy, circles included, takes from the administrator the
\* permission to change it.
AdminKeepsControl == has_permission(Admin, "manage_acl")
=============================================================================
