------------------------------ MODULE UasUsers ------------------------------
(* Accounts of the UAS developer (user_management/user_service.py).  Every   *)
(* operation that changes the table first reads it by SELECTs that open no   *)
(* transaction and then writes it: Checked holds of what is read, Write is   *)
(* what is committed.  A call is a record [op, actor, user, role]: the       *)
(* operation, the role its sender acts in, the account and the role it is    *)
(* about.                                                                    *)
EXTENDS Naturals, FiniteSets

CONSTANTS
    Users,      \* account names
    None

VARIABLES
    roleOf,     \* role of each account, None when there is no such account
    active      \* is_active of each account

Admin == "admin"
Roles == {Admin, "developer", "operator"}

ASSUME UsersAssumption == IsFiniteSet(Users) /\ None \notin Roles

Exists(u) == roleOf[u] # None
Accounts == {u \in Users : Exists(u)}
Admins == {u \in Users : roleOf[u] = Admin}
ActiveAdmins == {u \in Admins : active[u]}

\* Operations for administrators only (require_role), and those that read only.
AdminOps == {"create", "enable", "disable", "delete", "list_users"}
UserReads == {"login", "list_users"}
UserOps == AdminOps \cup {"login", "bootstrap"}

\* The COUNT a later write relies on.
Counted(c) ==
    CASE c.op = "bootstrap" -> Cardinality(Accounts)
      [] c.op = "disable" /\ roleOf[c.user] = Admin -> Cardinality(ActiveAdmins)
      [] c.op = "delete" /\ roleOf[c.user] = Admin -> Cardinality(Admins)
      [] OTHER -> 0

\* Bugs to check AdminOnly and AdminRemains against: the role is not required, and
\* blocked administrators are counted.
CheckedAnyRole(c, purchasesTable) ==
    /\ c.op = "bootstrap" => Accounts = {}
    /\ c.op = "create" => c.role \in Roles
    /\ c.op = "login" => Exists(c.user) /\ active[c.user]
    /\ c.op \in {"enable", "disable", "delete"} => Exists(c.user)
    /\ c.op = "delete" => purchasesTable
CheckedUncounted(c, purchasesTable) ==
    /\ c.op \in AdminOps => c.actor = Admin
    /\ CheckedAnyRole(c, purchasesTable)
    /\ c.op = "disable" /\ roleOf[c.user] = Admin => Cardinality(Admins) > 1

\* What must hold when the table is read for the operation not to raise;
\* purchasesTable says whether the database has the table that delete_user reads.
Checked(c, purchasesTable) ==
    /\ c.op \in AdminOps => c.actor = Admin
    /\ c.op = "bootstrap" => Accounts = {}
    /\ c.op = "create" => c.role \in Roles
    /\ c.op = "login" => Exists(c.user) /\ active[c.user]
    /\ c.op \in {"enable", "disable", "delete"} => Exists(c.user)
    /\ c.op = "disable" /\ roleOf[c.user] = Admin => Cardinality(ActiveAdmins) > 1
    /\ c.op = "delete" => /\ roleOf[c.user] = Admin => Cardinality(Admins) > 1
                          /\ purchasesTable

\* The INSERT of an account that exists violates the primary key.
Insert(u, role) ==
    /\ ~Exists(u)
    /\ roleOf' = [roleOf EXCEPT ![u] = role]
    /\ active' = [active EXCEPT ![u] = TRUE]

\* An UPDATE or DELETE of an account that has gone meanwhile changes nothing
\* and is reported as done.
SetActive(u, value) ==
    /\ active' = [active EXCEPT ![u] = IF Exists(u) THEN value ELSE @]
    /\ UNCHANGED roleOf

Delete(u) ==
    /\ roleOf' = [roleOf EXCEPT ![u] = None]
    /\ active' = [active EXCEPT ![u] = FALSE]

Write(c) ==
    \/ c.op = "bootstrap" /\ Insert(c.user, Admin)
    \/ c.op = "create" /\ Insert(c.user, c.role)
    \/ c.op \in {"enable", "disable"} /\ SetActive(c.user, c.op = "enable")
    \/ c.op = "delete" /\ Delete(c.user)

UsersInit ==
    /\ roleOf = [u \in Users |-> None]
    /\ active = [u \in Users |-> FALSE]
=============================================================================
