------------------------------ MODULE Accounts ------------------------------
(***************************************************************************)
(* Users and their policies.  A user of the API is a row of the table User *)
(* and a role of PostgreSQL that is a member of the database role its own  *)
(* role maps to; what it may see and write is given by row policies that   *)
(* name it.  Each request is one READ COMMITTED transaction of several     *)
(* statements, the DDL ones included, and its effects appear when it       *)
(* commits; its last statement and the commit are one step here.           *)
(*                                                                         *)
(* No request checks how many rows its UPDATE or DELETE found, and what    *)
(* one statement read may be stale when a later one uses it.  The locks    *)
(* are PostgreSQL's: on the row that a statement writes, on the table of a *)
(* policy that is created, altered or dropped, and on the roles that a     *)
(* policy is to name, which DROP ROLE waits for.                           *)
(***************************************************************************)
EXTENDS Naturals, FiniteSets

CONSTANTS AccountRequest,      \* requests, each one transaction
          User, PolicyName,
          NoRole

Role == {"viewer", "editor", "obs_manager", "sensor", "qc", "custom"}

ASSUME NoRoleAssumption == NoRole \notin Role

\* DB_ROLE_BY_RBAC_ROLE.
DatabaseRole(role) ==
    IF role \in {"obs_manager", "sensor"} THEN "sensor"
    ELSE IF role = "qc" THEN "qc" ELSE "user"

\* The policies that viewer_policy, editor_policy, ... create, one per command: the
\* tables they cover share their fate, and policies of one command share a table.  Of
\* "custom" policies only those of two commands are modelled.
Commands(type) ==
    IF type = "editor" THEN {"all"}
    ELSE IF type = "viewer" THEN {"select"}
    ELSE {"select", "write"}

VARIABLES
    role,     \* role[u]: the role in the row of u, or NoRole: no such row
    login,    \* the users that are roles of PostgreSQL
    member,   \* member[u]: the database roles the role of u is a member of
    policy,   \* the policies: [name, command, users]
    request,  \* request[r]: the transaction of r
    crossed   \* history: crossed[u]: what was granted to u followed a stale read

accountVars == <<role, login, member, policy, request, crossed>>

Policy == [name : PolicyName, command : {"all", "select", "write"},
           users : (SUBSET User) \ {{}}]

\* What a statement makes of a policy: its users, none for DROP POLICY.
Change == [name : PolicyName, command : {"all", "select", "write"}, users : SUBSET User]

\* A request: the user it is about, the role it sets and the one it read, the rows it
\* holds, the policies it is still to change and those it changed.
NotBegun == [pc |-> "idle", kind |-> "none", user |-> {}, new |-> NoRole, read |-> NoRole,
             held |-> {}, todo |-> {}, done |-> {}]

Keyed(set) == \A p, q \in set : p.name = q.name /\ p.command = q.command => p = q

AccountTypeOK ==
    /\ role \in [User -> Role \union {NoRole}] /\ login \subseteq User
    /\ member \in [User -> SUBSET {"user", "sensor", "qc"}]
    /\ policy \subseteq Policy /\ Keyed(policy)
    /\ crossed \in [User -> BOOLEAN]
    /\ \A r \in AccountRequest :
          /\ request[r].pc \in {"idle", "begun", "written", "altering", "ended"}
          /\ request[r].held \subseteq request[r].user
          /\ request[r].done \subseteq Change /\ Keyed(request[r].done)

\* Some users exist; one policy may have been created for those of its type.
AccountInit ==
    /\ role \in [User -> {NoRole, "viewer"}]
    /\ login = {u \in User : role[u] # NoRole}
    /\ member = [u \in User |-> IF role[u] = NoRole THEN {} ELSE {DatabaseRole(role[u])}]
    /\ policy \in {{}} \union
         {{[name |-> n, command |-> "select", users |-> us]} : n \in PolicyName,
            us \in (SUBSET {u \in User : role[u] = "viewer"}) \ {{}}}
    /\ request = [r \in AccountRequest |-> NotBegun]
    /\ crossed = [u \in User |-> FALSE]

-----------------------------------------------------------------------------
(* Transactions.                                                           *)

TablesUnchanged == UNCHANGED <<role, login, member, policy, crossed>>

BeginRequest(r, fields) ==
    /\ request[r] = NotBegun
    /\ request' = [request EXCEPT ![r] = fields]

End(r) == request' = [request EXCEPT ![r] = [NotBegun EXCEPT !.pc = "ended"]]

InTransaction(r) == request[r].pc \in {"begun", "written", "altering"}

\* An error of the handler or of PostgreSQL, or a lost connection, rolls back: a role or a
\* policy that a statement names and that is gone (404), a name that is taken or a role that
\* policies still name (409), a deadlock.
Abandon(r) == InTransaction(r) /\ End(r) /\ TablesUnchanged

RowFree(r, u) == \A q \in AccountRequest \ {r} : u \notin request[q].held

\* UPDATE or DELETE of the row of the user: it waits for who holds the row, and holds it
\* then; a row that is gone by then, or was not there, is no error and is not held, not
\* even when a POST that has not committed is about to make it.
WriteRow(r, kind) ==
    \E u \in request[r].user :
        /\ request[r].pc = "begun" /\ request[r].kind = kind
        /\ role[u] # NoRole => RowFree(r, u)
        /\ request' = [request EXCEPT ![r].pc = "written",
                         ![r].held = IF role[u] = NoRole THEN {} ELSE {u}]
        /\ TablesUnchanged

-----------------------------------------------------------------------------
(* POST, PATCH and DELETE of Users.                                        *)

\* INSERT into User waits for a request that holds the name; 409 if it is taken.
CreateUser(r, u, new) ==
    /\ RowFree(r, u) /\ role[u] = NoRole
    /\ BeginRequest(r, [NotBegun EXCEPT !.pc = "written", !.kind = "create",
                          !.user = {u}, !.new = new, !.held = {u}])
    /\ TablesUnchanged

\* CREATE USER ... IN ROLE, and the commit.
CommitCreate(r) ==
    \E u \in request[r].user :
        /\ request[r].pc = "written" /\ request[r].kind = "create"
        /\ u \notin login
        /\ role' = [role EXCEPT ![u] = request[r].new]
        /\ login' = login \union {u}
        /\ member' = [member EXCEPT ![u] = {DatabaseRole(request[r].new)}]
        /\ crossed' = [crossed EXCEPT ![u] = FALSE]
        /\ End(r) /\ UNCHANGED policy

\* PATCH reads the role without locking the row; 404 if there is none.
ReadRole(r, u, new) ==
    /\ role[u] # NoRole
    /\ BeginRequest(r, [NotBegun EXCEPT !.pc = "begun", !.kind = "update",
                          !.user = {u}, !.new = new, !.read = role[u]])
    /\ TablesUnchanged

UpdateRole(r) == WriteRow(r, "update")

GrantOnly(granted, previous, new) == granted \union {DatabaseRole(new)}

\* REVOKE the database role of the role that was read, GRANT the new one.
Regrant(granted, previous, new) ==
    IF DatabaseRole(previous) = DatabaseRole(new) THEN granted
    ELSE (granted \ {DatabaseRole(previous)}) \union {DatabaseRole(new)}

Regrants(q) == DatabaseRole(q.read) # DatabaseRole(q.new)

\* The role may by now be another one than was read, or the row be gone: then the grants
\* go to the role of a user who was created again meanwhile, or to none.
CommitUpdate(r) ==
    \E u \in request[r].user :
        LET q == request[r] IN
        /\ q.pc = "written" /\ q.kind = "update"
        /\ Regrants(q) => u \in login
        /\ role' = IF q.held = {} THEN role ELSE [role EXCEPT ![u] = q.new]
        /\ member' = [member EXCEPT ![u] = Regrant(@, q.read, q.new)]
        /\ crossed' = [crossed EXCEPT ![u] =
              @ \/ IF q.held = {} THEN Regrants(q)
                                  ELSE DatabaseRole(role[u]) # DatabaseRole(q.read)]
        /\ End(r) /\ UNCHANGED <<login, policy>>

\* DELETE finds the user, and deletes the row once it may.
FindUser(r, u) ==
    /\ role[u] # NoRole
    /\ BeginRequest(r, [NotBegun EXCEPT !.pc = "begun", !.kind = "delete", !.user = {u}])
    /\ TablesUnchanged

DeleteRow(r) == WriteRow(r, "delete")

\* remove_user_from_policy reads the policies that name the user, all at once: it is to
\* ALTER each of them to the users it read but this one, or DROP it if there is no other.
ReadNaming(r) ==
    \E u \in request[r].user :
        /\ request[r].pc = "written" /\ request[r].kind = "delete"
        /\ request' = [request EXCEPT ![r].pc = "altering",
             ![r].todo = {[p EXCEPT !.users = @ \ {u}] : p \in {p \in policy : u \in p.users}}]
        /\ TablesUnchanged

-----------------------------------------------------------------------------
(* CREATE, ALTER and DROP POLICY.                                          *)

\* The policies of the same names: PostgreSQL allows one of a name on a table.
SameName(changes) ==
    {p \in policy : \E c \in changes : c.name = p.name /\ c.command = p.command}

\* The policies as the transaction sees them.
PoliciesAfter(changes) == (policy \ SameName(changes)) \union {c \in changes : c.users # {}}

TableFree(r, command) ==
    \A q \in AccountRequest \ {r} : \A d \in request[q].done : d.command # command

\* The next policy: its table is locked once others have ended, the policy must be there
\* (not so for CREATE), and so must the roles it names, which are locked too.
ChangePolicy(r, c) ==
    /\ request[r].pc = "altering" /\ c \in request[r].todo
    /\ TableFree(r, c.command)
    /\ IF request[r].kind = "policy" THEN SameName({c}) = {} ELSE SameName({c}) # {}
    /\ c.users \subseteq login
    /\ request' = [request EXCEPT ![r].todo = @ \ {c}, ![r].done = @ \union {c}]
    /\ TablesUnchanged

\* DROP ROLE waits for who has locked the role.  It fails if the role is gone or a policy
\* names it; but it does not mind that the row was gone, and may drop the role of a user
\* who was created again meanwhile.
CommitDelete(r) ==
    \E u \in request[r].user :
        LET q == request[r] IN
        /\ q.pc = "altering" /\ q.kind = "delete" /\ q.todo = {}
        /\ \A o \in AccountRequest \ {r} : \A d \in request[o].done : u \notin d.users
        /\ u \in login /\ \A p \in PoliciesAfter(q.done) : u \notin p.users
        /\ role' = IF q.held = {} THEN role ELSE [role EXCEPT ![u] = NoRole]
        /\ login' = login \ {u}
        /\ member' = [member EXCEPT ![u] = {}]
        /\ policy' = PoliciesAfter(q.done)
        /\ crossed' = [crossed EXCEPT ![u] = q.held = {}]
        /\ End(r)

-----------------------------------------------------------------------------
(* POST, PATCH and DELETE of Policies.                                     *)

IsToChange(kind, changes) ==
    [NotBegun EXCEPT !.pc = "altering", !.kind = kind, !.todo = changes]

\* POST checks that no user has a policy and that each has the role of the type (here all
\* users at once), and locks none of it.
CheckUsers(r, name, type, users) ==
    /\ \A u \in users : /\ \A p \in policy : u \notin p.users
                        /\ type # "custom" => role[u] = type
    /\ BeginRequest(r, IsToChange("policy",
           {[name |-> name, command |-> c, users |-> users] : c \in Commands(type)}))
    /\ TablesUnchanged

\* add_users_to_policy reads the users of ONE policy, without locking it, and sets them to
\* those it read with the new ones appended.
Appended(old, added) == old \union added

ReadPolicy(r, p, users) ==
    /\ BeginRequest(r, IsToChange("patch", {[p EXCEPT !.users = Appended(@, users)]}))
    /\ TablesUnchanged

\* DELETE finds ONE policy, and drops it.
FindPolicy(r, p) ==
    /\ BeginRequest(r, IsToChange("drop", {[p EXCEPT !.users = {}]}))
    /\ TablesUnchanged

CommitPolicy(r) ==
    /\ request[r].pc = "altering" /\ request[r].kind \in {"policy", "patch", "drop"}
    /\ request[r].todo = {}
    /\ policy' = PoliciesAfter(request[r].done)
    /\ End(r)
    /\ UNCHANGED <<role, login, member, crossed>>

UserStep(r) ==
    \/ \E u \in User, new \in {"viewer", "sensor"} :
          CreateUser(r, u, new) \/ ReadRole(r, u, new)
    \/ \E u \in User : FindUser(r, u)
    \/ CommitCreate(r) \/ UpdateRole(r) \/ CommitUpdate(r)
    \/ DeleteRow(r) \/ ReadNaming(r) \/ CommitDelete(r)

PolicyStep(r) ==
    \/ \E n \in PolicyName, t \in {"viewer", "custom"},
          us \in (SUBSET User) \ {{}} : CheckUsers(r, n, t, us)
    \/ \E p \in policy : FindPolicy(r, p) \/ \E u \in User : ReadPolicy(r, p, {u})
    \/ \E c \in request[r].todo : ChangePolicy(r, c)
    \/ CommitPolicy(r)

AccountNext == \E r \in AccountRequest : UserStep(r) \/ PolicyStep(r) \/ Abandon(r)

AccountSpec == AccountInit /\ [][AccountNext]_accountVars
-----------------------------------------------------------------------------
(* Properties.                                                             *)

\* What the table of users says and what PostgreSQL grants agree, however POST, PATCH and
\* DELETE of users and of policies overlap: a role of PostgreSQL has a row, a policy names
\* only roles that are there (delete/user.py:108), and a user of the table has its role,
\* which is a member of the one database role that the table says (update/user.py:116).
\* The last not, in two cases only, which crossed marks: its PATCH revoked another role
\* than the row had, for a PATCH between had set it; or a PATCH or DELETE found no row any
\* more, and went on to regrant or to drop the role of a user who was created again
\* meanwhile.
GrantsAgree ==
    /\ \A u \in login : role[u] # NoRole
    /\ \A p \in policy : p.users \subseteq login
    /\ \A u \in User : role[u] # NoRole /\ ~crossed[u] =>
          u \in login /\ member[u] = {DatabaseRole(role[u])}

=============================================================================
