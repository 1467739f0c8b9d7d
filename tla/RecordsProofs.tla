---------------------------- MODULE RecordsProofs ----------------------------
(***************************************************************************)
(* Theorems about three of the components that MCRecords checks together:  *)
(* Accounts, below it EntityImport, and at the end Patching.               *)
(*                                                                         *)
(* Accounts: the types, and that what PostgreSQL grants agrees with the    *)
(* table of users, but for the two cases of stale reads that it leaves     *)
(* out.  GrantsAgree is about what is committed.  It is kept by what the   *)
(* open transactions hold (AInv): the row that a request has written is    *)
(* there and no other holds it; and the roles that a policy is being given *)
(* to are there, since DROP ROLE waits.                                    *)
(*                                                                         *)
(* EntityImport: the types, that what a run went through is stored when it *)
(* ends, and that a rerun adds nothing but what an earlier run had to      *)
(* skip.  Both are about runs that have ended; on the way (EInv) what a    *)
(* run is past is there or excused (Passed), an entity made by             *)
(* eyeonwater2istsos is there with the entity that nests it (Together),    *)
(* and without overlap nothing comes between the look of a run and its     *)
(* POST (Unseen).                                                          *)
(*                                                                         *)
(* Patching: the types, and that an answer 200 holds.  A request knows     *)
(* (Asks) which columns it will write and a version of the row that is not *)
(* later than the committed one, so a statement that finds another version *)
(* was overtaken by a PATCH that re-created the row; and the row of who    *)
(* holds it (Held) is the committed one with the columns of that request.  *)
(* And that requests one after the other leave the document the standards  *)
(* prescribe (PatchesInTurn), for which the only request at work           *)
(* (AlonePatch) writes what it has read, on the row it has read.           *)
(***************************************************************************)
EXTENDS EntityImport, Accounts, Patching, FiniteSetTheorems, WellFoundedInduction, TLAPS

None == {{}} \union {{u} : u \in User}

\* What a request may know.
RequestRecord ==
    [pc : {"idle", "begun", "written", "altering", "ended"},
     kind : {"none", "create", "update", "delete", "policy", "patch", "drop"},
     user : None, new : Role \union {NoRole}, read : Role \union {NoRole},
     held : SUBSET User, todo : SUBSET Change, done : SUBSET Change]

\* A request that holds a row without being about to make it holds one that is there, it
\* changes a policy once, not before it altered any, and the roles it gives a policy are
\* there.
Right(x) ==
    /\ x \in RequestRecord
    /\ x.held \subseteq x.user
    /\ x.kind \in {"create", "update"} => x.new \in Role
    /\ x.kind # "create" => \A u \in x.held : role[u] # NoRole
    /\ Keyed(x.todo \union x.done)
    /\ x.pc # "altering" => x.done = {}
    /\ \A d \in x.done : d.users \subseteq login

Tables ==
    /\ role \in [User -> Role \union {NoRole}] /\ login \subseteq User
    /\ member \in [User -> SUBSET {"user", "sensor", "qc"}]
    /\ policy \subseteq Policy /\ Keyed(policy)
    /\ crossed \in [User -> BOOLEAN]

\* One request holds a row.
Exclusive == \A q, r \in AccountRequest : q # r => request[q].held \intersect request[r].held = {}

Requests ==
    /\ request \in [AccountRequest -> RequestRecord]
    /\ \A r \in AccountRequest : Right(request[r])
    /\ Exclusive

AInv == Tables /\ Requests /\ GrantsAgree

-----------------------------------------------------------------------------
(* Requests.                                                               *)

\* A request that has done or read something.
LEMMA GoesOn ==
    ASSUME AInv, NEW r \in AccountRequest, NEW x, Right(x), TablesUnchanged,
           request' = [request EXCEPT ![r] = x],
           \A q \in AccountRequest \ {r} : request[q].held \intersect x.held = {}
    PROVE  AInv'
  <1>1. Tables' /\ GrantsAgree'
    BY DEF AInv, Tables, GrantsAgree, TablesUnchanged, Keyed
  <1>2. request' \in [AccountRequest -> RequestRecord]
    BY DEF AInv, Requests, Right
  <1>3. \A q \in AccountRequest : request'[q] = IF q = r THEN x ELSE request[q]
    BY DEF AInv, Requests
  <1>4. \A q \in AccountRequest : Right(request'[q])
    BY <1>3 DEF AInv, Requests
  <1>5. \A q \in AccountRequest : Right(request[q])'
    BY <1>4 DEF Right, TablesUnchanged, Keyed
  <1>6. Exclusive'
    BY <1>3 DEF AInv, Requests, Exclusive
  <1> QED BY <1>1, <1>2, <1>5, <1>6 DEF AInv, Requests

Ended == [NotBegun EXCEPT !.pc = "ended"]

LEMMA EndedIs ==
    /\ Ended.held = {} /\ Ended.todo = {} /\ Ended.done = {} /\ Ended.user = {}
    /\ Ended.kind = "none" /\ Ended \in RequestRecord
  BY DEF Ended, NotBegun, RequestRecord, None

\* A request that ends takes nothing from the others, unless it takes a row they hold or
\* a role they gave a policy.
LEMMA Ends ==
    ASSUME AInv, NEW r \in AccountRequest, End(r),
           \A q \in AccountRequest \ {r} : \A u \in request[q].held :
              role[u] # NoRole => role'[u] # NoRole,
           \A q \in AccountRequest \ {r} : \A d \in request[q].done : d.users \subseteq login'
    PROVE  Requests'
  <1>1. \A q \in AccountRequest : request'[q] = IF q = r THEN Ended ELSE request[q]
    BY DEF AInv, Requests, End, Ended
  <1>2. request' \in [AccountRequest -> RequestRecord]
    BY EndedIs DEF AInv, Requests, End, Ended
  <1>3. ASSUME NEW q \in AccountRequest PROVE Right(request[q])'
    <2>1. CASE q = r
      <3>1. request'[q] = Ended
        BY <1>1, <2>1
      <3> QED BY <3>1, EndedIs DEF Right, Keyed
    <2>2. CASE q # r
      <3>1. request'[q] = request[q] /\ Right(request[q])
        BY <1>1, <2>2 DEF AInv, Requests
      <3> QED BY <2>2, <3>1 DEF Right, Keyed
    <2> QED BY <2>1, <2>2
  <1>4. Exclusive'
    BY <1>1, EndedIs DEF AInv, Requests, Exclusive
  <1> QED BY <1>2, <1>3, <1>4 DEF Requests

\* The policies after the changes of a request.
LEMMA AfterKeeps ==
    ASSUME AInv, NEW r \in AccountRequest
    PROVE  /\ PoliciesAfter(request[r].done) \subseteq Policy /\ Keyed(PoliciesAfter(request[r].done))
           /\ \A p \in PoliciesAfter(request[r].done) : p.users \subseteq login
  <1> DEFINE done == request[r].done
  <1>1. /\ done \subseteq Change /\ Keyed(done) /\ policy \subseteq Policy /\ Keyed(policy)
        /\ \A d \in done : d.users \subseteq login
        /\ \A p \in policy : p.users \subseteq login
    BY DEF AInv, Requests, Tables, Right, RequestRecord, Keyed, GrantsAgree
  <1> HIDE DEF done
  <1>2. \A p \in PoliciesAfter(done) :
           \/ p \in policy /\ \A d \in done : ~(d.name = p.name /\ d.command = p.command)
           \/ p \in done /\ p.users # {}
    BY DEF PoliciesAfter, SameName
  <1>3. PoliciesAfter(done) \subseteq Policy
    BY <1>1, <1>2 DEF Change, Policy
  <1>4. Keyed(PoliciesAfter(done))
    BY <1>1, <1>2 DEF Keyed
  <1>5. \A p \in PoliciesAfter(done) : p.users \subseteq login
    BY <1>1, <1>2
  <1> QED BY <1>3, <1>4, <1>5 DEF done

\* A database role is one of three.
LEMMA DatabaseRoles == \A x : DatabaseRole(x) \in {"user", "sensor", "qc"}
  BY DEF DatabaseRole

LEMMA AInit == AccountInit => AInv
  <1> SUFFICES ASSUME AccountInit PROVE AInv
    OBVIOUS
  <1>1. /\ NotBegun \in RequestRecord /\ NotBegun.held = {} /\ NotBegun.todo = {}
        /\ NotBegun.done = {} /\ NotBegun.kind = "none"
    BY DEF NotBegun, RequestRecord, None
  <1>2. \A r \in AccountRequest : request[r] = NotBegun
    BY DEF AccountInit
  <1>3. Requests
    <2>1. request \in [AccountRequest -> RequestRecord]
      BY <1>1 DEF AccountInit
    <2>2. \A r \in AccountRequest : Right(request[r])
      BY <1>1, <1>2 DEF Right, Keyed
    <2>3. Exclusive
      BY <1>1, <1>2 DEF Exclusive
    <2> QED BY <2>1, <2>2, <2>3 DEF Requests
  <1>4. /\ role \in [User -> {NoRole, "viewer"}] /\ login = {u \in User : role[u] # NoRole}
        /\ member = [u \in User |-> IF role[u] = NoRole THEN {} ELSE {DatabaseRole(role[u])}]
        /\ crossed = [u \in User |-> FALSE]
    BY DEF AccountInit
  <1>5. policy = {} \/ \E n \in PolicyName, us \in (SUBSET {u \in User : role[u] = "viewer"}) \ {{}} :
           policy = {[name |-> n, command |-> "select", users |-> us]}
    BY DEF AccountInit
  <1>6. policy \subseteq Policy /\ Keyed(policy) /\ \A p \in policy : p.users \subseteq login
    <2>1. CASE policy = {}
      BY <2>1 DEF Keyed
    <2>2. ASSUME NEW n \in PolicyName, NEW us \in (SUBSET {u \in User : role[u] = "viewer"}) \ {{}},
                 policy = {[name |-> n, command |-> "select", users |-> us]}
          PROVE  policy \subseteq Policy /\ Keyed(policy) /\ \A p \in policy : p.users \subseteq login
      <3>1. us \subseteq login
        BY <1>4, NoRoleAssumption DEF Role
      <3> QED BY <2>2, <3>1 DEF Policy, Keyed
    <2> QED BY <1>5, <2>1, <2>2
  <1>7. member \in [User -> SUBSET {"user", "sensor", "qc"}]
    BY <1>4, DatabaseRoles
  <1>8. role \in [User -> Role \union {NoRole}]
    BY <1>4 DEF Role
  <1> QED BY <1>3, <1>4, <1>6, <1>7, <1>8 DEF AInv, Tables, GrantsAgree

-----------------------------------------------------------------------------
(* Steps that read, write a row or change a policy.                        *)

\* The changes that a request is to make.
LEMMA WillChange ==
    ASSUME AInv, NEW r \in AccountRequest, NEW kind \in {"policy", "patch", "drop"},
           NEW changes \in SUBSET Change, Keyed(changes), TablesUnchanged,
           BeginRequest(r, IsToChange(kind, changes))
    PROVE  AInv'
  <1> DEFINE x == IsToChange(kind, changes)
  <1>1. /\ x.pc = "altering" /\ x.kind = kind /\ x.todo = changes /\ x.done = {}
        /\ x.held = {} /\ x \in RequestRecord
    BY DEF IsToChange, NotBegun, RequestRecord, None
  <1>2. request' = [request EXCEPT ![r] = x]
    BY DEF BeginRequest
  <1> HIDE DEF x
  <1>3. changes \union {} = changes
    OBVIOUS
  <1>4. Right(x)
    BY <1>1, <1>3 DEF Right
  <1> QED BY <1>1, <1>2, <1>4, GoesOn

LEMMA PolicyReads ==
    ASSUME AInv, NEW r \in AccountRequest,
           \/ \E n \in PolicyName, t \in {"viewer", "custom"},
                 us \in (SUBSET User) \ {{}} : CheckUsers(r, n, t, us)
           \/ \E p \in policy : FindPolicy(r, p) \/ \E u \in User : ReadPolicy(r, p, {u})
    PROVE  AInv'
  <1>1. ASSUME NEW n \in PolicyName, NEW t \in {"viewer", "custom"},
               NEW us \in (SUBSET User) \ {{}}, CheckUsers(r, n, t, us)
        PROVE  AInv'
    <2> DEFINE changes == {[name |-> n, command |-> c, users |-> us] : c \in Commands(t)}
    <2>1. changes \in SUBSET Change /\ Keyed(changes)
      BY DEF Change, Commands, Keyed
    <2>2. BeginRequest(r, IsToChange("policy", changes)) /\ TablesUnchanged
      BY <1>1 DEF CheckUsers
    <2> HIDE DEF changes
    <2> QED BY <2>1, <2>2, WillChange
  <1>2. ASSUME NEW p \in policy, NEW us \in SUBSET User,
               BeginRequest(r, IsToChange("drop", {[p EXCEPT !.users = us]})) \/
                 BeginRequest(r, IsToChange("patch", {[p EXCEPT !.users = us]})),
               TablesUnchanged
        PROVE  AInv'
    <2> DEFINE c == [p EXCEPT !.users = us]
    <2>1. c \in Change
      BY DEF AInv, Tables, Policy, Change
    <2> HIDE DEF c
    <2>2. {c} \in SUBSET Change /\ Keyed({c})
      BY <2>1 DEF Keyed
    <2>3. BeginRequest(r, IsToChange("drop", {c})) \/ BeginRequest(r, IsToChange("patch", {c}))
      BY <1>2 DEF c
    <2> QED BY <1>2, <2>2, <2>3, WillChange
  <1>3. ASSUME NEW p \in policy, FindPolicy(r, p) PROVE AInv'
    <2> DEFINE none == {}
    <2>1. BeginRequest(r, IsToChange("drop", {[p EXCEPT !.users = none]})) /\ TablesUnchanged
      BY <1>3 DEF FindPolicy
    <2>2. none \in SUBSET User
      OBVIOUS
    <2> HIDE DEF none
    <2> QED BY <1>2, <2>1, <2>2
  <1>4. ASSUME NEW p \in policy, NEW u \in User, ReadPolicy(r, p, {u}) PROVE AInv'
    <2>1. Appended(p.users, {u}) \in SUBSET User
      BY DEF Appended, AInv, Tables, Policy
    <2>2. BeginRequest(r, IsToChange("patch", {[p EXCEPT !.users = Appended(p.users, {u})]}))
          /\ TablesUnchanged
      BY <1>4 DEF ReadPolicy
    <2> QED BY <1>2, <2>1, <2>2
  <1> QED BY <1>1, <1>3, <1>4

\* The first step of a request about a user.
LEMMA UserReads ==
    ASSUME AInv, NEW r \in AccountRequest, NEW u \in User, NEW new \in {"viewer", "sensor"},
           CreateUser(r, u, new) \/ ReadRole(r, u, new) \/ FindUser(r, u)
    PROVE  AInv'
  <1>1. CASE CreateUser(r, u, new)
    <2> DEFINE x == [NotBegun EXCEPT !.pc = "written", !.kind = "create",
                          !.user = {u}, !.new = new, !.held = {u}]
    <2>1. x.kind = "create" /\ x.new = new /\ x.user = {u} /\ x.held = {u} /\ x.todo = {} /\ x.done = {}
      BY DEF NotBegun
    <2>2. x \in RequestRecord
      BY DEF NotBegun, RequestRecord, None, Role
    <2>3. request' = [request EXCEPT ![r] = x] /\ TablesUnchanged /\ RowFree(r, u)
      BY <1>1 DEF CreateUser, BeginRequest
    <2> HIDE DEF x
    <2>4. Right(x)
      BY <2>1, <2>2 DEF Right, Keyed, Role
    <2>5. \A q \in AccountRequest \ {r} : request[q].held \intersect x.held = {}
      BY <2>1, <2>3 DEF RowFree
    <2> QED BY <2>3, <2>4, <2>5, GoesOn
  <1>2. CASE ReadRole(r, u, new)
    <2> DEFINE x == [NotBegun EXCEPT !.pc = "begun", !.kind = "update",
                          !.user = {u}, !.new = new, !.read = role[u]]
    <2>1. x.kind = "update" /\ x.new = new /\ x.held = {} /\ x.todo = {} /\ x.done = {}
      BY DEF NotBegun
    <2>2. x \in RequestRecord
      BY DEF NotBegun, RequestRecord, None, Role, AInv, Tables
    <2>3. request' = [request EXCEPT ![r] = x] /\ TablesUnchanged
      BY <1>2 DEF ReadRole, BeginRequest
    <2> HIDE DEF x
    <2>4. Right(x)
      BY <2>1, <2>2 DEF Right, Keyed, Role
    <2> QED BY <2>1, <2>3, <2>4, GoesOn
  <1>3. CASE FindUser(r, u)
    <2> DEFINE x == [NotBegun EXCEPT !.pc = "begun", !.kind = "delete", !.user = {u}]
    <2>1. x.kind = "delete" /\ x.held = {} /\ x.todo = {} /\ x.done = {}
      BY DEF NotBegun
    <2>2. x \in RequestRecord
      BY DEF NotBegun, RequestRecord, None
    <2>3. request' = [request EXCEPT ![r] = x] /\ TablesUnchanged
      BY <1>3 DEF FindUser, BeginRequest
    <2> HIDE DEF x
    <2>4. Right(x)
      BY <2>1, <2>2 DEF Right, Keyed
    <2> QED BY <2>1, <2>3, <2>4, GoesOn
  <1> QED BY <1>1, <1>2, <1>3

\* UPDATE and DELETE of a row.
LEMMA RowWritten ==
    ASSUME AInv, NEW r \in AccountRequest, UpdateRole(r) \/ DeleteRow(r)
    PROVE  AInv'
  <1>1. PICK u \in request[r].user :
           /\ role[u] # NoRole => RowFree(r, u)
           /\ request' = [request EXCEPT ![r].pc = "written",
                            ![r].held = IF role[u] = NoRole THEN {} ELSE {u}]
    BY DEF UpdateRole, DeleteRow, WriteRow
  <1>a. TablesUnchanged /\ request[r].pc = "begun"
    BY DEF UpdateRole, DeleteRow, WriteRow
  <1> DEFINE h == IF role[u] = NoRole THEN {} ELSE {u}
             x == [request[r] EXCEPT !.pc = "written", !.held = h]
  <1>2. Right(request[r]) /\ request[r] \in RequestRecord
    BY DEF AInv, Requests
  <1>3. request' = [request EXCEPT ![r] = x]
    BY <1>1 DEF AInv, Requests
  <1>4. h \subseteq {u} /\ (\A v \in h : role[v] # NoRole) /\ (h # {} => RowFree(r, u))
    BY <1>1
  <1>5. u \in User
    BY <1>1, <1>2 DEF RequestRecord, None
  <1> HIDE DEF h
  <1>6. /\ x.held = h /\ x.user = request[r].user /\ x.kind = request[r].kind /\ x.new = request[r].new
        /\ x.todo = request[r].todo /\ x.done = request[r].done /\ x \in RequestRecord
    BY <1>2, <1>4, <1>5 DEF RequestRecord
  <1> HIDE DEF x
  <1>7. Right(x)
    BY <1>a, <1>1, <1>2, <1>4, <1>6 DEF Right
  <1>8. \A q \in AccountRequest \ {r} : request[q].held \intersect x.held = {}
    BY <1>4, <1>6 DEF RowFree
  <1> QED BY <1>a, <1>3, <1>7, <1>8, GoesOn

\* The list of the policies, and the next change of one.
LEMMA PoliciesChanged ==
    ASSUME AInv, NEW r \in AccountRequest,
           ReadNaming(r) \/ \E c \in request[r].todo : ChangePolicy(r, c)
    PROVE  AInv'
  <1>0. Right(request[r]) /\ request[r] \in RequestRecord
    BY DEF AInv, Requests
  <1>1. CASE ReadNaming(r)
    <2>1. PICK u \in request[r].user :
             request' = [request EXCEPT ![r].pc = "altering",
               ![r].todo = {[p EXCEPT !.users = @ \ {u}] : p \in {p \in policy : u \in p.users}}]
      BY <1>1 DEF ReadNaming
    <2>2. request[r].pc = "written" /\ TablesUnchanged /\ request[r].kind = "delete"
      BY <1>1 DEF ReadNaming
    <2> DEFINE changes == {[p EXCEPT !.users = @ \ {u}] : p \in {p \in policy : u \in p.users}}
               x == [request[r] EXCEPT !.pc = "altering", !.todo = changes]
    <2>3. request' = [request EXCEPT ![r] = x]
      BY <2>1 DEF AInv, Requests
    <2>4. \A c \in changes : \E p \in policy :
             c.name = p.name /\ c.command = p.command /\ c.users = p.users \ {u} /\ c \in Change
      BY DEF AInv, Tables, Policy, Change
    <2>5. changes \in SUBSET Change
      BY <2>4
    <2>6. Keyed(changes)
      <3>1. \A p, o \in policy : p.name = o.name /\ p.command = o.command => p = o
        BY DEF AInv, Tables, Keyed
      <3>2. ASSUME NEW c \in changes, NEW d \in changes, c.name = d.name, c.command = d.command
            PROVE  c = d
        <4>1. PICK p \in policy : c = [p EXCEPT !.users = p.users \ {u}]
          OBVIOUS
        <4>2. PICK o \in policy : d = [o EXCEPT !.users = o.users \ {u}]
          OBVIOUS
        <4>3. p.name = o.name /\ p.command = o.command
          BY <3>2, <4>1, <4>2 DEF AInv, Tables, Policy
        <4> QED BY <3>1, <4>1, <4>2, <4>3
      <3> QED BY <3>2 DEF Keyed
    <2> HIDE DEF changes
    <2>7. /\ x.todo = changes /\ x.done = request[r].done /\ x.held = request[r].held
          /\ x.user = request[r].user /\ x.kind = request[r].kind /\ x.new = request[r].new
          /\ x \in RequestRecord
      BY <1>0, <2>5 DEF RequestRecord
    <2> HIDE DEF x
    <2>8. Right(x)
      <3>1. request[r].done = {} /\ changes \union {} = changes
        BY <1>0, <2>2 DEF Right
      <3>2. Keyed(x.todo \union x.done)
        BY <2>6, <2>7, <3>1
      <3> QED BY <1>0, <2>7, <3>1, <3>2 DEF Right
    <2>9. \A q \in AccountRequest \ {r} : request[q].held \intersect x.held = {}
      BY <2>7 DEF AInv, Requests, Exclusive
    <2> QED BY <2>2, <2>3, <2>8, <2>9, GoesOn
  <1>2. ASSUME NEW c \in request[r].todo, ChangePolicy(r, c)
        PROVE  AInv'
    <2> DEFINE x == [request[r] EXCEPT !.todo = @ \ {c}, !.done = @ \union {c}]
    <2>1. request' = [request EXCEPT ![r] = x] /\ TablesUnchanged /\ c.users \subseteq login
      BY <1>2 DEF ChangePolicy, AInv, Requests
    <2>2. /\ x.todo = request[r].todo \ {c} /\ x.done = request[r].done \union {c}
          /\ x.held = request[r].held /\ x.user = request[r].user /\ x.kind = request[r].kind
          /\ x.new = request[r].new /\ x.pc = "altering" /\ x \in RequestRecord
      BY <1>0, <1>2 DEF RequestRecord, ChangePolicy
    <2> HIDE DEF x
    <2>3. x.todo \union x.done = request[r].todo \union request[r].done
      BY <2>2
    <2>4. Right(x)
      BY <1>0, <2>1, <2>2, <2>3 DEF Right
    <2>5. \A q \in AccountRequest \ {r} : request[q].held \intersect x.held = {}
      BY <2>2 DEF AInv, Requests, Exclusive
    <2> QED BY <2>1, <2>4, <2>5, GoesOn
  <1> QED BY <1>1, <1>2

-----------------------------------------------------------------------------
(* Commits.                                                                *)

LEMMA Abandoned ==
    ASSUME AInv, NEW r \in AccountRequest, Abandon(r)
    PROVE  AInv'
  <1>1. End(r) /\ TablesUnchanged
    BY DEF Abandon
  <1>2. Tables' /\ GrantsAgree'
    BY <1>1 DEF AInv, Tables, GrantsAgree, TablesUnchanged, Keyed
  <1>3. role' = role /\ login' = login
    BY <1>1 DEF TablesUnchanged
  <1>4. \A q \in AccountRequest : \A d \in request[q].done : d.users \subseteq login
    BY DEF AInv, Requests, Right
  <1>5. Requests'
    BY <1>1, <1>3, <1>4, Ends
  <1> QED BY <1>2, <1>5 DEF AInv

LEMMA PolicyCommits ==
    ASSUME AInv, NEW r \in AccountRequest, CommitPolicy(r)
    PROVE  AInv'
  <1>1. End(r) /\ policy' = PoliciesAfter(request[r].done) /\ UNCHANGED <<role, login, member, crossed>>
    BY DEF CommitPolicy
  <1>2. Tables' /\ GrantsAgree'
    BY <1>1, AfterKeeps DEF AInv, Tables, GrantsAgree, Keyed
  <1>4. \A q \in AccountRequest : \A d \in request[q].done : d.users \subseteq login
    BY DEF AInv, Requests, Right
  <1>5. Requests'
    BY <1>1, <1>4, Ends
  <1> QED BY <1>2, <1>5 DEF AInv

LEMMA CreateCommits ==
    ASSUME AInv, NEW r \in AccountRequest, CommitCreate(r)
    PROVE  AInv'
  <1>1. PICK u \in request[r].user :
           /\ role' = [role EXCEPT ![u] = request[r].new]
           /\ login' = login \union {u}
           /\ member' = [member EXCEPT ![u] = {DatabaseRole(request[r].new)}]
           /\ crossed' = [crossed EXCEPT ![u] = FALSE]
    BY DEF CommitCreate
  <1>2. request[r].kind = "create" /\ End(r) /\ policy' = policy
    BY DEF CommitCreate
  <1>3. u \in User /\ request[r].new \in Role /\ request[r].new # NoRole
    <2>1. Right(request[r])
      BY DEF AInv, Requests
    <2> QED BY <1>1, <1>2, <2>1, NoRoleAssumption DEF Right, RequestRecord, None
  <1>4. Tables'
    BY <1>1, <1>2, <1>3, DatabaseRoles DEF AInv, Tables, Keyed
  <1>5. \A v \in User : /\ role'[v] = IF v = u THEN request[r].new ELSE role[v]
                        /\ member'[v] = IF v = u THEN {DatabaseRole(request[r].new)} ELSE member[v]
                        /\ crossed'[v] = IF v = u THEN FALSE ELSE crossed[v]
    BY <1>1 DEF AInv, Tables
  <1>6. GrantsAgree'
    BY <1>1, <1>2, <1>3, <1>5 DEF AInv, Tables, GrantsAgree
  <1>7. \A q \in AccountRequest \ {r} : \A v \in request[q].held : role[v] # NoRole => role'[v] # NoRole
    BY <1>3, <1>5 DEF AInv, Requests, RequestRecord
  <1>8. \A q \in AccountRequest : \A d \in request[q].done : d.users \subseteq login'
    BY <1>1 DEF AInv, Requests, Right
  <1>9. Requests'
    BY <1>2, <1>7, <1>8, Ends
  <1> QED BY <1>4, <1>6, <1>9 DEF AInv

\* The grants agree with the role that was set, if the role that was read was the one of
\* the row.
LEMMA UpdateCommits ==
    ASSUME AInv, NEW r \in AccountRequest, CommitUpdate(r)
    PROVE  AInv'
  <1> DEFINE q == request[r]
  <1>1. PICK u \in request[r].user :
           /\ Regrants(q) => u \in login
           /\ role' = IF q.held = {} THEN role ELSE [role EXCEPT ![u] = q.new]
           /\ member' = [member EXCEPT ![u] = Regrant(@, q.read, q.new)]
           /\ crossed' = [crossed EXCEPT ![u] =
                 @ \/ IF q.held = {} THEN Regrants(q)
                                     ELSE DatabaseRole(role[u]) # DatabaseRole(q.read)]
    BY DEF CommitUpdate
  <1>2. q.kind = "update" /\ End(r) /\ login' = login /\ policy' = policy
    BY DEF CommitUpdate
  <1>3. /\ u \in User /\ q.new \in Role /\ q.new # NoRole /\ q.held \subseteq {u}
        /\ q.held # {} => role[u] # NoRole
    <2>1. Right(q)
      BY DEF AInv, Requests
    <2>2. q.user = {u}
      BY <1>1, <2>1 DEF Right, RequestRecord, None
    <2> QED BY <1>1, <1>2, <2>1, <2>2, NoRoleAssumption DEF Right, RequestRecord, None
  <1> HIDE DEF q
  <1>4. Regrant(member[u], q.read, q.new) \in SUBSET {"user", "sensor", "qc"}
    BY <1>3, DatabaseRoles DEF Regrant, AInv, Tables
  <1>5. \A v \in User : /\ role'[v] = IF v = u /\ q.held # {} THEN q.new ELSE role[v]
                        /\ member'[v] = IF v = u THEN Regrant(member[u], q.read, q.new) ELSE member[v]
                        /\ v # u => crossed'[v] = crossed[v]
    BY <1>1, <1>3 DEF AInv, Tables
  <1>6. /\ crossed'[u] \in BOOLEAN
        /\ ~crossed'[u] =>
              /\ ~crossed[u]
              /\ q.held = {} => ~Regrants(q)
              /\ q.held # {} => DatabaseRole(role[u]) = DatabaseRole(q.read)
    BY <1>1, <1>3 DEF AInv, Tables
  <1>7. Tables'
    <2>1. role' \in [User -> Role \union {NoRole}]
      BY <1>1, <1>3 DEF AInv, Tables
    <2>2. member' \in [User -> SUBSET {"user", "sensor", "qc"}]
      BY <1>1, <1>3, <1>4 DEF AInv, Tables
    <2>3. crossed' \in [User -> BOOLEAN]
      <3>1. crossed' = [crossed EXCEPT ![u] = crossed'[u]]
        BY <1>1, <1>3 DEF AInv, Tables
      <3> QED BY <1>3, <1>6, <3>1 DEF AInv, Tables
    <2> QED BY <1>2, <2>1, <2>2, <2>3 DEF AInv, Tables, Keyed
  <1>8. GrantsAgree'
    <2>1. \A v \in login' : role'[v] # NoRole
      BY <1>2, <1>3, <1>5 DEF AInv, Tables, GrantsAgree
    <2>2. \A p \in policy' : p.users \subseteq login'
      BY <1>2 DEF AInv, GrantsAgree
    <2>3. ASSUME NEW v \in User, role'[v] # NoRole, ~crossed'[v]
          PROVE  v \in login' /\ member'[v] = {DatabaseRole(role'[v])}
      <3>1. CASE v # u
        BY <1>2, <1>5, <2>3, <3>1 DEF AInv, GrantsAgree
      <3>2. CASE v = u
        <4>1. /\ ~crossed[u] /\ (q.held = {} => ~Regrants(q))
              /\ q.held # {} => DatabaseRole(role[u]) = DatabaseRole(q.read)
          BY <1>6, <2>3, <3>2
        <4>2. role[u] # NoRole
          BY <1>3, <1>5, <2>3, <3>2
        <4>3. u \in login /\ member[u] = {DatabaseRole(role[u])}
          BY <1>3, <4>1, <4>2 DEF AInv, GrantsAgree
        <4>4. CASE q.held = {}
          <5>1. member'[u] = member[u] /\ role'[u] = role[u]
            BY <1>3, <1>5, <4>1, <4>4 DEF Regrant, Regrants
          <5> QED BY <1>2, <3>2, <4>3, <5>1
        <4>5. CASE q.held # {}
          <5>1. role'[u] = q.new /\ member[u] = {DatabaseRole(q.read)}
            BY <1>3, <1>5, <4>1, <4>3, <4>5
          <5>2. member'[u] = {DatabaseRole(q.new)}
            BY <1>3, <1>5, <5>1 DEF Regrant
          <5> QED BY <1>2, <3>2, <4>3, <5>1, <5>2
        <4> QED BY <4>4, <4>5
      <3> QED BY <3>1, <3>2
    <2> QED BY <2>1, <2>2, <2>3 DEF GrantsAgree
  <1>9. \A o \in AccountRequest \ {r} : \A v \in request[o].held : role[v] # NoRole => role'[v] # NoRole
    BY <1>3, <1>5 DEF AInv, Requests, RequestRecord
  <1>10. \A o \in AccountRequest : \A d \in request[o].done : d.users \subseteq login'
    BY <1>2 DEF AInv, Requests, Right
  <1>11. Requests'
    BY <1>2, <1>9, <1>10, Ends
  <1> QED BY <1>7, <1>8, <1>11 DEF AInv

\* DROP ROLE leaves no policy without its roles, and a row without its role only if the
\* row was gone when the DELETE came to it.
LEMMA DeleteCommits ==
    ASSUME AInv, NEW r \in AccountRequest, CommitDelete(r)
    PROVE  AInv'
  <1> DEFINE q == request[r]
  <1>1. PICK u \in request[r].user :
           /\ \A o \in AccountRequest \ {r} : \A d \in request[o].done : u \notin d.users
           /\ u \in login /\ \A p \in PoliciesAfter(q.done) : u \notin p.users
           /\ role' = IF q.held = {} THEN role ELSE [role EXCEPT ![u] = NoRole]
           /\ login' = login \ {u}
           /\ member' = [member EXCEPT ![u] = {}]
           /\ crossed' = [crossed EXCEPT ![u] = q.held = {}]
    BY DEF CommitDelete
  <1>2. q.kind = "delete" /\ End(r) /\ policy' = PoliciesAfter(q.done)
    BY DEF CommitDelete
  <1>3. u \in User /\ q.held \subseteq {u}
    <2>1. Right(q)
      BY DEF AInv, Requests
    <2>2. q.user = {u} /\ u \in User
      BY <1>1, <2>1 DEF Right, RequestRecord, None
    <2> QED BY <2>1, <2>2 DEF Right
  <1>4. /\ PoliciesAfter(q.done) \subseteq Policy /\ Keyed(PoliciesAfter(q.done))
        /\ \A p \in PoliciesAfter(q.done) : p.users \subseteq login
    BY AfterKeeps
  <1>5. \A o \in AccountRequest \ {r} : q.held # {} => u \notin request[o].held
    BY <1>3 DEF AInv, Requests, Exclusive
  <1> HIDE DEF q
  <1>6. \A v \in User : /\ role'[v] = IF v = u /\ q.held # {} THEN NoRole ELSE role[v]
                        /\ v # u => member'[v] = member[v] /\ crossed'[v] = crossed[v]
                        /\ v = u => (crossed'[v] <=> q.held = {})
    BY <1>1, <1>3 DEF AInv, Tables
  <1>7. Tables'
    <2>1. role' \in [User -> Role \union {NoRole}]
      BY <1>1, <1>3 DEF AInv, Tables
    <2>2. member' \in [User -> SUBSET {"user", "sensor", "qc"}]
      BY <1>1, <1>3 DEF AInv, Tables
    <2>3. crossed' \in [User -> BOOLEAN]
      BY <1>1, <1>3 DEF AInv, Tables
    <2> QED BY <1>1, <1>2, <1>4, <2>1, <2>2, <2>3 DEF AInv, Tables, Keyed
  <1>8. GrantsAgree'
    <2>1. \A v \in login' : role'[v] # NoRole
      BY <1>1, <1>6 DEF AInv, Tables, GrantsAgree
    <2>2. \A p \in policy' : p.users \subseteq login'
      BY <1>1, <1>2, <1>4
    <2>3. \A v \in User : role'[v] # NoRole /\ ~crossed'[v] =>
             v \in login' /\ member'[v] = {DatabaseRole(role'[v])}
      BY <1>1, <1>6 DEF AInv, GrantsAgree
    <2> QED BY <2>1, <2>2, <2>3 DEF GrantsAgree
  <1>9. \A o \in AccountRequest \ {r} : \A v \in request[o].held : role[v] # NoRole => role'[v] # NoRole
    BY <1>5, <1>6 DEF AInv, Requests, RequestRecord
  <1>10. \A o \in AccountRequest \ {r} : \A d \in request[o].done : d.users \subseteq login'
    BY <1>1 DEF AInv, Requests, Right
  <1>11. Requests'
    BY <1>2, <1>9, <1>10, Ends
  <1> QED BY <1>7, <1>8, <1>11 DEF AInv

\* Every step keeps the invariant.
LEMMA AStep == AInv /\ [AccountNext]_accountVars => AInv'
  <1> SUFFICES ASSUME AInv, [AccountNext]_accountVars PROVE AInv'
    OBVIOUS
  <1>1. ASSUME NEW r \in AccountRequest, UserStep(r) PROVE AInv'
    <2>1. CASE \E u \in User, new \in {"viewer", "sensor"} :
                  CreateUser(r, u, new) \/ ReadRole(r, u, new)
      BY <2>1, UserReads
    <2>2. CASE \E u \in User : FindUser(r, u)
      BY <2>2, UserReads
    <2>3. CASE CommitCreate(r) \/ CommitUpdate(r) \/ CommitDelete(r)
      BY <2>3, CreateCommits, UpdateCommits, DeleteCommits
    <2>4. CASE UpdateRole(r) \/ DeleteRow(r)
      BY <2>4, RowWritten
    <2>5. CASE ReadNaming(r)
      BY <2>5, PoliciesChanged
    <2> QED BY <1>1, <2>1, <2>2, <2>3, <2>4, <2>5 DEF UserStep
  <1>2. ASSUME NEW r \in AccountRequest, PolicyStep(r) PROVE AInv'
    BY <1>2, PolicyReads, PoliciesChanged, PolicyCommits DEF PolicyStep
  <1>3. ASSUME NEW r \in AccountRequest, Abandon(r) PROVE AInv'
    BY <1>3, Abandoned
  <1>4. CASE UNCHANGED accountVars
    <2>1. Tables' /\ GrantsAgree'
      BY <1>4 DEF accountVars, AInv, Tables, GrantsAgree, Keyed
    <2>2. Requests'
      BY <1>4 DEF accountVars, AInv, Requests, Right, Exclusive, Keyed
    <2> QED BY <2>1, <2>2 DEF AInv
  <1> QED BY <1>1, <1>2, <1>3, <1>4 DEF AccountNext

-----------------------------------------------------------------------------
(* Theorems.                                                               *)

\* What the open transactions of the user and policy handlers hold is there, and what is
\* committed agrees, in every state.
THEOREM AccountInvariance == AccountSpec => []AInv
  BY AInit, AStep, PTL DEF AccountSpec

\* The state stays within its types: of one policy name and command there is one policy,
\* and a transaction changes it once.
THEOREM AccountTypes == AccountSpec => []AccountTypeOK
  <1>1. AInv => AccountTypeOK
    <2> SUFFICES ASSUME AInv PROVE AccountTypeOK
      OBVIOUS
    <2>1. ASSUME NEW r \in AccountRequest
          PROVE  /\ request[r].pc \in {"idle", "begun", "written", "altering", "ended"}
                 /\ request[r].held \subseteq request[r].user
                 /\ request[r].done \subseteq Change /\ Keyed(request[r].done)
      <3>1. Right(request[r])
        BY DEF AInv, Requests
      <3> QED BY <3>1 DEF Right, RequestRecord, Keyed
    <2> QED BY <2>1 DEF AccountTypeOK, AInv, Tables
  <1> QED BY <1>1, AccountInvariance, PTL

\* The table of users and what PostgreSQL grants agree but for the two cases that crossed
\* marks, no role outlives its row and policies name roles that are there, whatever requests
\* cross and for any number of users, policies and requests.
THEOREM GrantsHold == AccountSpec => []GrantsAgree
  <1>1. AInv => GrantsAgree
    BY DEF AInv
  <1> QED BY <1>1, AccountInvariance, PTL

-----------------------------------------------------------------------------
(* EntityImport.                                                           *)

Way == {"look", "post", "again"}
RunRecord == [pc : Way \union {"ready", "done", "failed"}, at : Nat, start : Nat]

\* The state f of run r fits what r goes through.
Fits(r, f) ==
    /\ f \in RunRecord
    /\ f.at \in 1 .. Len(Wanted[r]) + 1
    /\ f.pc \in Way => f.at <= Len(Wanted[r])
    /\ f.pc = "look" => Wanted[r][f.at].kind # "Observation"
    /\ f.pc = "again" => r \in EyeOnWater /\ Conflict(Wanted[r][f.at])
    /\ f.pc = "done" => f.at = Len(Wanted[r]) + 1

\* What the run is past is stored, or someone else had made what it nests.
Passed(r, f) ==
    f.pc \in Way \union {"done"} =>
        \A i \in 1 .. f.at - 1 : Found(Wanted[r][i]) \/ Foreign(r, i)

\* A run that is about to POST has found nothing.
Unseen(r, f) ==
    f.pc = "post" /\ Wanted[r][f.at].kind # "Observation" => ~Found(Wanted[r][f.at])

\* eyeonwater2istsos makes an entity together with all that is in the same POST.
Together ==
    \A x \in rows : x.by \in EyeOnWater =>
        \E j \in DOMAIN Wanted[x.by] :
            /\ <<x.kind, x.name>> \in Inserted(Wanted[x.by][j])
            /\ \A e \in Inserted(Wanted[x.by][j]) : There(e[1], e[2])

EInv ==
    /\ run \in [Run -> RunRecord] /\ starts \in Nat /\ overlap \in BOOLEAN
    /\ \A r \in Run : Fits(r, run[r]) /\ Passed(r, run[r])
    /\ Together
    /\ ~overlap => /\ \A r, s \in Run : UnderWay(r) /\ UnderWay(s) => r = s
                   /\ \A r \in Run : Unseen(r, run[r])

-----------------------------------------------------------------------------
(* Rows are only added.                                                    *)

LEMMA Grows ==
    ASSUME rows \subseteq rows'
    PROVE  /\ \A w : Found(w) => Found(w)'
           /\ \A w : Conflict(w) => Conflict(w)'
           /\ \A r, i : Foreign(r, i) => Foreign(r, i)'
  BY DEF Found, There, Of, Conflict, Foreign, Inserted

LEMMA WantedTypes ==
    ASSUME NEW r \in Run
    PROVE  /\ Wanted[r] \in Seq(Entry) /\ Len(Wanted[r]) \in Nat
           /\ DOMAIN Wanted[r] = 1 .. Len(Wanted[r])
           /\ \A i \in 1 .. Len(Wanted[r]) : Wanted[r][i] \in Entry
  BY ImportAssumption

\* A set of numbers that is not empty has a smallest one: < is well-founded.
LEMMA LeastNatural ==
    ASSUME NEW S \in SUBSET Nat, S # {}
    PROVE  \E x \in S : \A y \in S : x <= y
  <1> DEFINE R == {ss \in Nat \X Nat : ss[1] < ss[2]}
  <1>1. IsWellFoundedOn(R, Nat)
    BY NatLessThanWellFounded DEF OpToRel
  <1> HIDE DEF R
  <1>2. PICK x \in S : \A y \in S : ~(<<y, x>> \in R)
    BY <1>1, WFMin
  <1>3. \A y \in S : ~(y < x)
    BY <1>2 DEF R
  <1> QED BY <1>3

\* The first entry of the next item, or the end.
LEMMA NextItemFacts ==
    ASSUME NEW r \in Run, run[r].at \in 1 .. Len(Wanted[r])
    PROVE  /\ NextItem(r) \in run[r].at + 1 .. Len(Wanted[r]) + 1
           /\ \A k \in run[r].at + 1 .. NextItem(r) - 1 : Wanted[r][k].item = Want(r).item
  <1> DEFINE n == Len(Wanted[r])
             at == run[r].at
             S == {i \in at + 1 .. n + 1 : i <= n => Wanted[r][i].item # Want(r).item}
             P(i) == /\ i <= n => Wanted[r][i].item # Want(r).item
                     /\ \A k \in at + 1 .. i - 1 : Wanted[r][k].item = Want(r).item
  <1>1. n \in Nat /\ at \in 1 .. n
    BY WantedTypes
  <1> HIDE DEF n, at
  <1>2. n + 1 \in S /\ S \in SUBSET Nat
    BY <1>1
  <1>3. PICK i \in S : \A j \in S : i <= j
    BY <1>2, LeastNatural
  <1>4. \A k \in at + 1 .. i - 1 : Wanted[r][k].item = Want(r).item
    <2> SUFFICES ASSUME NEW k \in at + 1 .. i - 1, Wanted[r][k].item # Want(r).item
                 PROVE  FALSE
      OBVIOUS
    <2>1. k \in S /\ k < i
      BY <1>1, <1>3
    <2> QED BY <1>1, <1>3, <2>1
  <1>5. \E j \in at + 1 .. n + 1 : P(j)
    BY <1>3, <1>4
  <1>6. NextItem(r) = CHOOSE j \in at + 1 .. n + 1 : P(j)
    BY DEF NextItem, n, at
  <1> HIDE DEF P
  <1>7. NextItem(r) \in at + 1 .. n + 1 /\ P(NextItem(r))
    BY <1>5, <1>6
  <1> QED BY <1>7 DEF P, n, at

-----------------------------------------------------------------------------
(* The steps.                                                              *)

\* A step of a run leaves the others where they are.
LEMMA MovesOn ==
    ASSUME EInv, NEW r \in Run, NEW f, run' = [run EXCEPT ![r] = f],
           rows \subseteq rows', rows' # rows => UnderWay(r),
           starts' \in Nat, overlap' \in BOOLEAN, overlap => overlap', Together',
           Fits(r, f)', Passed(r, f)',
           ~overlap' /\ f.pc \in Way => \A s \in Run \ {r} : ~UnderWay(s),
           ~overlap' => Unseen(r, f)'
    PROVE  EInv'
  <1>1. \A s \in Run : run'[s] = IF s = r THEN f ELSE run[s]
    BY DEF EInv
  <1>2. run' \in [Run -> RunRecord]
    BY DEF EInv, Fits
  <1>3. ASSUME NEW s \in Run
        PROVE  Fits(s, run[s])' /\ Passed(s, run[s])'
    <2>1. CASE s = r
      <3>1. run'[s] = f
        BY <1>1, <2>1
      <3> QED BY <2>1, <3>1 DEF Fits, Passed, Conflict, There, Of, Found, Foreign
    <2>2. CASE s # r
      <3>1. run'[s] = run[s] /\ Fits(s, run[s]) /\ Passed(s, run[s])
        BY <1>1, <2>2 DEF EInv
      <3>2. Fits(s, run[s])'
        BY <3>1, Grows DEF Fits
      <3>3. Passed(s, run[s])'
        BY <3>1, Grows DEF Passed
      <3> QED BY <3>2, <3>3
    <2> QED BY <2>1, <2>2
  <1>4. ASSUME ~overlap'
        PROVE  /\ (\A s, t \in Run : UnderWay(s) /\ UnderWay(t) => s = t)'
               /\ (\A s \in Run : Unseen(s, run[s]))'
    <2>1. ~overlap
      BY <1>4 DEF EInv
    <2>2. \A s \in Run : UnderWay(s)' <=> (IF s = r THEN f.pc \in Way ELSE UnderWay(s))
      BY <1>1 DEF UnderWay, Way
    <2>3. \A s, t \in Run : UnderWay(s)' /\ UnderWay(t)' => s = t
      BY <1>4, <2>1, <2>2 DEF EInv
    <2>4. ASSUME NEW s \in Run PROVE Unseen(s, run[s])'
      <3>1. CASE s = r
        BY <1>1, <1>4, <3>1 DEF Unseen, Found, There, Of
      <3>2. CASE s # r
        <4>1. run'[s] = run[s] /\ Unseen(s, run[s])
          BY <1>1, <2>1, <3>2 DEF EInv
        <4>2. CASE rows' = rows
          BY <4>1, <4>2 DEF Unseen, Found, There, Of
        <4>3. CASE UnderWay(r)
          <5>1. ~UnderWay(s)
            BY <2>1, <3>2, <4>3 DEF EInv
          <5> QED BY <4>1, <5>1 DEF Unseen, UnderWay
        <4> QED BY <4>2, <4>3
      <3> QED BY <3>1, <3>2
    <2> QED BY <2>3, <2>4
  <1> QED BY <1>2, <1>3, <1>4 DEF EInv

\* What is there stays together when no row is added.
LEMMA TogetherStays ==
    ASSUME EInv, UNCHANGED rows
    PROVE  Together'
  <1>1. Together
    BY DEF EInv
  <1>2. \A k, n : There(k, n)' <=> There(k, n)
    BY DEF There, Of
  <1> QED BY <1>1, <1>2 DEF Together, Inserted

\* The state in which a run enters its entry number at.
LEMMA EnterFits ==
    ASSUME EInv, NEW r \in Run, NEW at \in 1 .. Len(Wanted[r]) + 1, NEW f, f = Enter(r, at)
    PROVE  /\ f \in RunRecord /\ f.at = at /\ f.start = run[r].start
           /\ f.pc \in {"look", "post", "done"} /\ Fits(r, f)' /\ Unseen(r, f)'
  <1>1. run[r] \in RunRecord /\ Len(Wanted[r]) \in Nat /\ at \in Nat
    BY WantedTypes DEF EInv
  <1> DEFINE pc == IF at > Len(Wanted[r]) THEN "done"
                   ELSE IF Wanted[r][at].kind = "Observation" THEN "post" ELSE "look"
  <1>2. f = [run[r] EXCEPT !.at = at, !.pc = pc]
    BY DEF Enter
  <1>3. /\ pc \in {"look", "post", "done"}
        /\ pc = "done" <=> at > Len(Wanted[r])
        /\ pc = "look" => Wanted[r][at].kind # "Observation"
        /\ pc = "post" => Wanted[r][at].kind = "Observation"
    OBVIOUS
  <1> HIDE DEF pc
  <1>4. PICK p \in {"look", "post", "done"} : p = pc
    BY <1>3
  <1>5. f \in RunRecord /\ f.at = at /\ f.start = run[r].start /\ f.pc = p
    BY <1>1, <1>2, <1>4 DEF RunRecord, Way
  <1>6. f.pc = "done" <=> at = Len(Wanted[r]) + 1
    BY <1>1, <1>3, <1>4, <1>5
  <1>7. f.pc \in Way => f.at <= Len(Wanted[r])
    BY <1>1, <1>3, <1>4, <1>5 DEF Way
  <1> QED BY <1>3, <1>4, <1>5, <1>6, <1>7 DEF Fits, Unseen

\* A run that begins has passed nothing; when it is the only one under way, it overlaps none.
LEMMA BeginKeeps ==
    ASSUME EInv, NEW r \in Run, BeginImport(r)
    PROVE  EInv'
  <1>1. 1 \in 1 .. Len(Wanted[r]) + 1 /\ starts \in Nat /\ run[r] \in RunRecord
    BY WantedTypes DEF EInv
  <1>2. PICK g : g = Enter(r, 1)
    OBVIOUS
  <1>3. /\ g \in RunRecord /\ g.at = 1 /\ g.pc \in {"look", "post", "done"}
        /\ Fits(r, g)' /\ Unseen(r, g)'
    BY <1>1, <1>2, EnterFits
  <1>4. PICK f : f = [g EXCEPT !.start = starts + 1]
    OBVIOUS
  <1>5. f \in RunRecord /\ f.at = g.at /\ f.pc = g.pc
    BY <1>1, <1>3, <1>4 DEF RunRecord
  <1>6. Fits(r, f)' /\ Unseen(r, f)'
    BY <1>3, <1>5 DEF Fits, Unseen
  <1>7. Passed(r, f)'
    BY <1>3, <1>5 DEF Passed
  <1>8. run' = [run EXCEPT ![r] = f] /\ UNCHANGED rows /\ starts' \in Nat
    BY <1>1, <1>2, <1>4 DEF BeginImport, Went
  <1>9. /\ overlap' \in BOOLEAN
        /\ overlap => overlap'
        /\ ~overlap' => \A s \in Run \ {r} : ~UnderWay(s)
    BY DEF BeginImport, EInv
  <1> QED BY <1>5, <1>6, <1>7, <1>8, <1>9, TogetherStays, MovesOn

\* On to the next entry, when this one is there or excused.
LEMMA OnwardKeeps ==
    ASSUME EInv, NEW r \in Run, UnderWay(r), run' = [run EXCEPT ![r] = Onward(r)],
           UNCHANGED <<starts, overlap>>, rows \subseteq rows', Together',
           NEW w, w = Want(r), Found(w)'
    PROVE  EInv'
  <1> DEFINE at == run[r].at
  <1>1. /\ at \in 1 .. Len(Wanted[r]) /\ Passed(r, run[r]) /\ run[r].pc \in Way
        /\ Len(Wanted[r]) \in Nat /\ at \in Nat /\ at + 1 \in 1 .. Len(Wanted[r]) + 1
    BY WantedTypes DEF EInv, Fits, UnderWay, Way
  <1>2. PICK f : f = Enter(r, at + 1)
    OBVIOUS
  <1>3. /\ f \in RunRecord /\ f.at = at + 1 /\ Fits(r, f)' /\ Unseen(r, f)'
    BY <1>1, <1>2, EnterFits
  <1>4. Passed(r, f)'
    <2> SUFFICES ASSUME NEW i \in 1 .. f.at - 1
                 PROVE  (Found(Wanted[r][i]) \/ Foreign(r, i))'
      BY DEF Passed
    <2>1. CASE i = at
      <3>1. w = Wanted[r][i]
        BY <2>1 DEF Want
      <3>2. Found(Wanted[r][i])'
        BY <3>1 DEF Found, There, Of
      <3> QED BY <3>2
    <2>2. CASE i # at
      <3>1. i \in 1 .. at - 1
        BY <1>1, <1>3, <2>2
      <3>2. Found(Wanted[r][i]) \/ Foreign(r, i)
        BY <1>1, <3>1 DEF Passed
      <3> QED BY <3>2, Grows
    <2> QED BY <2>1, <2>2
  <1>5. ~overlap => \A s \in Run \ {r} : ~UnderWay(s)
    BY DEF EInv
  <1>6. run' = [run EXCEPT ![r] = f] /\ starts' \in Nat /\ overlap' \in BOOLEAN
    BY <1>2 DEF Onward, EInv
  <1>7. /\ ~overlap' /\ f.pc \in Way => \A s \in Run \ {r} : ~UnderWay(s)
        /\ ~overlap' => Unseen(r, f)'
        /\ overlap => overlap'
    BY <1>3, <1>5
  <1> QED BY <1>7, <1>3, <1>4, <1>5, <1>6, MovesOn

\* Another step at the same entry.
LEMMA StayKeeps ==
    ASSUME EInv, NEW r \in Run, UnderWay(r), NEW pc \in Way \union {"failed"},
           run' = [run EXCEPT ![r] = [run[r] EXCEPT !.pc = pc]],
           UNCHANGED <<rows, starts, overlap>>,
           pc # "look", pc = "again" => r \in EyeOnWater /\ Conflict(Want(r)),
           pc = "post" => ~Found(Want(r))
    PROVE  EInv'
  <1>1. PICK f : f = [run[r] EXCEPT !.pc = pc]
    OBVIOUS
  <1>2. run[r] \in RunRecord /\ Fits(r, run[r]) /\ Passed(r, run[r]) /\ run[r].pc \in Way
    BY DEF EInv, UnderWay, Way
  <1>3. f \in RunRecord /\ f.pc = pc /\ f.at = run[r].at
    BY <1>1, <1>2 DEF RunRecord
  <1>4. Fits(r, f)
    BY <1>2, <1>3 DEF Fits, Want, Way
  <1>5. Passed(r, f)
    BY <1>2, <1>3 DEF Passed, Way
  <1>6. Unseen(r, f)
    BY <1>3 DEF Unseen, Want
  <1>7. Fits(r, f)' /\ Passed(r, f)' /\ Unseen(r, f)'
    BY <1>4, <1>5, <1>6
       DEF Fits, Passed, Unseen, Conflict, Found, There, Of, Foreign
  <1>8. ~overlap => \A s \in Run \ {r} : ~UnderWay(s)
    BY DEF EInv
  <1>9. run' = [run EXCEPT ![r] = f] /\ starts' \in Nat /\ overlap' \in BOOLEAN
    BY <1>1 DEF EInv
  <1> QED BY <1>7, <1>8, <1>9, TogetherStays, MovesOn

LEMMA LookUpKeeps ==
    ASSUME EInv, NEW r \in Run, LookUp(r)
    PROVE  EInv'
  <1>1. UnderWay(r) /\ UNCHANGED <<rows, starts, overlap>>
    BY DEF LookUp, UnderWay
  <1>2. CASE Found(Want(r))
    <2>1. run' = [run EXCEPT ![r] = Onward(r)]
      BY <1>2 DEF LookUp, Went
    <2>2. PICK w : w = Want(r)
      OBVIOUS
    <2>3. Found(w)'
      BY <1>1, <1>2, <2>2, Grows
    <2> QED BY <1>1, <2>1, <2>2, <2>3, TogetherStays, OnwardKeeps
  <1>3. CASE ~Found(Want(r))
    <2>1. run' = [run EXCEPT ![r] = [run[r] EXCEPT !.pc = "post"]]
      BY <1>3 DEF LookUp, Went
    <2> QED BY <1>1, <1>3, <2>1, StayKeeps DEF Way
  <1> QED BY <1>2, <1>3

\* After a POST the entity and what it nests are there, made by this run.
LEMMA PostTogether ==
    ASSUME EInv, NEW r \in Run, UnderWay(r), rows' = rows \union PostRows(r, Want(r)),
           NEW w, w = Want(r)
    PROVE  Together' /\ Found(w)'
  <1>1. /\ run[r].at \in DOMAIN Wanted[r] /\ w = Wanted[r][run[r].at] /\ w \in Entry
    BY WantedTypes DEF EInv, Fits, UnderWay, Way, Want
  <1>2. \A e \in Inserted(w) : e = <<e[1], e[2]>>
    BY <1>1 DEF Inserted, Entry, Entity
  <1>3. \A e \in Inserted(w) : There(e[1], e[2])'
    <2> SUFFICES ASSUME NEW e \in Inserted(w) PROVE There(e[1], e[2])'
      OBVIOUS
    <2>1. [kind |-> e[1], name |-> e[2], by |-> r, start |-> run[r].start] \in rows'
      BY DEF PostRows
    <2> QED BY <2>1 DEF There, Of
  <1>4. Found(w)'
    <2> DEFINE e == <<w.kind, w.name>>
    <2>1. e \in Inserted(w) /\ e[1] = w.kind /\ e[2] = w.name
      BY DEF Inserted
    <2> HIDE DEF e
    <2>2. There(e[1], e[2])'
      BY <1>3, <2>1
    <2> QED BY <2>1, <2>2 DEF Found, There, Of
  <1>5. ASSUME NEW x \in rows', x.by \in EyeOnWater
        PROVE  \E j \in DOMAIN Wanted[x.by] :
                   /\ <<x.kind, x.name>> \in Inserted(Wanted[x.by][j])
                   /\ \A e \in Inserted(Wanted[x.by][j]) : There(e[1], e[2])'
    <2>1. CASE x \in rows
      <3>1. PICK j \in DOMAIN Wanted[x.by] :
                /\ <<x.kind, x.name>> \in Inserted(Wanted[x.by][j])
                /\ \A e \in Inserted(Wanted[x.by][j]) : There(e[1], e[2])
        BY <1>5, <2>1 DEF EInv, Together
      <3>2. \A e \in Inserted(Wanted[x.by][j]) : There(e[1], e[2])'
        BY <3>1 DEF There, Of
      <3> QED BY <3>1, <3>2
    <2>2. CASE x \in PostRows(r, w)
      <3>1. PICK e \in Inserted(w) :
                x = [kind |-> e[1], name |-> e[2], by |-> r, start |-> run[r].start]
        BY <2>2 DEF PostRows
      <3>2. x.by = r /\ <<x.kind, x.name>> \in Inserted(w)
        BY <1>2, <3>1
      <3> QED BY <1>1, <1>3, <3>2
    <2> QED BY <2>1, <2>2
  <1> QED BY <1>4, <1>5 DEF Together, Inserted

LEMMA PostKeeps ==
    ASSUME EInv, NEW r \in Run, PostItem(r)
    PROVE  EInv'
  <1>1. UnderWay(r) /\ UNCHANGED <<starts, overlap>>
    BY DEF PostItem, UnderWay
  <1>2. PICK w : w = Want(r)
    OBVIOUS
  <1>3. CASE ~Conflict(Want(r))
    <2>1. rows' = rows \union PostRows(r, Want(r)) /\ run' = [run EXCEPT ![r] = Onward(r)]
      BY <1>3 DEF PostItem, Went
    <2>2. Together' /\ Found(w)'
      BY <1>1, <1>2, <2>1, PostTogether
    <2> QED BY <1>1, <1>2, <2>1, <2>2, OnwardKeeps
  <1>4. CASE Conflict(Want(r))
    <2>1. UNCHANGED rows /\ run' = [run EXCEPT ![r] = AfterConflict(r)]
      BY <1>4 DEF PostItem, Went
    <2>2. CASE r \notin EyeOnWater
      <3>1. run' = [run EXCEPT ![r] = [run[r] EXCEPT !.pc = "failed"]]
        BY <2>1, <2>2 DEF AfterConflict
      <3> QED BY <1>1, <2>1, <3>1, StayKeeps
    <2>3. CASE r \in EyeOnWater /\ Want(r).kind = "Observation"
      <3>1. run' = [run EXCEPT ![r] = Onward(r)]
        BY <2>1, <2>3 DEF AfterConflict
      <3>2. Want(r).nested = {}
        <4>1. run[r].at \in DOMAIN Wanted[r]
          BY <1>1, WantedTypes DEF EInv, Fits, UnderWay, Way
        <4> QED BY <2>3, <4>1, ImportAssumption DEF Want
      <3>3. Found(w)
        <4>1. PICK e \in {<<w.kind, w.name>>} : There(e[1], e[2])
          BY <1>2, <1>4, <3>2 DEF Conflict, Inserted
        <4> QED BY <4>1 DEF Found
      <3>4. Found(w)'
        BY <2>1, <3>3, Grows
      <3> QED BY <1>1, <1>2, <2>1, <3>1, <3>4, TogetherStays, OnwardKeeps
    <2>4. CASE r \in EyeOnWater /\ Want(r).kind # "Observation"
      <3>1. run' = [run EXCEPT ![r] = [run[r] EXCEPT !.pc = "again"]]
        BY <2>1, <2>4 DEF AfterConflict
      <3>2. PICK pc \in Way \union {"failed"} : pc = "again"
        BY DEF Way
      <3>3. run' = [run EXCEPT ![r] = [run[r] EXCEPT !.pc = pc]]
        BY <3>1, <3>2
      <3>4. pc # "look" /\ pc # "post"
        BY <3>2
      <3> QED BY <1>1, <1>4, <2>1, <2>4, <3>3, <3>4, StayKeeps
    <2> QED BY <2>2, <2>3, <2>4
  <1> QED BY <1>3, <1>4

\* When the second look finds nothing either, someone else had made what the entity nests:
\* eyeonwater2istsos would have made it together with this entity.
LEMMA MadeElsewhere ==
    ASSUME EInv, NEW r \in Run, run[r].pc = "again", ~Found(Want(r))
    PROVE  \E e \in Want(r).nested : \E x \in Of(e[1], e[2]) : x.by \notin EyeOnWater
  <1> DEFINE v == Want(r)
  <1>1. /\ r \in EyeOnWater /\ Conflict(v) /\ run[r].at \in DOMAIN Wanted[r]
        /\ v = Wanted[r][run[r].at] /\ v \in Entry
    BY WantedTypes DEF EInv, Fits, Way, Want
  <1> HIDE DEF v
  <1>2. PICK e \in Inserted(v) : There(e[1], e[2])
    BY <1>1 DEF Conflict
  <1>3. e \in v.nested
    <2>1. e # <<v.kind, v.name>>
      BY <1>2 DEF Found, v
    <2> QED BY <2>1 DEF Inserted
  <1>4. PICK x \in Of(e[1], e[2]) : TRUE
    BY <1>2 DEF There
  <1>5. x \in rows /\ e = <<x.kind, x.name>>
    BY <1>1, <1>3, <1>4 DEF Of, Entry, Entity
  <1>6. x.by \notin EyeOnWater
    <2> SUFFICES ASSUME x.by \in EyeOnWater PROVE FALSE
      OBVIOUS
    <2>1. PICK j \in DOMAIN Wanted[x.by] :
              /\ <<x.kind, x.name>> \in Inserted(Wanted[x.by][j])
              /\ \A d \in Inserted(Wanted[x.by][j]) : There(d[1], d[2])
      BY <1>5 DEF EInv, Together
    <2> DEFINE w == Wanted[x.by][j]
    <2>2. v.nested \cap ({<<w.kind, w.name>>} \union w.nested) # {}
      BY <1>3, <1>5, <2>1 DEF Inserted
    <2> HIDE DEF w
    <2>3. v.kind = w.kind /\ v.name = w.name
      <3>1. ASSUME NEW s \in EyeOnWater, NEW i \in DOMAIN Wanted[r], NEW k \in DOMAIN Wanted[s],
                   NEW a, NEW d, a = Wanted[r][i], d = Wanted[s][k],
                   a.nested \cap ({<<d.kind, d.name>>} \union d.nested) # {}
            PROVE  a.kind = d.kind /\ a.name = d.name
        BY <1>1, <3>1, ImportAssumption DEF NestedOnce
      <3>2. w = Wanted[x.by][j]
        BY DEF w
      <3>3. PICK s \in EyeOnWater : s = x.by
        OBVIOUS
      <3> QED BY <1>1, <2>1, <2>2, <3>1, <3>2, <3>3, SMTT(40)
    <2>4. There(w.kind, w.name)
      <3>1. <<w.kind, w.name>> \in Inserted(w)
        BY DEF Inserted
      <3> QED BY <2>1, <3>1 DEF w
    <2> QED BY <2>3, <2>4 DEF Found, v
  <1> QED BY <1>3, <1>4, <1>6 DEF v

LEMMA LookAgainKeeps ==
    ASSUME EInv, NEW r \in Run, LookAgain(r)
    PROVE  EInv'
  <1>1. /\ UnderWay(r) /\ run[r].pc = "again" /\ UNCHANGED <<rows, starts, overlap>>
        /\ run' = [run EXCEPT ![r] = AfterSecondLook(r)]
    BY DEF LookAgain, UnderWay, Went
  <1>2. CASE Found(Want(r))
    <2>1. run' = [run EXCEPT ![r] = Onward(r)]
      BY <1>1, <1>2 DEF AfterSecondLook
    <2>2. PICK w : w = Want(r)
      OBVIOUS
    <2>3. Found(w)'
      BY <1>1, <1>2, <2>2, Grows
    <2> QED BY <1>1, <2>1, <2>2, <2>3, TogetherStays, OnwardKeeps
  <1>3. CASE ~Found(Want(r))
    <2>1. PICK at, n : at = run[r].at /\ n = NextItem(r)
      OBVIOUS
    <2>2. /\ at \in 1 .. Len(Wanted[r]) /\ Len(Wanted[r]) \in Nat /\ Passed(r, run[r])
          /\ at \in Nat
      BY <1>1, <2>1, WantedTypes DEF EInv, Fits, Way
    <2>3. /\ n \in at + 1 .. Len(Wanted[r]) + 1
          /\ \A k \in at + 1 .. n - 1 : Wanted[r][k].item = Wanted[r][at].item
      BY <2>1, <2>2, NextItemFacts DEF Want
    <2>4. n \in 1 .. Len(Wanted[r]) + 1 /\ n \in Nat
      BY <2>2, <2>3
    <2>5. PICK f : f = Enter(r, n)
      OBVIOUS
    <2>6. f \in RunRecord /\ f.at = n /\ Fits(r, f)' /\ Unseen(r, f)'
      BY <2>4, <2>5, EnterFits
    <2>7. run' = [run EXCEPT ![r] = f]
      BY <1>1, <1>3, <2>1, <2>5 DEF AfterSecondLook
    <2>8. ASSUME NEW i \in 1 .. n - 1
          PROVE  Found(Wanted[r][i]) \/ Foreign(r, i)
      <3>1. CASE i < at
        BY <1>1, <2>1, <2>2, <3>1 DEF Passed, Way
      <3>2. CASE i >= at
        <4>1. at \in 1 .. i /\ Wanted[r][at].item = Wanted[r][i].item
          BY <2>2, <2>3, <2>4, <3>2
        <4>2. \E e \in Wanted[r][at].nested : \E x \in Of(e[1], e[2]) : x.by \notin EyeOnWater
          BY <1>1, <1>3, <2>1, MadeElsewhere DEF Want
        <4> QED BY <4>1, <4>2 DEF Foreign
      <3> QED BY <2>2, <2>4, <3>1, <3>2
    <2>9. Passed(r, f)'
      <3>1. \A i \in 1 .. f.at - 1 : (Found(Wanted[r][i]) \/ Foreign(r, i))'
        BY <1>1, <2>6, <2>8, Grows
      <3> QED BY <3>1 DEF Passed
    <2>10. /\ starts' \in Nat /\ overlap' \in BOOLEAN
           /\ ~overlap' /\ f.pc \in Way => \A s \in Run \ {r} : ~UnderWay(s)
           /\ overlap => overlap'
      BY <1>1 DEF EInv
    <2> QED BY <1>1, <2>6, <2>7, <2>9, <2>10, TogetherStays, MovesOn
  <1> QED BY <1>2, <1>3

LEMMA StopKeeps ==
    ASSUME EInv, NEW r \in Run, Stop(r)
    PROVE  EInv'
  <1>1. PICK f : f = [run[r] EXCEPT !.pc = "ready"]
    OBVIOUS
  <1>2. run[r] \in RunRecord /\ Fits(r, run[r]) /\ UNCHANGED <<rows, starts, overlap>>
    BY DEF EInv, Stop
  <1>3. f \in RunRecord /\ f.pc = "ready" /\ f.at = run[r].at
    BY <1>1, <1>2 DEF RunRecord
  <1>4. Fits(r, f)' /\ Passed(r, f)' /\ Unseen(r, f)'
    BY <1>2, <1>3 DEF Fits, Passed, Unseen, Way
  <1>5. run' = [run EXCEPT ![r] = f] /\ starts' \in Nat /\ overlap' \in BOOLEAN
    BY <1>1 DEF Stop, Went, EInv
  <1> QED BY <1>2, <1>3, <1>4, <1>5, TogetherStays, MovesOn DEF Way

-----------------------------------------------------------------------------
(* Theorems.                                                               *)

\* What a run is past is stored or excused, what eyeonwater2istsos nests is there with the
\* entity that nests it, and without overlap nothing comes between a look and its POST.
THEOREM ImportInvariance == EntitySpec => []EInv
  <1>1. EntityInit => EInv
    <2> SUFFICES ASSUME EntityInit PROVE EInv
      OBVIOUS
    <2>1. \A r \in Run : run[r] = [pc |-> "ready", at |-> 1, start |-> 0]
      BY DEF EntityInit
    <2>2. run \in [Run -> RunRecord]
      BY DEF EntityInit, RunRecord
    <2>3. ASSUME NEW r \in Run
          PROVE  Fits(r, run[r]) /\ Passed(r, run[r]) /\ Unseen(r, run[r]) /\ ~UnderWay(r)
      BY <2>1, <2>2, WantedTypes DEF Fits, Passed, Unseen, UnderWay, Way
    <2>4. Together
      BY ImportAssumption DEF EntityInit, Together
    <2> QED BY <2>2, <2>3, <2>4 DEF EInv, EntityInit
  <1>2. EInv /\ [EntityNext]_entityVars => EInv'
    <2> SUFFICES ASSUME EInv, [EntityNext]_entityVars PROVE EInv'
      OBVIOUS
    <2>1. CASE UNCHANGED entityVars
      BY <2>1 DEF entityVars, EInv, Fits, Passed, Together, Unseen, UnderWay, Conflict,
                  Found, Foreign, There, Of
    <2>2. CASE EntityNext
      BY <2>2, BeginKeeps, LookUpKeeps, PostKeeps, LookAgainKeeps, StopKeeps DEF EntityNext
    <2> QED BY <2>1, <2>2
  <1> QED BY <1>1, <1>2, PTL DEF EntitySpec

\* A run is at one of its wanted entities, and looks again only for one that
\* eyeonwater2istsos could not create.
THEOREM ImportTypes == EntitySpec => []EntityTypeOK
  <1>1. EInv => EntityTypeOK
    BY DEF EInv, EntityTypeOK, Fits, RunRecord, Way, UnderWay, Want
  <1> QED BY <1>1, ImportInvariance, PTL

\* When a run ends, all it went through is there, whoever won the race for it, unless
\* someone else had made the ObservedProperty that a Datastream of the item nests.
THEOREM AllStored == EntitySpec => []EveryItemStored
  <1>1. EInv => EveryItemStored
    <2> SUFFICES ASSUME EInv, NEW r \in Run, run[r].pc = "done",
                        NEW i \in 1 .. Len(Wanted[r])
                 PROVE  Found(Wanted[r][i]) \/ Foreign(r, i)
      BY DEF EveryItemStored
    <2>1. run[r].at = Len(Wanted[r]) + 1 /\ Len(Wanted[r]) \in Nat /\ Passed(r, run[r])
      BY WantedTypes DEF EInv, Fits
    <2>2. i \in 1 .. run[r].at - 1
      BY <2>1
    <2> QED BY <2>1, <2>2 DEF Passed
  <1> QED BY <1>1, ImportInvariance, PTL

\* With unique names, a rerun that overlaps no other run adds nothing, except for what the
\* run before had to skip.
THEOREM RerunsAreSafe == EntitySpec => RerunAddsNothing
  <1> DEFINE Adds(r) ==
          (/\ UniqueNames /\ ~overlap
           /\ \E s \in Run : run[s].pc = "done" /\ Wanted[s] = Wanted[r])
              => run'[r] = run[r] \/ rows' = rows \/ Foreign(r, run[r].at)
  <1>1. ASSUME EInv, EntityNext, NEW r \in Run
        PROVE  Adds(r)
    <2> SUFFICES ASSUME UniqueNames, ~overlap, run'[r] # run[r], rows' # rows,
                        NEW s \in Run, run[s].pc = "done", Wanted[s] = Wanted[r]
                 PROVE  Foreign(r, run[r].at)
      OBVIOUS
    <2>1. PostItem(r)
      <3>1. PICK q \in Run : PostItem(q)
        BY <1>1 DEF EntityNext, BeginImport, LookUp, LookAgain, Stop
      <3>2. \A t \in Run : t # q => run'[t] = run[t]
        BY <1>1, <3>1 DEF PostItem, Went, EInv
      <3> QED BY <3>1, <3>2
    <2>2. run[r].pc = "post" /\ ~Conflict(Want(r))
      BY <2>1 DEF PostItem
    <2>3. PICK i \in 1 .. Len(Wanted[r]) : i = run[r].at
      BY <1>1, <2>2 DEF EInv, Fits, Way
    <2>4. Want(r) = Wanted[r][i] /\ Unseen(r, run[r])
      BY <1>1, <2>3 DEF Want, EInv
    <2>5. Found(Wanted[s][i]) \/ Foreign(s, i)
      <3>1. run[s].at = Len(Wanted[s]) + 1 /\ Len(Wanted[s]) \in Nat /\ Passed(s, run[s])
        BY <1>1, WantedTypes DEF EInv, Fits
      <3>2. i \in 1 .. run[s].at - 1
        BY <3>1
      <3> QED BY <3>1, <3>2 DEF Passed
    <2>6. ~Found(Wanted[r][i])
      <3>1. CASE Wanted[r][i].kind # "Observation"
        BY <2>2, <2>3, <2>4, <3>1 DEF Unseen
      <3>2. CASE Wanted[r][i].kind = "Observation"
        <4> DEFINE w == Wanted[r][i]
                   e == <<w.kind, w.name>>
        <4>1. e \in Inserted(w) /\ e[1] = "Observation" /\ e[1] = w.kind /\ e[2] = w.name
          BY <3>2 DEF Inserted
        <4>2. Unique(e[1])
          BY <4>1 DEF Unique
        <4> HIDE DEF e
        <4>3. ~There(e[1], e[2])
          BY <2>2, <2>4, <4>1, <4>2 DEF Conflict
        <4> QED BY <4>1, <4>3 DEF Found
      <3> QED BY <3>1, <3>2
    <2>7. Foreign(r, i)
      BY <2>5, <2>6 DEF Foreign
    <2> QED BY <2>3, <2>7
  <1>2. EInv /\ [EntityNext]_entityVars => [\A r \in Run : Adds(r)]_entityVars
    BY <1>1
  <1> QED BY <1>2, ImportInvariance, PTL DEF EntitySpec, RerunAddsNothing

-----------------------------------------------------------------------------
(* Patching.                                                               *)

\* What a request p knows of the row: the columns it will write are those its body names,
\* and a version it found is not later than the committed one.
Asks(p, row) ==
    /\ DOMAIN p = {"pc", "body", "set", "at", "wrote"} /\ p.wrote \in BOOLEAN
    /\ p.pc \in Answered \union {"idle", "load", "find", "write", "end"}
    /\ p.pc \in {"load", "find", "write", "end"} => p.body \in Body
    /\ p.pc = "load" => p.body.kind = "json"
    /\ p.pc \in {"find", "write", "end"} => DOMAIN p.set \subseteq ColumnsOf(p.body)
    /\ DOMAIN p.set \subseteq Column
    /\ p.pc = "write" => row = NoEntity \/ p.at \in 0 .. row.at
    /\ p.pc = "end" /\ ~p.wrote => row = NoEntity \/ row.at > 0

\* A row as the tables have it.
Stored(row) == row # NoEntity => DOMAIN row.doc = Column /\ row.at \in 0 .. MaxMove

\* Who holds the row has written it, over the committed one, which no other changes.
Held(h) ==
    /\ patch[h].pc = "end" /\ patch[h].wrote /\ entity # NoEntity
    /\ \/ draft = NoEntity
       \/ draft.doc = Updated(entity.doc, patch[h].set) /\ draft.at \in entity.at .. MaxMove

PInv ==
    /\ DOMAIN patch = Patch /\ Stored(entity)
    /\ holder \in Patch \union {NoPatch}
    /\ IF holder = NoPatch THEN draft = entity ELSE Held(holder)
    /\ \A r \in Patch : /\ Asks(patch[r], entity)
                        /\ patch[r].pc = "end" /\ patch[r].wrote => holder = r

\* What a request knows stays true when the row is re-created or deleted.
LEMMA AsksStays ==
    ASSUME NEW p, NEW row, NEW new, Asks(p, row), Stored(row), Stored(new),
           new # NoEntity => row # NoEntity /\ row.at <= new.at
    PROVE  Asks(p, new)
  <1>1. new # NoEntity => row.at \in Nat /\ new.at \in Nat
    BY NobodyAssumption DEF Stored
  <1> QED BY <1>1 DEF Asks

\* A request that works on leaves the row and the others alone.
LEMMA PatchStep ==
    ASSUME PInv, NEW r \in Patch, NEW p, patch' = [patch EXCEPT ![r] = p],
           UNCHANGED <<entity, holder, draft>>, Asks(p, entity),
           holder # r, ~(p.pc = "end" /\ p.wrote)
    PROVE  PInv'
  <1>1. DOMAIN patch' = Patch /\ patch'[r] = p /\ \A s \in Patch \ {r} : patch'[s] = patch[s]
    BY DEF PInv
  <1>2. holder # NoPatch => Held(holder)' 
    BY <1>1 DEF PInv, Held
  <1> QED BY <1>1, <1>2 DEF PInv

LEMMA AskKeeps ==
    ASSUME PInv, NEW r \in Patch, Ask(r)
    PROVE  PInv'
  <1>1. PICK b \in Body :
         patch' = [patch EXCEPT ![r] =
           [Rest(IF b.kind = "delete" THEN "find"
                 ELSE IF entity = NoEntity THEN "missing"
                 ELSE IF b.kind = "json" THEN "load"
                 ELSE IF b.kind = "put" /\ ~(Mandatory \subseteq DOMAIN b.set) THEN "refused"
                 ELSE "find")
            EXCEPT !.body = b,
                   !.set = CASE b.kind = "merge" -> b.set
                             [] b.kind = "put" -> Full(b.set)
                             [] OTHER -> <<>>]]
    BY DEF Ask
  <1> DEFINE pc == IF b.kind = "delete" THEN "find"
                   ELSE IF entity = NoEntity THEN "missing"
                   ELSE IF b.kind = "json" THEN "load"
                   ELSE IF b.kind = "put" /\ ~(Mandatory \subseteq DOMAIN b.set) THEN "refused"
                   ELSE "find"
             set == CASE b.kind = "merge" -> b.set
                      [] b.kind = "put" -> Full(b.set)
                      [] OTHER -> <<>>
             p == [Rest(pc) EXCEPT !.body = b, !.set = set]
  <1>2. patch' = [patch EXCEPT ![r] = p]
    BY <1>1
  <1>3. /\ b.kind \in {"merge", "put", "json", "delete"}
        /\ b.kind = "merge" => DOMAIN b.set \subseteq Column
    BY BodyAssumption
  <1>4. /\ b.kind = "merge" => DOMAIN set = DOMAIN b.set /\ ColumnsOf(b) = DOMAIN b.set
        /\ b.kind = "put" => DOMAIN set = Column /\ ColumnsOf(b) = Column
        /\ b.kind \in {"json", "delete"} => DOMAIN set = {}
    <2>1. CASE b.kind = "merge"
      BY <2>1 DEF ColumnsOf
    <2>2. CASE b.kind = "put"
      BY <2>2 DEF ColumnsOf, Full
    <2>3. CASE b.kind \in {"json", "delete"}
      <3>1. set = <<>>
        BY <2>3
      <3>2. DOMAIN <<>> = {}
        OBVIOUS
      <3> QED BY <2>3, <3>1, <3>2
    <2> QED BY <1>3, <2>1, <2>2, <2>3
  <1>5. DOMAIN set \subseteq ColumnsOf(b) /\ DOMAIN set \subseteq Column
    BY <1>3, <1>4
  <1>6. pc \in {"find", "missing", "load", "refused"} /\ (pc = "load" => b.kind = "json")
    OBVIOUS
  <1> HIDE DEF pc, set
  <1>7. Asks(p, entity) /\ ~(p.pc = "end" /\ p.wrote)
    <2> DEFINE q == Rest(pc)
    <2>1. /\ DOMAIN q = {"pc", "body", "set", "at", "wrote"} /\ q.pc = pc /\ q.wrote = FALSE
      BY DEF Rest
    <2> HIDE DEF q
    <2>2. /\ DOMAIN p = {"pc", "body", "set", "at", "wrote"} /\ p.pc = pc /\ p.wrote = FALSE
          /\ p.body = b /\ p.set = set
      BY <2>1 DEF q
    <2> HIDE DEF p
    <2> QED BY <1>5, <1>6, <2>2 DEF Asks, Answered
  <1>8. holder # r /\ UNCHANGED <<entity, holder, draft>>
    BY NobodyAssumption DEF Ask, RowUnchanged, PInv, Held
  <1> HIDE DEF p
  <1> QED BY <1>2, <1>7, <1>8, PatchStep

LEMMA LoadKeeps ==
    ASSUME PInv, NEW r \in Patch, Load(r)
    PROVE  PInv'
  <1> DEFINE b == patch[r].body
             doc == ApplyAll(Loaded(entity, Referenced(b.ops)), b.ops)
             pc == IF doc = Invalid THEN "refused" ELSE "find"
             set == IF doc = Invalid THEN <<>> ELSE Merge(doc, Referenced(b.ops))
             p == [patch[r] EXCEPT !.pc = pc, !.set = set]
  <1>1. Asks(patch[r], entity) /\ patch[r].pc = "load" /\ DOMAIN patch = Patch
    BY DEF Load, PInv
  <1>2. patch' = [patch EXCEPT ![r] = p]
    BY <1>1 DEF Load
  <1>3. b \in Body /\ b.kind = "json" /\ Referenced(b.ops) \subseteq Column
    BY <1>1, BodyAssumption DEF Asks
  <1>4. Referenced(b.ops) \subseteq ColumnsOf(b)
    BY <1>3 DEF Referenced, ColumnsOf
  <1>5. DOMAIN set \subseteq ColumnsOf(b) /\ DOMAIN set \subseteq Column
    BY <1>3, <1>4 DEF Merge
  <1>6. pc \in {"refused", "find"}
    OBVIOUS
  <1> HIDE DEF pc, set
  <1>7. /\ DOMAIN p = {"pc", "body", "set", "at", "wrote"} /\ p.wrote \in BOOLEAN
        /\ p.pc = pc /\ p.set = set /\ p.body = b
    BY <1>1 DEF Asks
  <1> HIDE DEF p, b
  <1>8. Asks(p, entity) /\ ~(p.pc = "end" /\ p.wrote)
    BY <1>3, <1>5, <1>6, <1>7 DEF Asks, Answered
  <1>9. holder # r /\ UNCHANGED <<entity, holder, draft>>
    BY NobodyAssumption DEF Load, PInv, Held
  <1> QED BY <1>2, <1>8, <1>9, PatchStep

LEMMA FindKeeps ==
    ASSUME PInv, NEW r \in Patch, Find(r)
    PROVE  PInv'
  <1> DEFINE at == IF entity = NoEntity THEN NoEntity ELSE entity.at
             p == [patch[r] EXCEPT !.pc = "write", !.at = at]
  <1>1. Asks(patch[r], entity) /\ patch[r].pc = "find" /\ DOMAIN patch = Patch
    BY DEF Find, PInv
  <1>2. patch' = [patch EXCEPT ![r] = p]
    BY <1>1 DEF Find
  <1>3. entity = NoEntity \/ at \in 0 .. entity.at
    BY NobodyAssumption DEF PInv, Stored
  <1> HIDE DEF at
  <1>4. /\ DOMAIN p = {"pc", "body", "set", "at", "wrote"} /\ p.wrote \in BOOLEAN
        /\ p.pc = "write" /\ p.at = at /\ p.set = patch[r].set /\ p.body = patch[r].body
    BY <1>1 DEF Asks
  <1> HIDE DEF p
  <1>5. Asks(p, entity) /\ ~(p.pc = "end" /\ p.wrote)
    BY <1>1, <1>3, <1>4 DEF Asks, Answered
  <1>6. holder # r /\ UNCHANGED <<entity, holder, draft>>
    BY NobodyAssumption DEF Find, RowUnchanged, PInv, Held
  <1> QED BY <1>2, <1>5, <1>6, PatchStep

LEMMA PutKeeps ==
    ASSUME PInv, NEW r \in Patch, Put(r)
    PROVE  PInv'
  <1> DEFINE found == patch[r].at # NoEntity /\ entity # NoEntity /\ entity.at = patch[r].at
             p == [patch[r] EXCEPT !.pc = "end", !.wrote = found]
  <1>1. /\ Asks(patch[r], entity) /\ patch[r].pc = "write" /\ DOMAIN patch = Patch
        /\ holder = NoPatch /\ draft = entity /\ Stored(entity)
        /\ found /\ Moves(r) => entity.at < MaxMove
    BY DEF Put, PInv
  <1>2. patch' = [patch EXCEPT ![r] = p] /\ entity' = entity
    BY <1>1 DEF Put
  <1>3. /\ DOMAIN p = {"pc", "body", "set", "at", "wrote"} /\ p.wrote = found
        /\ p.pc = "end" /\ p.set = patch[r].set /\ p.body = patch[r].body
    BY <1>1 DEF Asks
  <1>4. ~found => entity = NoEntity \/ entity.at > 0
    BY <1>1, NobodyAssumption DEF Asks, Stored
  <1>5. Asks(p, entity)
    BY <1>1, <1>3, <1>4 DEF Asks, Answered
  <1>6. DOMAIN patch' = Patch /\ patch'[r] = p /\ \A s \in Patch \ {r} : patch'[s] = patch[s]
    BY <1>1, <1>2
  <1>7. \A s \in Patch \ {r} : ~(patch[s].pc = "end" /\ patch[s].wrote)
    BY <1>1, NobodyAssumption DEF PInv
  <1>8. CASE found
    <2>1. holder' = r /\ draft' = IF p.body.kind = "delete" THEN NoEntity ELSE Overwrite(r, entity)
      BY <1>3, <1>8 DEF Put
    <2>2. Overwrite(r, entity).doc = Updated(entity.doc, p.set)
      BY <1>3 DEF Overwrite
    <2>3. Overwrite(r, entity).at \in entity.at .. MaxMove
      <3>1. entity.at \in 0 .. MaxMove
        BY <1>1, <1>8 DEF Stored
      <3> QED BY <1>1, <1>8, <3>1, NobodyAssumption DEF Overwrite
    <2>4. Held(holder)'
      BY <1>2, <1>3, <1>6, <1>8, <2>1, <2>2, <2>3 DEF Held
    <2>5. r # NoPatch
      BY NobodyAssumption
    <2> HIDE DEF p, found
    <2> QED BY <1>1, <1>2, <1>5, <1>6, <1>7, <2>1, <2>4, <2>5 DEF PInv
  <1>9. CASE ~found
    <2>1. UNCHANGED <<holder, draft>>
      BY <1>9 DEF Put
    <2>2. ~p.wrote
      BY <1>3, <1>9
    <2> HIDE DEF p, found
    <2> QED BY <1>1, <1>2, <1>5, <1>6, <1>7, <2>1, <2>2 DEF PInv
  <1> QED BY <1>8, <1>9

LEMMA SettleKeeps ==
    ASSUME PInv, NEW r \in Patch, Settle(r)
    PROVE  PInv'
  <1> DEFINE pc == IF patch[r].body.kind = "delete" /\ ~patch[r].wrote THEN "missing" ELSE "ok"
             p == [patch[r] EXCEPT !.pc = pc, !.at = NoEntity]
  <1>1. /\ Asks(patch[r], entity) /\ patch[r].pc = "end" /\ DOMAIN patch = Patch
        /\ r # NoPatch
    BY NobodyAssumption DEF Settle, PInv
  <1>2. /\ patch' = [patch EXCEPT ![r] = p] /\ draft' = draft
        /\ entity' = IF holder = r THEN draft ELSE entity
        /\ holder' = IF holder = r THEN NoPatch ELSE holder
    BY <1>1 DEF Settle
  <1>3. pc \in {"missing", "ok"}
    OBVIOUS
  <1> HIDE DEF pc
  <1>4. /\ DOMAIN p = {"pc", "body", "set", "at", "wrote"} /\ p.wrote \in BOOLEAN
        /\ p.pc = pc /\ p.set = patch[r].set
    BY <1>1 DEF Asks
  <1>5. \A row : Asks(p, row)
    BY <1>1, <1>3, <1>4 DEF Asks, Answered
  <1>6. DOMAIN patch' = Patch /\ patch'[r] = p /\ \A s \in Patch \ {r} : patch'[s] = patch[s]
    BY <1>1, <1>2
  <1> HIDE DEF p
  <1>7. CASE holder = r
    <2>1. /\ entity' = draft /\ holder' = NoPatch /\ draft' = entity'
          /\ entity # NoEntity /\ Stored(entity)
          /\ \/ draft = NoEntity
             \/ draft.doc = Updated(entity.doc, patch[r].set) /\ draft.at \in entity.at .. MaxMove
      BY <1>1, <1>2, <1>7 DEF PInv, Held
    <2>2. Stored(entity') /\ (entity' # NoEntity => entity.at <= entity'.at)
      <3>1. CASE draft = NoEntity
        BY <2>1, <3>1 DEF Stored
      <3>2. CASE draft # NoEntity
        <4>1. DOMAIN draft.doc = DOMAIN entity.doc
          BY <2>1, <3>2 DEF Updated
        <4>2. DOMAIN draft.doc = Column
          BY <2>1, <4>1 DEF Stored
        <4>3. draft.at \in 0 .. MaxMove /\ entity.at <= draft.at
          BY <2>1, <3>2, NobodyAssumption DEF Stored
        <4> QED BY <2>1, <4>2, <4>3 DEF Stored
      <3> QED BY <3>1, <3>2
    <2>3. \A s \in Patch : Asks(patch'[s], entity')
      <3>1. ASSUME NEW s \in Patch \ {r} PROVE Asks(patch[s], entity')
        BY <2>1, <2>2, AsksStays DEF PInv
      <3> QED BY <1>5, <1>6, <3>1
    <2>4. \A s \in Patch : ~(patch'[s].pc = "end" /\ patch'[s].wrote)
      BY <1>3, <1>4, <1>6, <1>7 DEF PInv
    <2> QED BY <1>6, <2>1, <2>2, <2>3, <2>4 DEF PInv, Stored
  <1>8. CASE holder # r
    <2>1. /\ UNCHANGED <<entity, holder, draft>> /\ ~patch[r].wrote
      BY <1>1, <1>2, <1>8 DEF PInv
    <2>2. Asks(p, entity) /\ ~(p.pc = "end" /\ p.wrote)
      BY <1>3, <1>4, <1>5
    <2> QED BY <1>2, <1>8, <2>1, <2>2, PatchStep
  <1> QED BY <1>7, <1>8

LEMMA LoseKeeps ==
    ASSUME PInv, NEW r \in Patch, Lose(r)
    PROVE  PInv'
  <1> DEFINE p == Rest("cancelled")
  <1>1. /\ patch' = [patch EXCEPT ![r] = p] /\ entity' = entity
        /\ holder' = IF holder = r THEN NoPatch ELSE holder
        /\ draft' = IF holder = r THEN entity ELSE draft
    BY DEF Lose
  <1>2. Asks(p, entity) /\ ~(p.pc = "end" /\ p.wrote)
    <2>1. DOMAIN <<>> = {}
      OBVIOUS
    <2>2. DOMAIN p = {"pc", "body", "set", "at", "wrote"} /\ p.pc = "cancelled"
          /\ p.set = <<>> /\ p.wrote = FALSE
      BY DEF Rest
    <2> HIDE DEF p
    <2> QED BY <2>1, <2>2 DEF Asks, Answered
  <1> HIDE DEF p
  <1>3. CASE holder = r
    <2>1. DOMAIN patch' = Patch /\ patch'[r] = p /\ \A s \in Patch \ {r} : patch'[s] = patch[s]
      BY <1>1 DEF PInv
    <2>2. \A s \in Patch : Asks(patch'[s], entity) /\ ~(patch'[s].pc = "end" /\ patch'[s].wrote)
      BY <1>2, <1>3, <2>1 DEF PInv
    <2> QED BY <1>1, <1>3, <2>1, <2>2 DEF PInv, Stored
  <1>4. CASE holder # r
    BY <1>1, <1>2, <1>4, PatchStep
  <1> QED BY <1>3, <1>4

LEMMA PInitially == PatchInit => PInv
  <1> SUFFICES ASSUME PatchInit PROVE PInv
    OBVIOUS
  <1>1. /\ entity = [doc |-> Original, at |-> 0] /\ holder = NoPatch /\ draft = entity
        /\ patch = [r \in Patch |-> Rest("idle")]
    BY DEF PatchInit
  <1>2. Stored(entity)
    BY <1>1, OriginalAssumption, NobodyAssumption DEF Stored
  <1>3. Asks(Rest("idle"), entity) /\ ~(Rest("idle").pc = "end")
    <2>1. DOMAIN <<>> = {}
      OBVIOUS
    <2> QED BY <2>1 DEF Asks, Rest, Answered
  <1> HIDE DEF Rest
  <1> QED BY <1>1, <1>2, <1>3 DEF PInv

LEMMA PStep ==
    ASSUME PInv, [PatchNext]_patchVars
    PROVE  PInv'
  <1>1. ASSUME NEW r \in Patch, Ask(r) \/ Load(r) \/ Find(r) \/ Put(r) \/ Settle(r) \/ Lose(r)
        PROVE  PInv'
    BY <1>1, AskKeeps, LoadKeeps, FindKeeps, PutKeeps, SettleKeeps, LoseKeeps
  <1>2. CASE UNCHANGED patchVars
    BY <1>2 DEF patchVars, PInv, Held
  <1> QED BY <1>1, <1>2 DEF PatchNext

\* The inductive invariant of concurrent requests for one row.
THEOREM PatchInvariance == PatchSpec => []PInv
  <1> QED BY PInitially, PStep, PTL DEF PatchSpec

\* The variables of the requests keep their types.
THEOREM PatchTypesHold == PatchSpec => []PatchTypeOK
  <1>1. PInv => PatchTypeOK
    BY DEF PInv, PatchTypeOK, Stored, Asks
  <1> QED BY <1>1, PatchInvariance, PTL

\* A request that is answered 200 took effect, unless the row was deleted or moved to
\* another partition, and it left the columns it does not name as others committed them:
\* the answer of update_entity and of the JSON Patch of json_patch.py.
THEOREM AnswersStand == PatchSpec => AnswersHold
  <1> DEFINE Answer(r) == 
        patch[r].pc = "end" /\ patch'[r].pc = "ok" =>
             \/ entity' = NoEntity
             \/ ~patch[r].wrote /\ entity.at > 0
             \/ /\ patch[r].wrote
                /\ \A c \in DOMAIN patch[r].set : entity'.doc[c] = patch[r].set[c]
                /\ \A c \in Column \ ColumnsOf(patch[r].body) :
                       entity'.doc[c] = entity.doc[c]
  <1>1. ASSUME PInv, [PatchNext]_patchVars, NEW r \in Patch
        PROVE  Answer(r)
    <2> SUFFICES ASSUME patch[r].pc = "end", patch'[r].pc = "ok", entity' # NoEntity
                 PROVE  \/ ~patch[r].wrote /\ entity.at > 0
                        \/ /\ patch[r].wrote
                           /\ \A c \in DOMAIN patch[r].set : entity'.doc[c] = patch[r].set[c]
                           /\ \A c \in Column \ ColumnsOf(patch[r].body) :
                                  entity'.doc[c] = entity.doc[c]
      OBVIOUS
    <2>1. Asks(patch[r], entity) /\ DOMAIN patch = Patch /\ Stored(entity)
          /\ (patch[r].wrote => holder = r)
      BY <1>1 DEF PInv
    <2>2. Settle(r)
      <3>1. ASSUME NEW s \in Patch \ {r},
                   Ask(s) \/ Load(s) \/ Find(s) \/ Put(s) \/ Settle(s) \/ Lose(s)
            PROVE  FALSE
        <4>1. patch'[r] = patch[r]
          BY <2>1, <3>1 DEF Ask, Load, Find, Put, Settle, Lose
        <4> QED BY <4>1
      <3>2. ~Ask(r) /\ ~Load(r) /\ ~Find(r) /\ ~Put(r)
        BY DEF Ask, Load, Find, Put
      <3>3. ~Lose(r)
        BY <2>1 DEF Lose, Rest
      <3>4. patch' # patch
        OBVIOUS
      <3> QED BY <1>1, <3>1, <3>2, <3>3, <3>4 DEF PatchNext, patchVars
    <2>3. entity' = IF holder = r THEN draft ELSE entity
      BY <2>2 DEF Settle
    <2>4. CASE ~patch[r].wrote
      <3>1. holder # r
        BY <1>1, <2>4, NobodyAssumption DEF PInv, Held
      <3> QED BY <2>1, <2>3, <2>4, <3>1 DEF Asks
    <2>5. CASE patch[r].wrote
      <3>1. entity' = draft /\ draft.doc = Updated(entity.doc, patch[r].set)
            /\ DOMAIN entity.doc = Column
        BY <1>1, <2>1, <2>3, <2>5, NobodyAssumption DEF PInv, Held, Stored
      <3>2. DOMAIN patch[r].set \subseteq ColumnsOf(patch[r].body) /\ DOMAIN patch[r].set \subseteq Column
        BY <2>1 DEF Asks
      <3> QED BY <2>5, <3>1, <3>2 DEF Updated
    <2> QED BY <2>1, <2>4, <2>5 DEF Asks
  <1>2. PInv /\ [PatchNext]_patchVars => [\A r \in Patch : Answer(r)]_patchVars
    BY <1>1
  <1> QED BY <1>2, PatchInvariance, PTL DEF PatchSpec, AnswersHold

-----------------------------------------------------------------------------
(* Patching by requests that come one after the other.                     *)

Working == {"load", "find", "write", "end"}

\* What a JSON Patch makes of a document when nobody else is there: the columns it names are
\* read, the operations applied, and the same columns written.
Applied(doc, b) ==
    LET columns == Referenced(b.ops)
        new == ApplyAll(Object(Restrict(doc, columns)), b.ops) IN
    IF new = Invalid THEN doc ELSE Updated(doc, Merge(new, columns))

\* Documents that stay among themselves, of which each JSON Patch makes what RFC 6902 says.
AsStandard(docs) ==
    /\ Original \in docs
    /\ \A doc \in docs, b \in Body :
          /\ b.kind # "delete" => InOneStep(doc, b) \in docs
          /\ b.kind = "json" => Applied(doc, b) = InOneStep(doc, b)

\* The mark "no row" is neither a row nor a document.
NoRowIsNone == DOMAIN NoEntity # Column /\ DOMAIN NoEntity # {"doc", "at"}

\* What a request that is alone is going to do to the row.
AlonePatch(p, row, new) ==
    /\ p.pc = "load" => row # NoEntity
    /\ p.pc \in {"find", "write", "end"} /\ p.body.kind # "delete" =>
          row # NoEntity /\ Updated(row.doc, p.set) = InOneStep(row.doc, p.body)
    /\ p.pc = "write" => p.at = IF row = NoEntity THEN NoEntity ELSE row.at
    /\ p.pc = "end" => (p.wrote <=> row # NoEntity)
    /\ p.pc = "end" /\ p.wrote =>
          IF p.body.kind = "delete" THEN new = NoEntity
          ELSE new # NoEntity /\ new.doc = Updated(row.doc, p.set)

\* The row is the document of the standards.
Agrees(docs) ==
    /\ entity = NoEntity <=> expected = NoEntity
    /\ entity # NoEntity => entity.doc = expected /\ expected \in docs

Serial(docs) ==
    inTurn =>
      /\ Agrees(docs)
      /\ \A q, r \in Patch : patch[q].pc \in Working /\ patch[r].pc \in Working => q = r
      /\ \A r \in Patch : patch[r].pc \in Working => AlonePatch(patch[r], entity, draft)

LEMMA PendingWork ==
    ASSUME PInv
    PROVE  Pending = {r \in Patch : patch[r].pc \in Working}
  BY DEF PInv, Asks, Pending, Answered, Working

LEMMA SerialStep ==
    ASSUME NEW docs, PInv, NEW r \in Patch, NEW p, patch' = [patch EXCEPT ![r] = p],
           inTurn' => /\ inTurn /\ Agrees(docs)'
                      /\ \A s \in Patch \ {r} : patch[s].pc \notin Working
                      /\ p.pc \in Working => AlonePatch(p, entity', draft')
    PROVE  Serial(docs)'
  <1>1. DOMAIN patch' = Patch /\ patch'[r] = p /\ \A s \in Patch \ {r} : patch'[s] = patch[s]
    BY DEF PInv
  <1> QED BY <1>1 DEF Serial

\* Who works is alone.
LEMMA OnlyOne ==
    ASSUME NEW docs, Serial(docs), NEW r \in Patch, patch[r].pc \in Working, inTurn
    PROVE  /\ Agrees(docs) /\ AlonePatch(patch[r], entity, draft)
           /\ \A s \in Patch \ {r} : patch[s].pc \notin Working
  BY DEF Serial

LEMMA AskSerial ==
    ASSUME NEW docs, PInv, Serial(docs), AsStandard(docs), NEW r \in Patch, Ask(r)
    PROVE  Serial(docs)'
  <1>1. PICK b \in Body :
         patch' = [patch EXCEPT ![r] =
           [Rest(IF b.kind = "delete" THEN "find"
                 ELSE IF entity = NoEntity THEN "missing"
                 ELSE IF b.kind = "json" THEN "load"
                 ELSE IF b.kind = "put" /\ ~(Mandatory \subseteq DOMAIN b.set) THEN "refused"
                 ELSE "find")
            EXCEPT !.body = b,
                   !.set = CASE b.kind = "merge" -> b.set
                             [] b.kind = "put" -> Full(b.set)
                             [] OTHER -> <<>>]]
    BY DEF Ask
  <1> DEFINE pc == IF b.kind = "delete" THEN "find"
                   ELSE IF entity = NoEntity THEN "missing"
                   ELSE IF b.kind = "json" THEN "load"
                   ELSE IF b.kind = "put" /\ ~(Mandatory \subseteq DOMAIN b.set) THEN "refused"
                   ELSE "find"
             set == CASE b.kind = "merge" -> b.set
                      [] b.kind = "put" -> Full(b.set)
                      [] OTHER -> <<>>
             p == [Rest(pc) EXCEPT !.body = b, !.set = set]
  <1>2. patch' = [patch EXCEPT ![r] = p]
    BY <1>1
  <1>3. pc \in {"find", "missing", "load", "refused"}
        /\ (pc = "load" => entity # NoEntity)
        /\ (pc = "find" /\ b.kind # "delete" => entity # NoEntity /\ b.kind \in {"merge", "put"})
    BY BodyAssumption
  <1>4. ASSUME b.kind \in {"merge", "put"}, entity # NoEntity
        PROVE  Updated(entity.doc, set) = InOneStep(entity.doc, b)
    <2> DEFINE doc == entity.doc
    <2>1. DOMAIN doc = Column
      BY <1>4 DEF PInv, Stored
    <2> HIDE DEF doc
    <2>2. CASE b.kind = "merge"
      <3>1. set = b.set
        BY <2>2
      <3>2. InOneStep(doc, b) = [c \in Column |-> IF c \in DOMAIN b.set THEN b.set[c] ELSE doc[c]]
        BY <2>2 DEF InOneStep
      <3> QED BY <2>1, <3>1, <3>2 DEF Updated, doc
    <2>3. CASE b.kind = "put"
      <3>1. set = Full(b.set)
        BY <2>3
      <3>2. InOneStep(doc, b) = Full(b.set)
        BY <2>3 DEF InOneStep
      <3> DEFINE full == Full(b.set)
      <3>3. full = [c \in Column |-> full[c]]
        BY DEF Full
      <3> HIDE DEF full
      <3>4. Updated(doc, full) = full
        BY <2>1, <3>3 DEF Updated
      <3> QED BY <3>1, <3>2, <3>4 DEF doc, full
    <2> QED BY <1>4, <2>2, <2>3
  <1> DEFINE q == Rest(pc)
  <1>5. /\ DOMAIN q = {"pc", "body", "set", "at", "wrote"} /\ q.pc = pc
    BY DEF Rest
  <1> HIDE DEF pc, set, q
  <1>6. p.pc = pc /\ p.body = b /\ p.set = set
    BY <1>5 DEF q
  <1> HIDE DEF p
  <1>7. AlonePatch(p, entity, draft)
    BY <1>3, <1>4, <1>6 DEF AlonePatch
  <1>8. inTurn' => inTurn /\ Pending = {} /\ UNCHANGED <<entity, draft, expected>>
    BY DEF Ask, RowUnchanged
  <1>9. inTurn' => Agrees(docs)' /\ AlonePatch(p, entity', draft')
    BY <1>7, <1>8 DEF Serial, Agrees
  <1>10. inTurn' => \A s \in Patch \ {r} : patch[s].pc \notin Working
    BY <1>8, PendingWork
  <1> QED BY <1>2, <1>8, <1>9, <1>10, SerialStep

LEMMA LoadSerial ==
    ASSUME NEW docs, PInv, Serial(docs), AsStandard(docs), NEW r \in Patch, Load(r)
    PROVE  Serial(docs)'
  <1> DEFINE b == patch[r].body
             columns == Referenced(b.ops)
             new == ApplyAll(Loaded(entity, columns), b.ops)
             pc == IF new = Invalid THEN "refused" ELSE "find"
             set == IF new = Invalid THEN <<>> ELSE Merge(new, columns)
             p == [patch[r] EXCEPT !.pc = pc, !.set = set]
  <1>1. Asks(patch[r], entity) /\ patch[r].pc = "load" /\ DOMAIN patch = Patch
    BY DEF Load, PInv
  <1>2. /\ patch' = [patch EXCEPT ![r] = p] /\ UNCHANGED <<entity, draft, inTurn>>
        /\ expected' = IF inTurn /\ new = Invalid THEN InOneStep(expected, b) ELSE expected
    BY <1>1 DEF Load
  <1>3. b \in Body /\ b.kind = "json"
    BY <1>1 DEF Asks
  <1> SUFFICES ASSUME inTurn PROVE Serial(docs)'
    BY <1>2 DEF Serial
  <1>4. /\ Agrees(docs) /\ AlonePatch(patch[r], entity, draft)
        /\ \A s \in Patch \ {r} : patch[s].pc \notin Working
    BY <1>1, OnlyOne DEF Working
  <1>5. entity # NoEntity /\ entity.doc = expected /\ expected \in docs
    BY <1>1, <1>4 DEF AlonePatch, Agrees
  <1>6. Applied(entity.doc, b) = InOneStep(entity.doc, b)
    BY <1>3, <1>5 DEF AsStandard
  <1>7. Loaded(entity, columns) = Object(Restrict(entity.doc, columns))
    BY <1>5 DEF Loaded
  <1>8. Applied(entity.doc, b) = IF new = Invalid THEN entity.doc
                                 ELSE Updated(entity.doc, Merge(new, columns))
    BY <1>7, Zenon DEF Applied
  <1>9. DOMAIN patch[r] = {"pc", "body", "set", "at", "wrote"}
    BY <1>1 DEF Asks
  <1> HIDE DEF new, columns
  <1>10. p.pc = pc /\ p.set = set /\ p.body = b
    BY <1>9
  <1>11. pc = "find" => new # Invalid /\ set = Merge(new, columns)
    OBVIOUS
  <1>12. pc \in {"find", "refused"}
    OBVIOUS
  <1> HIDE DEF pc, set, p, b
  <1>13. p.pc \in Working => AlonePatch(p, entity, draft)
    BY <1>3, <1>5, <1>6, <1>8, <1>10, <1>11, <1>12 DEF AlonePatch, Working
  <1>14. expected' = expected
    BY <1>2, <1>5, <1>6, <1>8
  <1>15. Agrees(docs)'
    BY <1>2, <1>4, <1>14 DEF Agrees
  <1>16. p.pc \in Working => AlonePatch(p, entity', draft')
    BY <1>2, <1>13
  <1> QED BY <1>2, <1>4, <1>15, <1>16, SerialStep

LEMMA FindSerial ==
    ASSUME NEW docs, PInv, Serial(docs), NEW r \in Patch, Find(r)
    PROVE  Serial(docs)'
  <1> DEFINE at == IF entity = NoEntity THEN NoEntity ELSE entity.at
             p == [patch[r] EXCEPT !.pc = "write", !.at = at]
  <1>1. Asks(patch[r], entity) /\ patch[r].pc = "find" /\ DOMAIN patch = Patch
    BY DEF Find, PInv
  <1>2. patch' = [patch EXCEPT ![r] = p] /\ UNCHANGED <<entity, draft, expected, inTurn>>
    BY <1>1 DEF Find, RowUnchanged
  <1> SUFFICES ASSUME inTurn PROVE Serial(docs)'
    BY <1>2 DEF Serial
  <1>3. /\ Agrees(docs) /\ AlonePatch(patch[r], entity, draft)
        /\ \A s \in Patch \ {r} : patch[s].pc \notin Working
    BY <1>1, OnlyOne DEF Working
  <1>4. p.pc = "write" /\ p.at = at /\ p.set = patch[r].set /\ p.body = patch[r].body
    BY <1>1 DEF Asks
  <1> HIDE DEF p
  <1>5. AlonePatch(p, entity, draft)
    BY <1>1, <1>3, <1>4 DEF AlonePatch
  <1>6. Agrees(docs)' /\ AlonePatch(p, entity', draft')
    BY <1>2, <1>3, <1>5 DEF Agrees
  <1> QED BY <1>2, <1>3, <1>6, SerialStep

LEMMA PutSerial ==
    ASSUME NEW docs, PInv, Serial(docs), NoRowIsNone, NEW r \in Patch, Put(r)
    PROVE  Serial(docs)'
  <1> DEFINE found == patch[r].at # NoEntity /\ entity # NoEntity /\ entity.at = patch[r].at
             p == [patch[r] EXCEPT !.pc = "end", !.wrote = found]
  <1>1. Asks(patch[r], entity) /\ patch[r].pc = "write" /\ DOMAIN patch = Patch
        /\ Stored(entity)
    BY DEF Put, PInv
  <1>2. patch' = [patch EXCEPT ![r] = p] /\ UNCHANGED <<entity, expected, inTurn>>
    BY <1>1 DEF Put
  <1> SUFFICES ASSUME inTurn PROVE Serial(docs)'
    BY <1>2 DEF Serial
  <1>3. /\ Agrees(docs) /\ AlonePatch(patch[r], entity, draft)
        /\ \A s \in Patch \ {r} : patch[s].pc \notin Working
    BY <1>1, OnlyOne DEF Working
  <1>4. found <=> entity # NoEntity
    BY <1>1, <1>3, NobodyAssumption DEF AlonePatch, Stored
  <1>5. p.pc = "end" /\ p.wrote = found /\ p.set = patch[r].set /\ p.body = patch[r].body
    BY <1>1 DEF Asks
  <1>6. found => draft' = IF p.body.kind = "delete" THEN NoEntity ELSE Overwrite(r, entity)
    BY <1>5 DEF Put
  <1> DEFINE over == Overwrite(r, entity)
  <1>7. over.doc = Updated(entity.doc, p.set) /\ DOMAIN over = {"doc", "at"}
    BY <1>5 DEF Overwrite
  <1>8. over # NoEntity
    BY <1>7 DEF NoRowIsNone
  <1> HIDE DEF p, found, over
  <1>9. AlonePatch(p, entity, draft')
    BY <1>1, <1>3, <1>4, <1>5, <1>6, <1>7, <1>8 DEF AlonePatch, over
  <1>10. Agrees(docs)' /\ AlonePatch(p, entity', draft')
    BY <1>2, <1>3, <1>9 DEF Agrees
  <1> QED BY <1>2, <1>3, <1>10, SerialStep

LEMMA SettleSerial ==
    ASSUME NEW docs, PInv, Serial(docs), AsStandard(docs), NoRowIsNone, NEW r \in Patch, Settle(r)
    PROVE  Serial(docs)'
  <1> DEFINE b == patch[r].body
             pc == IF b.kind = "delete" /\ ~patch[r].wrote THEN "missing" ELSE "ok"
             p == [patch[r] EXCEPT !.pc = pc, !.at = NoEntity]
  <1>1. Asks(patch[r], entity) /\ patch[r].pc = "end" /\ DOMAIN patch = Patch /\ b \in Body
    BY DEF Settle, PInv, Asks
  <1>2. /\ patch' = [patch EXCEPT ![r] = p] /\ inTurn' = inTurn
        /\ entity' = IF holder = r THEN draft ELSE entity
        /\ expected' = IF inTurn /\ expected # NoEntity THEN InOneStep(expected, b) ELSE expected
    BY <1>1 DEF Settle
  <1> SUFFICES ASSUME inTurn PROVE Serial(docs)'
    BY <1>2 DEF Serial
  <1>3. /\ Agrees(docs) /\ AlonePatch(patch[r], entity, draft)
        /\ \A s \in Patch \ {r} : patch[s].pc \notin Working
    BY <1>1, OnlyOne DEF Working
  <1>4. p.pc \notin Working
    <2>1. pc \in {"missing", "ok"}
      OBVIOUS
    <2> HIDE DEF pc
    <2>2. p.pc = pc
      BY <1>1 DEF Asks
    <2> QED BY <2>1, <2>2 DEF Working
  <1> HIDE DEF p, pc
  <1>5. Agrees(docs)'
    <2>1. CASE ~patch[r].wrote
      <3>1. entity = NoEntity /\ expected = NoEntity
        BY <1>1, <1>3, <2>1 DEF AlonePatch, Agrees
      <3>2. holder # r
        BY <1>1, <2>1, NobodyAssumption DEF PInv, Held
      <3> QED BY <1>2, <3>1, <3>2 DEF Agrees
    <2>2. CASE patch[r].wrote
      <3>1. entity' = draft /\ entity # NoEntity /\ DOMAIN entity.doc = Column
        BY <1>1, <1>2, <1>3, <2>2 DEF PInv, AlonePatch, Stored
      <3>2. entity.doc = expected /\ expected \in docs /\ expected # NoEntity
            /\ expected' = InOneStep(expected, b)
        BY <1>2, <1>3, <3>1 DEF Agrees
      <3>3. CASE b.kind = "delete"
        <4>1. draft = NoEntity
          BY <1>1, <1>3, <2>2, <3>3 DEF AlonePatch
        <4>2. InOneStep(expected, b) = NoEntity
          BY <3>3 DEF InOneStep
        <4> QED BY <3>1, <3>2, <4>1, <4>2 DEF Agrees
      <3>4. CASE b.kind # "delete"
        <4>1. draft # NoEntity /\ draft.doc = Updated(entity.doc, patch[r].set)
              /\ Updated(entity.doc, patch[r].set) = InOneStep(entity.doc, b)
          BY <1>1, <1>3, <2>2, <3>4 DEF AlonePatch
        <4>2. DOMAIN Updated(entity.doc, patch[r].set) = Column
          BY <3>1 DEF Updated
        <4>3. expected' # NoEntity
          BY <3>2, <4>1, <4>2 DEF NoRowIsNone
        <4>4. expected' \in docs
          BY <1>1, <3>2, <3>4 DEF AsStandard
        <4> QED BY <3>1, <3>2, <4>1, <4>3, <4>4 DEF Agrees
      <3> QED BY <3>3, <3>4
    <2> QED BY <2>1, <2>2
  <1> QED BY <1>2, <1>3, <1>4, <1>5, SerialStep

LEMMA LoseSerial ==
    ASSUME NEW docs, PInv, Serial(docs), NEW r \in Patch, Lose(r)
    PROVE  Serial(docs)'
  <1> DEFINE p == Rest("cancelled")
  <1>1. patch' = [patch EXCEPT ![r] = p] /\ UNCHANGED <<entity, expected, inTurn>>
        /\ patch[r].pc \in Working
    BY PendingWork DEF Lose
  <1> SUFFICES ASSUME inTurn PROVE Serial(docs)'
    BY <1>1 DEF Serial
  <1>2. Agrees(docs) /\ \A s \in Patch \ {r} : patch[s].pc \notin Working
    BY <1>1, OnlyOne
  <1>3. p.pc \notin Working
    BY DEF Rest, Working
  <1>4. Agrees(docs)'
    BY <1>1, <1>2 DEF Agrees
  <1> HIDE DEF p
  <1> QED BY <1>1, <1>2, <1>3, <1>4, SerialStep

\* Requests that come one after the other leave the document that the standards prescribe,
\* whatever they are, DELETE and lost connections included, on any documents of which each
\* JSON Patch for itself makes what RFC 6902 says.
THEOREM PatchesInTurn ==
    ASSUME NEW docs, AsStandard(docs), NoRowIsNone
    PROVE  PatchSpec => []SerialPatches
  <1>1. PatchInit => Serial(docs)
    <2> SUFFICES ASSUME PatchInit PROVE Serial(docs)
      OBVIOUS
    <2>1. entity = [doc |-> Original, at |-> 0] /\ expected = entity.doc
          /\ patch = [r \in Patch |-> Rest("idle")]
      BY DEF PatchInit
    <2>2. entity.doc = Original /\ DOMAIN entity = {"doc", "at"}
      BY <2>1
    <2>3. entity # NoEntity /\ expected # NoEntity /\ expected \in docs
      BY <2>1, <2>2, OriginalAssumption DEF NoRowIsNone, AsStandard
    <2>4. \A r \in Patch : patch[r].pc \notin Working
      BY <2>1 DEF Rest, Working
    <2> QED BY <2>1, <2>3, <2>4 DEF Serial, Agrees
  <1>2. PInv /\ Serial(docs) /\ [PatchNext]_patchVars => Serial(docs)'
    <2> SUFFICES ASSUME PInv, Serial(docs), [PatchNext]_patchVars PROVE Serial(docs)'
      OBVIOUS
    <2>1. ASSUME NEW r \in Patch, Ask(r) \/ Load(r) \/ Find(r) \/ Put(r) \/ Settle(r) \/ Lose(r)
          PROVE  Serial(docs)'
      BY <2>1, AskSerial, LoadSerial, FindSerial, PutSerial, SettleSerial, LoseSerial
    <2>2. CASE UNCHANGED patchVars
      BY <2>2 DEF patchVars, Serial, Agrees
    <2> QED BY <2>1, <2>2 DEF PatchNext
  <1>3. Serial(docs) => SerialPatches
    BY DEF Serial, Agrees, SerialPatches
  <1> QED BY <1>1, <1>2, <1>3, PatchInvariance, PTL DEF PatchSpec
=============================================================================
