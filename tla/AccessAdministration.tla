------------------------- MODULE AccessAdministration -------------------------
(***************************************************************************)
(* Who may administer whom: the users, roles and access-requests routes,   *)
(* role-service.ts, effective-permissions.ts, the public access request    *)
(* and the command line that upserts an account.                           *)
(*                                                                         *)
(* An action is what a route reads before its transaction, a locking step  *)
(* of the transaction, or its commit (READ COMMITTED).  `floorLock' is the *)
(* advisory lock of role-service.ts, `rowLock' the row lock an update of a *)
(* User row holds until the commit; a transaction may abort at any point,  *)
(* which is also how PostgreSQL resolves a deadlock of the two.            *)
(***************************************************************************)
EXTENDS Naturals

CONSTANTS Names,         \* user names
          CustomRoles,   \* role codes that are not system roles
          SuperAdmin,    \* the system role, SUPER_ADMIN
          AccessRequests, Workers,
          FirstSupers,   \* accounts the command line made Super Admin first
          NoOne,         \* no worker, no user
          Editable,      \* bound on the permissions put into custom roles
          MaxVersion     \* bound on the version of a role

ASSUME SuperAdminAssumption == SuperAdmin \notin CustomRoles
ASSUME FirstSupersAssumption == FirstSupers \subseteq Names /\ FirstSupers # {}
ASSUME EditableAssumption == Editable \subseteq {"administer", "assignSuper"}
ASSUME NoOneAssumption == NoOne \notin Names \cup Workers
ASSUME MaxVersionAssumption == MaxVersion \in Nat

VARIABLES user,      \* User rows with their role assignments
          role,      \* Role rows with their permissions
          asked,     \* AccessRequest rows
          task,      \* what each worker does next, and what it has read
          floorLock, \* holder of pg_advisory_xact_lock
          rowLock,   \* holder of the row lock of each User
          overtaken  \* an account made Super Admin was changed on an older view of it

accessVars == <<user, role, asked, task, floorLock, rowLock, overtaken>>

RoleCodes == CustomRoles \cup {SuperAdmin}
Permissions == {"administer", "assignSuper"}
User == [status: {"NONE", "ACTIVE", "DISABLED"}, roles: SUBSET RoleCodes, primary: RoleCodes]
Role == [status: {"NONE", "ACTIVE", "INACTIVE"}, version: 0..MaxVersion,
         permissions: SUBSET Permissions]
Asked == [name: Names, status: {"NONE", "CHECKED", "PENDING", "APPROVED", "REJECTED"},
          created: Names \cup {NoOne}]
TaskSteps == {"idle", "statusFloor", "statusWrite", "roles", "rolesFloor", "rolesWrite", "create",
          "role", "approve", "reject"}
Task == [step: TaskSteps, held: SUBSET Permissions, super: BOOLEAN, target: Names \cup {NoOne},
         status: {"ACTIVE", "DISABLED", "INACTIVE"}, wasSuper: BOOLEAN, codes: SUBSET CustomRoles,
         code: RoleCodes, version: 0..MaxVersion, added: SUBSET Permissions,
         removed: SUBSET Permissions, chosen: SUBSET Permissions,
         asked: AccessRequests \cup {NoOne}]
NoTask == [step |-> "idle", held |-> {}, super |-> FALSE, target |-> NoOne, status |-> "ACTIVE",
           wasSuper |-> FALSE, codes |-> {}, code |-> SuperAdmin, version |-> 0, added |-> {},
           removed |-> {}, chosen |-> {}, asked |-> NoOne]

Free == [n \in Names |-> NoOne]
Holding(codes, primary) == [status |-> "ACTIVE", roles |-> codes, primary |-> primary]
NoAccount == [status |-> "NONE", roles |-> {}, primary |-> SuperAdmin]

AccessInit ==
    /\ user = [n \in Names |-> IF n \in FirstSupers THEN Holding({SuperAdmin}, SuperAdmin)
                                                     ELSE NoAccount]
    /\ role = [c \in RoleCodes |->
                  [status |-> IF c = SuperAdmin THEN "ACTIVE" ELSE "NONE", version |-> 0,
                   permissions |-> {}]]
    /\ asked \in [AccessRequests -> {[name |-> n, status |-> "NONE", created |-> NoOne] :
                                        n \in Names \ FirstSupers}]
    /\ task = [w \in Workers |-> NoTask]
    /\ floorLock = NoOne
    /\ rowLock = Free
    /\ overtaken = FALSE
-----------------------------------------------------------------------------
(* resolveEffectiveAccess and permissionsOfRole: the active roles, and only  *)
(* without any the legacy role of the User row.                              *)
ActiveRoles(u) == {c \in u.roles : role[c].status = "ACTIVE"}
PermissionsOf(c) == IF c = SuperAdmin THEN Permissions ELSE role[c].permissions
EffectiveCodes(u) ==
    IF ActiveRoles(u) # {} THEN ActiveRoles(u) ELSE {u.primary} \cap {SuperAdmin}
Effective(u) == UNION {PermissionsOf(c) : c \in EffectiveCodes(u)}

ActiveUsers(users) == {n \in Names : users[n].status = "ACTIVE"}
SecurityAdmins(users) == {n \in ActiveUsers(users) : "administer" \in Effective(users[n])}
SuperAdmins(users) == {n \in ActiveUsers(users) : SuperAdmin \in ActiveRoles(users[n])}

IsSuper(n) == SuperAdmin \in EffectiveCodes(user[n])
LooksSuper(n) == user[n].primary = SuperAdmin \/ SuperAdmin \in user[n].roles

(* resolveAssignableRoles and assertDelegable, inside the transaction. *)
Assignable(w, codes) ==
    /\ \A c \in codes : role[c].status = "ACTIVE"
    /\ \/ task[w].super
       \/ UNION {PermissionsOf(c) : c \in codes} \subseteq task[w].held

(* The principal: an active account that administers. *)
Begins(w, actor, asking) ==
    /\ task[w].step = "idle"
    /\ actor \in SecurityAdmins(user)
    /\ task' = [task EXCEPT ![w] = [asking EXCEPT !.held = Effective(user[actor]),
                                                  !.super = IsSuper(actor)]]
    /\ UNCHANGED <<user, role, asked, floorLock, rowLock, overtaken>>

Step(w, step) == task' = [task EXCEPT ![w].step = step]

(* A commit or an abort gives every lock back. *)
EndsTask(w) ==
    /\ task' = [task EXCEPT ![w] = NoTask]
    /\ floorLock' = IF floorLock = w THEN NoOne ELSE floorLock
    /\ rowLock' = [n \in Names |-> IF rowLock[n] = w THEN NoOne ELSE rowLock[n]]

RowFree(w, n) == rowLock[n] \in {NoOne, w}

Aborts(w) ==
    /\ task[w].step # "idle"
    /\ EndsTask(w)
    /\ UNCHANGED <<user, role, asked, overtaken>>
-----------------------------------------------------------------------------
(* setStatus: the target is read, then in one transaction the floors are     *)
(* checked without the target and the status is written.                     *)

AskStatus(w, actor, n, status) ==
    /\ user[n].status # "NONE"
    /\ LooksSuper(n) => "assignSuper" \in Effective(user[actor])
    /\ status # "ACTIVE" => n # actor
    /\ Begins(w, actor, [NoTask EXCEPT
                             !.step = IF status = "ACTIVE" THEN "statusWrite" ELSE "statusFloor",
                             !.target = n, !.status = status, !.wasSuper = LooksSuper(n)])

(* Mutant of FloorLockFree: the checks do not wait for each other. *)
FloorLockFreeAlways == TRUE

FloorLockFree == floorLock = NoOne

CheckFloors(w) ==
    /\ task[w].step = "statusFloor"
    /\ FloorLockFree
    /\ SecurityAdmins(user) \ {task[w].target} # {}
    /\ task[w].wasSuper => SuperAdmins(user) \ {task[w].target} # {}
    /\ floorLock' = w
    /\ Step(w, "statusWrite")
    /\ UNCHANGED <<user, role, asked, rowLock, overtaken>>

WriteStatus(w) ==
    LET n == task[w].target IN
    /\ task[w].step = "statusWrite"
    /\ RowFree(w, n)
    /\ user' = [user EXCEPT ![n].status = task[w].status]
    /\ overtaken' = (overtaken \/ (n \in SuperAdmins(user) /\ ~task[w].wasSuper))
    /\ EndsTask(w)
    /\ UNCHANGED <<role, asked>>
-----------------------------------------------------------------------------
(* setRole and setRoles: the transaction replaces the roles, then checks the *)
(* floor with its own change in place.                                       *)

AskRoles(w, actor, n, codes) ==
    /\ user[n].status # "NONE" /\ n # actor
    /\ SuperAdmin \notin codes /\ codes # {} /\ ~LooksSuper(n)
    /\ Begins(w, actor, [NoTask EXCEPT !.step = "roles", !.target = n, !.codes = codes])

ReplaceRoles(w) ==
    LET n == task[w].target IN
    /\ task[w].step = "roles"
    /\ Assignable(w, task[w].codes)
    /\ RowFree(w, n)
    /\ rowLock' = [rowLock EXCEPT ![n] = w]
    /\ Step(w, "rolesFloor")
    /\ UNCHANGED <<user, role, asked, floorLock, overtaken>>

Replaced(w) ==
    {[user EXCEPT ![task[w].target].roles = task[w].codes,
                  ![task[w].target].primary = primary] : primary \in task[w].codes}

CheckRolesFloor(w) ==
    /\ task[w].step = "rolesFloor"
    /\ FloorLockFree
    /\ \E users \in Replaced(w) : SecurityAdmins(users) # {}
    /\ floorLock' = w
    /\ Step(w, "rolesWrite")
    /\ UNCHANGED <<user, role, asked, rowLock, overtaken>>

WriteRoles(w) ==
    /\ task[w].step = "rolesWrite"
    /\ user' \in Replaced(w)
    /\ overtaken' = (overtaken \/ task[w].target \in SuperAdmins(user))
    /\ EndsTask(w)
    /\ UNCHANGED <<role, asked>>
-----------------------------------------------------------------------------
(* create, and the command line: the name is looked up, then inserted.       *)

AskCreate(w, actor, n, codes) ==
    /\ SuperAdmin \notin codes /\ codes # {}
    /\ user[n].status = "NONE"
    /\ Begins(w, actor, [NoTask EXCEPT !.step = "create", !.target = n, !.codes = codes])

Inserted(n, codes) ==
    /\ user[n].status = "NONE"
    /\ \E primary \in codes : user' = [user EXCEPT ![n] = Holding(codes, primary)]

WriteUser(w) ==
    /\ task[w].step = "create"
    /\ Assignable(w, task[w].codes)
    /\ Inserted(task[w].target, task[w].codes)
    /\ EndsTask(w)
    /\ UNCHANGED <<role, asked, overtaken>>

(* scripts/create-user.ts; its operator is taken never to take the role of a *)
(* Super Admin away, which the script itself would allow.                    *)
UpsertOnServer(n, c) ==
    /\ role[c].status = "ACTIVE"
    /\ SuperAdmin \in user[n].roles => c = SuperAdmin
    /\ rowLock[n] = NoOne
    /\ user' = [user EXCEPT ![n] = Holding({c}, c)]
    /\ UNCHANGED <<role, asked, task, floorLock, rowLock, overtaken>>
-----------------------------------------------------------------------------
(* roles/route.ts: only a Super Admin chooses permissions. *)

CreateRole(actor, c, permissions) ==
    /\ actor \in SecurityAdmins(user)
    /\ permissions # {} => IsSuper(actor)
    /\ role[c].status = "NONE"
    /\ role' = [role EXCEPT ![c].status = "ACTIVE", ![c].permissions = permissions]
    /\ UNCHANGED <<user, asked, task, floorLock, rowLock, overtaken>>

(* The row is compared with the version the editor opened, and what is added *)
(* and removed is computed from it; users are counted before the transaction.*)
AskRoleUpdate(w, actor, c, status, permissions) ==
    LET row == role[c] IN
    /\ row.status # "NONE" /\ row.version < MaxVersion
    /\ permissions # row.permissions => IsSuper(actor)
    /\ <<status, permissions>> # <<row.status, row.permissions>>
    /\ status = "INACTIVE" /\ row.status # "INACTIVE" => \A n \in Names : c \notin user[n].roles
    /\ Begins(w, actor, [NoTask EXCEPT
                             !.step = "role", !.code = c, !.status = status, !.version = row.version,
                             !.added = permissions \ row.permissions,
                             !.removed = row.permissions \ permissions, !.chosen = permissions])

(* Mutant of RoleClaimed: the update does not name the version. *)
RoleClaimedAnyVersion(w) == TRUE

RoleClaimed(w) == role[task[w].code].version = task[w].version

WriteRole(w) ==
    /\ task[w].step = "role"
    /\ RoleClaimed(w)
    /\ role[task[w].code].version < MaxVersion
    /\ role' = [role EXCEPT ![task[w].code] =
                   [status |-> task[w].status, version |-> @.version + 1,
                    permissions |-> (@.permissions \ task[w].removed) \cup task[w].added]]
    /\ EndsTask(w)
    /\ UNCHANGED <<user, asked, overtaken>>
-----------------------------------------------------------------------------
(* The public request: the name is looked up, then a row is inserted whose   *)
(* pendingKey is unique.                                                     *)

AskAccess(i) ==
    /\ asked[i].status = "NONE"
    /\ user[asked[i].name].status = "NONE"
    /\ asked' = [asked EXCEPT ![i].status = "CHECKED"]
    /\ UNCHANGED <<user, role, task, floorLock, rowLock, overtaken>>

PendingKeyTaken(name) == \E i \in AccessRequests : asked[i].status = "PENDING" /\ asked[i].name = name

FileRequest(i) ==
    /\ asked[i].status = "CHECKED"
    /\ asked' = [asked EXCEPT ![i].status = IF PendingKeyTaken(asked[i].name) THEN "NONE"
                                                                             ELSE "PENDING"]
    /\ UNCHANGED <<user, role, task, floorLock, rowLock, overtaken>>

(* access-requests/route.ts: the row is read, then claimed in a transaction. *)
AskApproval(w, actor, i, c) ==
    /\ asked[i].status = "PENDING" /\ c # SuperAdmin
    /\ user[asked[i].name].status = "NONE"
    /\ Begins(w, actor, [NoTask EXCEPT !.step = "approve", !.asked = i, !.codes = {c}])

AskRejection(w, actor, i) ==
    /\ asked[i].status = "PENDING"
    /\ Begins(w, actor, [NoTask EXCEPT !.step = "reject", !.asked = i])

(* Mutant of RequestClaimed: the update does not name the status. *)
RequestClaimedAny(i) == TRUE

RequestClaimed(i) == asked[i].status = "PENDING"

Approve(w) ==
    LET i == task[w].asked IN
    /\ task[w].step = "approve"
    /\ RequestClaimed(i)
    /\ Assignable(w, task[w].codes)
    /\ Inserted(asked[i].name, task[w].codes)
    /\ asked' = [asked EXCEPT ![i].status = "APPROVED", ![i].created = asked[i].name]
    /\ EndsTask(w)
    /\ UNCHANGED <<role, overtaken>>

Reject(w) ==
    /\ task[w].step = "reject"
    /\ RequestClaimed(task[w].asked)
    /\ asked' = [asked EXCEPT ![task[w].asked].status = "REJECTED"]
    /\ EndsTask(w)
    /\ UNCHANGED <<user, role, overtaken>>
-----------------------------------------------------------------------------
Asks(w, actor) ==
    \/ \E n \in Names, status \in {"ACTIVE", "DISABLED"} : AskStatus(w, actor, n, status)
    \/ \E n \in Names, codes \in SUBSET CustomRoles :
          AskRoles(w, actor, n, codes) \/ AskCreate(w, actor, n, codes)
    \/ \E c \in CustomRoles, status \in {"ACTIVE", "INACTIVE"}, p \in SUBSET Editable :
          AskRoleUpdate(w, actor, c, status, p)
    \/ \E i \in AccessRequests, c \in CustomRoles :
          AskApproval(w, actor, i, c) \/ AskRejection(w, actor, i)

AccessNext ==
    \/ \E w \in Workers :
          \/ \E actor \in Names : Asks(w, actor)
          \/ CheckFloors(w) \/ WriteStatus(w) \/ ReplaceRoles(w) \/ CheckRolesFloor(w)
          \/ WriteRoles(w) \/ WriteUser(w) \/ WriteRole(w) \/ Approve(w) \/ Reject(w)
          \/ Aborts(w)
    \/ \E n \in Names, c \in RoleCodes : UpsertOnServer(n, c)
    \/ \E actor \in Names, c \in CustomRoles, p \in SUBSET Editable : CreateRole(actor, c, p)
    \/ \E i \in AccessRequests : AskAccess(i) \/ FileRequest(i)

AccessSpec == AccessInit /\ [][AccessNext]_accessVars
-----------------------------------------------------------------------------
AccessTypeOK ==
    /\ user \in [Names -> User]
    /\ role \in [RoleCodes -> Role]
    /\ asked \in [AccessRequests -> Asked]
    /\ task \in [Workers -> Task]
    /\ floorLock \in Workers \cup {NoOne}
    /\ rowLock \in [Names -> Workers \cup {NoOne}]
    /\ overtaken \in BOOLEAN

(* "This would leave no active Super Admin" (role-service.ts:178): whatever  *)
(* status and role changes run at once, an active Super Admin remains, unless*)
(* the command line made an account Super Admin after a change to it had     *)
(* read it.                                                                  *)
SuperAdminRemains == SuperAdmins(user) # {} \/ overtaken

(* A decided request stays as it was decided, and the account an approval    *)
(* made is there under the name of the request: two reviewers never both     *)
(* decide it (access-requests/route.ts:61 and 80).                           *)
RequestsDecidedOnce ==
    [][\A i \in AccessRequests :
          /\ asked[i].status \in {"APPROVED", "REJECTED"} => asked'[i] = asked[i]
          /\ asked'[i].status = "APPROVED" => user'[asked[i].name].status # "NONE"]_accessVars

(* The permissions of a role are always a set its editor chose as a whole,   *)
(* although only what is added and removed is written (roles/route.ts:129).  *)
RolesHoldWhatWasChosen ==
    [][\A c \in CustomRoles : role'[c].version # role[c].version =>
          \E w \in Workers : task[w].step = "role" /\ task[w].code = c
                             /\ role'[c].permissions = task[w].chosen]_accessVars
=============================================================================
