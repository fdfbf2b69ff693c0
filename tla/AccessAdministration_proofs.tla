--------------------- MODULE AccessAdministration_proofs ---------------------
(***************************************************************************)
(* Proofs about the administration of accounts, for any number of users,   *)
(* custom roles, workers and requests.                                     *)
(*                                                                         *)
(* A Super Admin remains because whoever takes one away holds the floor    *)
(* lock from its check to its commit, and all that others commit meanwhile *)
(* can only add Super Admins, or changes an account made one on a view     *)
(* from before.  The permissions of a role are a chosen set because the    *)
(* difference was taken from the very version the update names.            *)
(***************************************************************************)
EXTENDS AccessAdministration, TLAPS

(* An update of a role was computed from the version it names. *)
EditOK(t) ==
    t.step = "role" =>
        LET row == role[t.code]
        IN /\ t.code \in CustomRoles
           /\ t.status \in {"ACTIVE", "INACTIVE"}
           /\ row.status # "NONE"
           /\ t.version <= row.version
           /\ t.version = row.version =>
                  t.chosen = (row.permissions \ t.removed) \cup t.added

RoleRows ==
    /\ role[SuperAdmin].status = "ACTIVE"
    /\ \A w \in Workers : EditOK(task[w])

(* What a worker is at names what the action needs. *)
TaskOK(t) ==
    /\ t.step \in {"statusFloor", "statusWrite", "roles", "rolesFloor", "rolesWrite", "create"}
       => t.target \in Names
    /\ t.step \in {"approve", "reject"} => t.asked \in AccessRequests
    /\ t.step \in {"statusFloor", "statusWrite"} => t.status \in {"ACTIVE", "DISABLED"}

Approvals ==
    /\ \A i \in AccessRequests : asked[i].status = "APPROVED" => user[asked[i].name].status # "NONE"
    /\ \A w \in Workers : TaskOK(task[w])

(* A worker about to take a status away holds the floor lock, and what it    *)
(* checked under it still holds.                                             *)
Guarded(w) ==
    task[w].step = "statusWrite" /\ task[w].status # "ACTIVE" =>
        /\ floorLock = w
        /\ task[w].wasSuper => SuperAdmins(user) \ {task[w].target} # {} \/ overtaken

Floor ==
    /\ SuperAdminRemains
    /\ \A w \in Workers : Guarded(w)

IInv == AccessTypeOK /\ RoleRows /\ Approvals /\ Floor
-----------------------------------------------------------------------------
(* Types.                                                                    *)

LEMMA NoTaskType == NoTask \in Task
  BY MaxVersionAssumption DEF NoTask, Task, TaskSteps, RoleCodes

LEMMA UserType == ASSUME AccessTypeOK, NEW n \in Names PROVE user[n] \in User
  BY DEF AccessTypeOK

LEMMA PermissionsType ==
    ASSUME AccessTypeOK, NEW c \in RoleCodes PROVE PermissionsOf(c) \subseteq Permissions
  BY DEF AccessTypeOK, PermissionsOf, Role

LEMMA EffectiveType ==
    ASSUME AccessTypeOK, NEW n \in Names PROVE Effective(user[n]) \subseteq Permissions
  <1>1. EffectiveCodes(user[n]) \subseteq RoleCodes
    BY UserType DEF EffectiveCodes, ActiveRoles, User, RoleCodes
  <1> QED
    BY <1>1, PermissionsType DEF Effective

LEMMA BeginsType ==
    ASSUME AccessTypeOK, NEW w \in Workers, NEW actor \in Names, NEW asking \in Task,
           Begins(w, actor, asking)
    PROVE  /\ AccessTypeOK'
           /\ task'[w] = [asking EXCEPT !.held = Effective(user[actor]), !.super = IsSuper(actor)]
           /\ \A v \in Workers \ {w} : task'[v] = task[v]
           /\ UNCHANGED <<user, role, asked, floorLock, rowLock, overtaken>>
  <1> DEFINE e == Effective(user[actor])
             s == IsSuper(actor)
  <1>1. e \in SUBSET Permissions
    BY EffectiveType
  <1>2. s \in BOOLEAN
    BY DEF IsSuper
  <1>3. task' = [task EXCEPT ![w] = [asking EXCEPT !.held = e, !.super = s]]
    BY DEF Begins
  <1> HIDE DEF e, s
  <1>4. [asking EXCEPT !.held = e, !.super = s] \in Task
    BY <1>1, <1>2 DEF Task
  <1>5. task' \in [Workers -> Task]
    BY <1>3, <1>4 DEF AccessTypeOK
  <1>6. UNCHANGED <<user, role, asked, floorLock, rowLock, overtaken>>
    BY DEF Begins
  <1>7. /\ task'[w] = [asking EXCEPT !.held = e, !.super = s]
        /\ \A v \in Workers \ {w} : task'[v] = task[v]
    BY <1>3 DEF AccessTypeOK
  <1> QED
    BY <1>5, <1>6, <1>7 DEF AccessTypeOK, e, s

LEMMA EndsTaskType ==
    ASSUME AccessTypeOK, NEW w \in Workers, EndsTask(w)
    PROVE  /\ task' \in [Workers -> Task]
           /\ task'[w] = NoTask
           /\ \A v \in Workers \ {w} : task'[v] = task[v]
           /\ floorLock' \in Workers \cup {NoOne}
           /\ rowLock' \in [Names -> Workers \cup {NoOne}]
           /\ \A v \in Workers \ {w} : floorLock = v => floorLock' = v
  BY NoTaskType DEF EndsTask, AccessTypeOK

LEMMA StepType ==
    ASSUME AccessTypeOK, NEW w \in Workers, NEW s \in TaskSteps, Step(w, s)
    PROVE  /\ task' \in [Workers -> Task]
           /\ task'[w] = [task[w] EXCEPT !.step = s]
           /\ \A v \in Workers \ {w} : task'[v] = task[v]
  <1>1. task[w] \in Task /\ [task[w] EXCEPT !.step = s] \in Task
    BY DEF AccessTypeOK, Task
  <1>2. task' = [task EXCEPT ![w] = [task[w] EXCEPT !.step = s]]
    BY <1>1 DEF Step, AccessTypeOK
  <1> QED
    BY <1>1, <1>2 DEF AccessTypeOK
-----------------------------------------------------------------------------
(* Who is a Super Admin.                                                     *)

LEMMA SuperMember ==
    ASSUME role[SuperAdmin].status = "ACTIVE", NEW users, NEW n \in Names
    PROVE  n \in SuperAdmins(users) <=>
               users[n].status = "ACTIVE" /\ SuperAdmin \in users[n].roles
  BY DEF SuperAdmins, ActiveUsers, ActiveRoles

LEMMA SuperMemberNext ==
    ASSUME role'[SuperAdmin].status = "ACTIVE", NEW n \in Names
    PROVE  n \in SuperAdmins(user)' <=>
               user'[n].status = "ACTIVE" /\ SuperAdmin \in user'[n].roles
  BY DEF SuperAdmins, ActiveUsers, ActiveRoles

LEMMA SupersAreNames == ASSUME NEW users PROVE SuperAdmins(users) \subseteq Names
  BY DEF SuperAdmins, ActiveUsers
-----------------------------------------------------------------------------
(* What a step keeps.                                                        *)

LEMMA RolesFrame ==
    ASSUME RoleRows, role' = role,
           \A v \in Workers : task'[v] = task[v] \/ task'[v].step # "role"
    PROVE  RoleRows'
  <1>1. ASSUME NEW v \in Workers PROVE EditOK(task[v])'
    <2>1. CASE task'[v] = task[v]
      BY <2>1 DEF RoleRows, EditOK
    <2>2. CASE task'[v].step # "role"
      BY <2>2 DEF EditOK
    <2> QED
      BY <2>1, <2>2
  <1> QED
    BY <1>1 DEF RoleRows

LEMMA ApprovalsFrame ==
    ASSUME AccessTypeOK, Approvals, asked' = asked,
           \A n \in Names : user[n].status # "NONE" => user'[n].status # "NONE",
           \A v \in Workers : task'[v] = task[v] \/ TaskOK(task'[v])
    PROVE  Approvals'
  <1>1. \A i \in AccessRequests : asked[i].name \in Names
    BY DEF AccessTypeOK, Asked
  <1>2. \A v \in Workers : TaskOK(task[v])'
    BY DEF Approvals, TaskOK
  <1> QED
    BY <1>1, <1>2 DEF Approvals

(* Super Admins are only added, or the step is noted: others stay guarded. *)
LEMMA FloorFrame ==
    ASSUME IInv, overtaken => overtaken',
           SuperAdmins(user) \subseteq SuperAdmins(user)' \/ overtaken',
           \A v \in Workers : \/ task'[v] = task[v] /\ (floorLock = v => floorLock' = v)
                              \/ Guarded(v)'
    PROVE  Floor'
  <1>1. SuperAdminRemains'
    BY DEF IInv, Floor, SuperAdminRemains
  <1>2. ASSUME NEW v \in Workers PROVE Guarded(v)'
    <2>1. CASE task'[v] = task[v] /\ (floorLock = v => floorLock' = v)
      <3>1. Guarded(v)
        BY DEF IInv, Floor
      <3> QED
        BY <2>1, <3>1 DEF Guarded
    <2> QED
      BY <2>1
  <1> QED
    BY <1>1, <1>2 DEF Floor

LEMMA SameSupers ==
    ASSUME user' = user, role' = role
    PROVE  SuperAdmins(user)' = SuperAdmins(user)
  BY DEF SuperAdmins, ActiveUsers, ActiveRoles

NotGuarding(t) == t.step = "statusWrite" => t.status = "ACTIVE"

LEMMA AskFrame ==
    ASSUME IInv, NEW w \in Workers, NEW actor \in Names, NEW asking \in Task,
           Begins(w, actor, asking), TaskOK(asking), EditOK(asking), NotGuarding(asking)
    PROVE  IInv'
  <1>1. AccessTypeOK /\ RoleRows /\ Approvals
    BY DEF IInv
  <1>2. /\ AccessTypeOK'
        /\ task'[w] = [asking EXCEPT !.held = Effective(user[actor]), !.super = IsSuper(actor)]
        /\ \A v \in Workers \ {w} : task'[v] = task[v]
        /\ UNCHANGED <<user, role, asked, floorLock, rowLock, overtaken>>
    BY <1>1, BeginsType
  <1>3. /\ task'[w].step = asking.step /\ task'[w].target = asking.target
        /\ task'[w].status = asking.status /\ task'[w].asked = asking.asked
        /\ task'[w].code = asking.code /\ task'[w].version = asking.version
        /\ task'[w].added = asking.added /\ task'[w].removed = asking.removed
        /\ task'[w].chosen = asking.chosen
    <2> DEFINE e == Effective(user[actor])
               s == IsSuper(actor)
    <2>1. task'[w] = [asking EXCEPT !.held = e, !.super = s]
      BY <1>2
    <2> HIDE DEF e, s
    <2> QED
      BY <2>1 DEF Task
  <1>4. ASSUME NEW v \in Workers PROVE EditOK(task[v])'
    <2>1. CASE v = w
      BY <1>2, <1>3, <2>1 DEF EditOK
    <2>2. CASE v # w
      BY <1>1, <1>2, <2>2 DEF EditOK, RoleRows
    <2> QED
      BY <2>1, <2>2
  <1>5. RoleRows'
    BY <1>1, <1>2, <1>4 DEF RoleRows
  <1>6. TaskOK(task'[w])
    BY <1>3 DEF TaskOK
  <1>7. Approvals'
    BY <1>1, <1>2, <1>6, ApprovalsFrame
  <1>8. Guarded(w)'
    BY <1>3 DEF NotGuarding, Guarded
  <1>9. Floor'
    BY <1>2, <1>8, FloorFrame, SameSupers
  <1> QED
    BY <1>2, <1>5, <1>7, <1>9 DEF IInv

(* The default of a task names nothing and edits nothing. *)
LEMMA NoTaskOK == TaskOK(NoTask) /\ EditOK(NoTask) /\ NotGuarding(NoTask)
  BY DEF NoTask, TaskOK, EditOK, NotGuarding

LEMMA AskStatusOK ==
    ASSUME IInv, NEW w \in Workers, NEW actor \in Names, NEW n \in Names,
           NEW status \in {"ACTIVE", "DISABLED"}, AskStatus(w, actor, n, status)
    PROVE  IInv'
  <1> DEFINE t == [NoTask EXCEPT
                      !.step = IF status = "ACTIVE" THEN "statusWrite" ELSE "statusFloor",
                      !.target = n, !.status = status, !.wasSuper = LooksSuper(n)]
  <1>1. Begins(w, actor, t)
    BY DEF AskStatus
  <1>2. LooksSuper(n) \in BOOLEAN
    BY DEF LooksSuper
  <1>3. t \in Task
    BY <1>2, NoTaskType DEF Task, TaskSteps, NoTask
  <1>4. /\ t.step = IF status = "ACTIVE" THEN "statusWrite" ELSE "statusFloor"
        /\ t.target = n /\ t.status = status
    BY DEF NoTask
  <1> HIDE DEF t
  <1>5. TaskOK(t) /\ EditOK(t) /\ NotGuarding(t)
    BY <1>4 DEF TaskOK, EditOK, NotGuarding
  <1> QED
    BY <1>1, <1>3, <1>5, AskFrame

LEMMA AskRolesOK ==
    ASSUME IInv, NEW w \in Workers, NEW actor \in Names, NEW n \in Names,
           NEW codes \in SUBSET CustomRoles, AskRoles(w, actor, n, codes)
    PROVE  IInv'
  <1> DEFINE t == [NoTask EXCEPT !.step = "roles", !.target = n, !.codes = codes]
  <1>1. Begins(w, actor, t)
    BY DEF AskRoles
  <1>2. t \in Task
    BY NoTaskType DEF Task, TaskSteps, NoTask
  <1>3. t.step = "roles" /\ t.target = n
    BY DEF NoTask
  <1> HIDE DEF t
  <1>4. TaskOK(t) /\ EditOK(t) /\ NotGuarding(t)
    BY <1>3 DEF TaskOK, EditOK, NotGuarding
  <1> QED
    BY <1>1, <1>2, <1>4, AskFrame

LEMMA AskCreateOK ==
    ASSUME IInv, NEW w \in Workers, NEW actor \in Names, NEW n \in Names,
           NEW codes \in SUBSET CustomRoles, AskCreate(w, actor, n, codes)
    PROVE  IInv'
  <1> DEFINE t == [NoTask EXCEPT !.step = "create", !.target = n, !.codes = codes]
  <1>1. Begins(w, actor, t)
    BY DEF AskCreate
  <1>2. t \in Task
    BY NoTaskType DEF Task, TaskSteps, NoTask
  <1>3. t.step = "create" /\ t.target = n
    BY DEF NoTask
  <1> HIDE DEF t
  <1>4. TaskOK(t) /\ EditOK(t) /\ NotGuarding(t)
    BY <1>3 DEF TaskOK, EditOK, NotGuarding
  <1> QED
    BY <1>1, <1>2, <1>4, AskFrame

LEMMA AskApprovalOK ==
    ASSUME IInv, NEW w \in Workers, NEW actor \in Names, NEW i \in AccessRequests,
           NEW c \in CustomRoles, AskApproval(w, actor, i, c)
    PROVE  IInv'
  <1> DEFINE t == [NoTask EXCEPT !.step = "approve", !.asked = i, !.codes = {c}]
  <1>1. Begins(w, actor, t)
    BY DEF AskApproval
  <1>2. t \in Task
    BY NoTaskType DEF Task, TaskSteps, NoTask
  <1>3. t.step = "approve" /\ t.asked = i
    BY DEF NoTask
  <1> HIDE DEF t
  <1>4. TaskOK(t) /\ EditOK(t) /\ NotGuarding(t)
    BY <1>3 DEF TaskOK, EditOK, NotGuarding
  <1> QED
    BY <1>1, <1>2, <1>4, AskFrame

LEMMA AskRejectionOK ==
    ASSUME IInv, NEW w \in Workers, NEW actor \in Names, NEW i \in AccessRequests,
           AskRejection(w, actor, i)
    PROVE  IInv'
  <1> DEFINE t == [NoTask EXCEPT !.step = "reject", !.asked = i]
  <1>1. Begins(w, actor, t)
    BY DEF AskRejection
  <1>2. t \in Task
    BY NoTaskType DEF Task, TaskSteps, NoTask
  <1>3. t.step = "reject" /\ t.asked = i
    BY DEF NoTask
  <1> HIDE DEF t
  <1>4. TaskOK(t) /\ EditOK(t) /\ NotGuarding(t)
    BY <1>3 DEF TaskOK, EditOK, NotGuarding
  <1> QED
    BY <1>1, <1>2, <1>4, AskFrame

(* The difference of a chosen set, applied to the set it was taken from. *)
LEMMA Difference ==
    ASSUME NEW a, NEW b
    PROVE  (a \ (a \ b)) \cup (b \ a) = b
  OBVIOUS

LEMMA AskRoleUpdateOK ==
    ASSUME IInv, NEW w \in Workers, NEW actor \in Names, NEW c \in CustomRoles,
           NEW status \in {"ACTIVE", "INACTIVE"}, NEW p \in SUBSET Editable,
           AskRoleUpdate(w, actor, c, status, p)
    PROVE  IInv'
  <1> DEFINE t == [NoTask EXCEPT
                      !.step = "role", !.code = c, !.status = status, !.version = role[c].version,
                      !.added = p \ role[c].permissions, !.removed = role[c].permissions \ p,
                      !.chosen = p]
  <1>1. Begins(w, actor, t)
    BY DEF AskRoleUpdate
  <1>2. c \in RoleCodes /\ role[c] \in Role
    BY DEF RoleCodes, IInv, AccessTypeOK
  <1>3. /\ role[c].version \in 0..MaxVersion /\ role[c].permissions \subseteq Permissions
        /\ p \subseteq Permissions
    BY <1>2, EditableAssumption DEF Role, Permissions
  <1>4. t \in Task
    BY <1>2, <1>3, NoTaskType DEF Task, TaskSteps, NoTask
  <1>5. /\ t.step = "role" /\ t.code = c /\ t.version = role[c].version /\ t.chosen = p
        /\ t.status = status
        /\ t.added = p \ role[c].permissions /\ t.removed = role[c].permissions \ p
    BY DEF NoTask
  <1>6. role[c].status # "NONE"
    BY DEF AskRoleUpdate
  <1> HIDE DEF t
  <1>7. role[c].version <= role[c].version
    BY <1>3, MaxVersionAssumption
  <1>8. TaskOK(t) /\ NotGuarding(t)
    BY <1>5 DEF TaskOK, NotGuarding
  <1>9. EditOK(t)
    BY <1>5, <1>6, <1>7, Difference DEF EditOK
  <1> QED
    BY <1>1, <1>4, <1>8, <1>9, AskFrame
-----------------------------------------------------------------------------
(* Commits and aborts: the worker is idle after them.                        *)

Grows == SuperAdmins(user) \subseteq SuperAdmins(user)' \/ overtaken'
Stays == \A n \in Names : user[n].status # "NONE" => user'[n].status # "NONE"

LEMMA NoTaskIdle == NoTask.step = "idle" /\ NoTask.step # "role" /\ NoTask.step # "statusWrite"
  BY DEF NoTask

LEMMA EndFrame ==
    ASSUME IInv, NEW w \in Workers, EndsTask(w), user' \in [Names -> User], role' = role,
           asked' = asked, overtaken' \in BOOLEAN, overtaken => overtaken', Grows, Stays
    PROVE  IInv'
  <1>1. AccessTypeOK /\ RoleRows /\ Approvals
    BY DEF IInv
  <1>2. /\ task' \in [Workers -> Task]
        /\ task'[w] = NoTask
        /\ \A v \in Workers \ {w} : task'[v] = task[v]
        /\ floorLock' \in Workers \cup {NoOne}
        /\ rowLock' \in [Names -> Workers \cup {NoOne}]
        /\ \A v \in Workers \ {w} : floorLock = v => floorLock' = v
    BY <1>1, EndsTaskType
  <1>3. AccessTypeOK'
    BY <1>1, <1>2 DEF AccessTypeOK
  <1>4. RoleRows'
    BY <1>1, <1>2, NoTaskIdle, RolesFrame
  <1>5. Approvals'
    BY <1>1, <1>2, NoTaskOK, ApprovalsFrame DEF Stays
  <1>6. Guarded(w)'
    BY <1>2, NoTaskIdle DEF Guarded
  <1>7. Floor'
    BY <1>2, <1>6, FloorFrame DEF Grows
  <1> QED
    BY <1>3, <1>4, <1>5, <1>7 DEF IInv

LEMMA AbortsOK == ASSUME IInv, NEW w \in Workers, Aborts(w) PROVE IInv'
  <1>1. EndsTask(w) /\ user' = user /\ role' = role /\ asked' = asked /\ overtaken' = overtaken
    BY DEF Aborts
  <1>2. user' \in [Names -> User] /\ overtaken' \in BOOLEAN
    BY <1>1 DEF IInv, AccessTypeOK
  <1>3. Grows /\ Stays
    BY <1>1, SameSupers DEF Grows, Stays
  <1> QED
    BY <1>1, <1>2, <1>3, EndFrame

(* One account changes. *)
LEMMA OneChanges ==
    ASSUME IInv, NEW n \in Names, NEW u \in User, user' = [user EXCEPT ![n] = u],
           role'[SuperAdmin].status = "ACTIVE"
    PROVE  /\ user' \in [Names -> User]
           /\ u.status # "NONE" => Stays
           /\ \A m \in Names \ {n} : m \in SuperAdmins(user)' <=> m \in SuperAdmins(user)
           /\ n \in SuperAdmins(user)' <=> u.status = "ACTIVE" /\ SuperAdmin \in u.roles
  <1>1. role[SuperAdmin].status = "ACTIVE"
    BY DEF IInv, RoleRows
  <1>2. user' \in [Names -> User] /\ user'[n] = u /\ \A m \in Names \ {n} : user'[m] = user[m]
    BY DEF IInv, AccessTypeOK
  <1>3. u.status # "NONE" => Stays
    BY <1>2 DEF Stays
  <1>4. ASSUME NEW m \in Names \ {n} PROVE m \in SuperAdmins(user)' <=> m \in SuperAdmins(user)
    BY <1>1, <1>2, SuperMember, SuperMemberNext
  <1>5. n \in SuperAdmins(user)' <=> u.status = "ACTIVE" /\ SuperAdmin \in u.roles
    BY <1>2, SuperMemberNext
  <1> QED
    BY <1>2, <1>3, <1>4, <1>5

(* A change that leaves the account a Super Admin if it was one, or is noted.*)
LEMMA GrowsIf ==
    ASSUME IInv, NEW n \in Names, NEW u \in User, user' = [user EXCEPT ![n] = u],
           role'[SuperAdmin].status = "ACTIVE",
           n \in SuperAdmins(user) => overtaken' \/ (u.status = "ACTIVE" /\ SuperAdmin \in u.roles)
    PROVE  Grows
  <1>1. SuperAdmins(user) \subseteq Names
    BY SupersAreNames
  <1> QED
    BY <1>1, OneChanges DEF Grows

(* The account that loses Super Admin is guarded: another one is left.       *)
LEMMA WriteStatusOK == ASSUME IInv, NEW w \in Workers, WriteStatus(w) PROVE IInv'
  <1> DEFINE n == task[w].target
             u == [user[n] EXCEPT !.status = task[w].status]
  <1>1. AccessTypeOK /\ RoleRows /\ Approvals /\ Floor /\ role[SuperAdmin].status = "ACTIVE"
    BY DEF IInv, RoleRows
  <1>2. n \in Names /\ task[w].status \in {"ACTIVE", "DISABLED"} /\ task[w] \in Task
    BY <1>1 DEF WriteStatus, Approvals, TaskOK, AccessTypeOK
  <1>3. user[n] \in User /\ user' = [user EXCEPT ![n] = u]
    BY <1>1, <1>2 DEF WriteStatus, AccessTypeOK
  <1>4. u \in User /\ u.status = task[w].status /\ u.roles = user[n].roles
    BY <1>2, <1>3 DEF User
  <1>5. /\ EndsTask(w) /\ role' = role /\ asked' = asked
        /\ overtaken' = (overtaken \/ (n \in SuperAdmins(user) /\ ~task[w].wasSuper))
        /\ task[w].step = "statusWrite"
    BY DEF WriteStatus
  <1> HIDE DEF n, u
  <1>6. overtaken' \in BOOLEAN /\ (overtaken => overtaken')
    BY <1>1, <1>5 DEF AccessTypeOK
  <1>7. /\ user' \in [Names -> User] /\ Stays
        /\ \A m \in Names \ {n} : m \in SuperAdmins(user)' <=> m \in SuperAdmins(user)
        /\ n \in SuperAdmins(user)' <=> u.status = "ACTIVE" /\ SuperAdmin \in u.roles
    BY <1>1, <1>2, <1>3, <1>4, <1>5, OneChanges
  <1>8. CASE task[w].status = "ACTIVE"
    <2>1. n \in SuperAdmins(user) => SuperAdmin \in u.roles
      BY <1>1, <1>2, <1>4, SuperMember
    <2>2. Grows
      BY <1>1, <1>2, <1>3, <1>4, <1>5, <1>8, <2>1, GrowsIf
    <2> QED
      BY <1>5, <1>6, <1>7, <2>2, EndFrame
  <1>9. CASE task[w].status # "ACTIVE" /\ ~task[w].wasSuper
    <2>1. Grows
      BY <1>1, <1>2, <1>3, <1>4, <1>5, <1>9, GrowsIf
    <2> QED
      BY <1>5, <1>6, <1>7, <2>1, EndFrame
  <1>10. CASE task[w].status # "ACTIVE" /\ task[w].wasSuper
    <2>1. floorLock = w /\ (SuperAdmins(user) \ {n} # {} \/ overtaken)
      BY <1>1, <1>5, <1>10 DEF Floor, Guarded, n
    <2>2. SuperAdmins(user) \subseteq Names
      BY SupersAreNames
    <2>3. SuperAdminRemains'
      BY <1>6, <1>7, <2>1, <2>2 DEF SuperAdminRemains
    <2>4. /\ task' \in [Workers -> Task]
          /\ task'[w] = NoTask
          /\ \A v \in Workers \ {w} : task'[v] = task[v]
          /\ floorLock' \in Workers \cup {NoOne}
          /\ rowLock' \in [Names -> Workers \cup {NoOne}]
      BY <1>1, <1>5, EndsTaskType
    <2>5. ASSUME NEW v \in Workers PROVE Guarded(v)'
      <3>1. CASE v = w
        BY <2>4, <3>1, NoTaskIdle DEF Guarded
      <3>2. CASE v # w
        <4>1. Guarded(v)
          BY <1>1 DEF Floor
        <4> QED
          BY <2>1, <2>4, <3>2, <4>1 DEF Guarded
      <3> QED
        BY <3>1, <3>2
    <2>6. Floor'
      BY <2>3, <2>5 DEF Floor
    <2>7. AccessTypeOK'
      BY <1>1, <1>5, <1>6, <1>7, <2>4 DEF AccessTypeOK
    <2>8. RoleRows'
      BY <1>1, <1>5, <2>4, NoTaskIdle, RolesFrame
    <2>9. Approvals'
      BY <1>1, <1>5, <1>7, <2>4, NoTaskOK, ApprovalsFrame DEF Stays
    <2> QED
      BY <2>6, <2>7, <2>8, <2>9 DEF IInv
  <1> QED
    BY <1>8, <1>9, <1>10

LEMMA WriteRolesOK == ASSUME IInv, NEW w \in Workers, WriteRoles(w) PROVE IInv'
  <1> DEFINE n == task[w].target
  <1>1. AccessTypeOK /\ RoleRows /\ role[SuperAdmin].status = "ACTIVE"
    BY DEF IInv, RoleRows
  <1>2. task[w] \in Task /\ n \in Names
    BY DEF WriteRoles, IInv, Approvals, TaskOK, AccessTypeOK
  <1>3. PICK primary \in task[w].codes :
            user' = [user EXCEPT ![n].roles = task[w].codes, ![n].primary = primary]
    BY DEF WriteRoles, Replaced
  <1> DEFINE codes == task[w].codes
             u == [user[n] EXCEPT !.roles = codes, !.primary = primary]
  <1>4. user[n] \in User /\ codes \subseteq CustomRoles
    BY <1>1, <1>2 DEF AccessTypeOK, Task
  <1>5. user' = [user EXCEPT ![n] = u]
    BY <1>1, <1>2, <1>3 DEF AccessTypeOK
  <1> HIDE DEF codes
  <1>6. u \in User /\ u.status = user[n].status
    BY <1>3, <1>4 DEF User, RoleCodes, codes
  <1>7. /\ EndsTask(w) /\ role' = role /\ asked' = asked
        /\ overtaken' = (overtaken \/ n \in SuperAdmins(user))
    BY DEF WriteRoles
  <1> HIDE DEF n, u
  <1>8. overtaken' \in BOOLEAN /\ (overtaken => overtaken')
    BY <1>1, <1>7 DEF AccessTypeOK
  <1>9. Grows
    BY <1>1, <1>2, <1>5, <1>6, <1>7, GrowsIf
  <1>10. user' \in [Names -> User] /\ \A m \in Names \ {n} : user'[m] = user[m]
    BY <1>1, <1>2, <1>5, <1>6 DEF AccessTypeOK
  <1>11. user'[n].status = user[n].status
    BY <1>1, <1>2, <1>5, <1>6 DEF AccessTypeOK
  <1>12. Stays
    BY <1>10, <1>11 DEF Stays
  <1> QED
    BY <1>7, <1>8, <1>9, <1>10, <1>12, EndFrame

LEMMA HoldingType ==
    ASSUME NEW codes \in SUBSET RoleCodes, NEW primary \in codes
    PROVE  /\ Holding(codes, primary) \in User
           /\ Holding(codes, primary).status = "ACTIVE"
           /\ Holding(codes, primary).roles = codes
  BY DEF Holding, User

(* A new account takes nothing away. *)
LEMMA InsertedOK ==
    ASSUME IInv, NEW n \in Names, NEW codes \in SUBSET CustomRoles, Inserted(n, codes),
           role' = role
    PROVE  /\ user' \in [Names -> User] /\ Grows /\ Stays
           /\ user'[n].status # "NONE"
  <1>1. AccessTypeOK /\ role[SuperAdmin].status = "ACTIVE"
    BY DEF IInv, RoleRows
  <1>2. PICK primary \in codes : user' = [user EXCEPT ![n] = Holding(codes, primary)]
    BY DEF Inserted
  <1>3. /\ Holding(codes, primary) \in User
        /\ Holding(codes, primary).status = "ACTIVE"
    BY HoldingType DEF RoleCodes
  <1>4. n \notin SuperAdmins(user)
    BY <1>1, SuperMember DEF Inserted
  <1>5. Grows
    BY <1>1, <1>2, <1>3, <1>4, GrowsIf
  <1>6. user' \in [Names -> User] /\ Stays
    BY <1>1, <1>2, <1>3, OneChanges
  <1>7. user'[n].status # "NONE"
    BY <1>1, <1>2, <1>3 DEF AccessTypeOK
  <1> QED
    BY <1>5, <1>6, <1>7

LEMMA WriteUserOK == ASSUME IInv, NEW w \in Workers, WriteUser(w) PROVE IInv'
  <1>1. task[w] \in Task /\ task[w].target \in Names /\ overtaken \in BOOLEAN
    BY DEF WriteUser, IInv, Approvals, TaskOK, AccessTypeOK
  <1>2. task[w].codes \in SUBSET CustomRoles
    BY <1>1 DEF Task
  <1>3. /\ EndsTask(w) /\ role' = role /\ asked' = asked /\ overtaken' = overtaken
        /\ Inserted(task[w].target, task[w].codes)
    BY DEF WriteUser
  <1>4. user' \in [Names -> User] /\ Grows /\ Stays
    BY <1>1, <1>2, <1>3, InsertedOK
  <1> QED
    BY <1>1, <1>3, <1>4, EndFrame

-----------------------------------------------------------------------------
(* Steps inside a transaction: nothing is written yet.                       *)

LEMMA InsideFrame ==
    ASSUME IInv, NEW w \in Workers, NEW s \in TaskSteps \ {"role"}, Step(w, s),
           user' = user, role' = role, asked' = asked, overtaken' = overtaken,
           floorLock' \in Workers \cup {NoOne}, rowLock' \in [Names -> Workers \cup {NoOne}],
           \A v \in Workers \ {w} : floorLock = v => floorLock' = v,
           TaskOK(task'[w]), Guarded(w)'
    PROVE  IInv'
  <1>1. AccessTypeOK /\ RoleRows /\ Approvals
    BY DEF IInv
  <1>2. /\ task' \in [Workers -> Task]
        /\ task'[w] = [task[w] EXCEPT !.step = s]
        /\ \A v \in Workers \ {w} : task'[v] = task[v]
    BY <1>1, StepType
  <1>3. task'[w].step = s
    BY <1>1, <1>2 DEF AccessTypeOK, Task
  <1>4. AccessTypeOK'
    BY <1>1, <1>2 DEF AccessTypeOK
  <1>5. RoleRows'
    BY <1>1, <1>2, <1>3, RolesFrame
  <1>6. Approvals'
    BY <1>1, <1>2, ApprovalsFrame
  <1>7. SuperAdmins(user)' = SuperAdmins(user)
    BY SameSupers
  <1>8. Floor'
    BY <1>2, <1>7, FloorFrame
  <1> QED
    BY <1>4, <1>5, <1>6, <1>8 DEF IInv

LEMMA StepKeeps ==
    ASSUME AccessTypeOK, NEW w \in Workers, NEW s \in TaskSteps, Step(w, s)
    PROVE  /\ task'[w].step = s
           /\ task'[w].target = task[w].target
           /\ task'[w].status = task[w].status
           /\ task'[w].wasSuper = task[w].wasSuper
           /\ task'[w].asked = task[w].asked
  <1>1. task'[w] = [task[w] EXCEPT !.step = s] /\ task[w] \in Task
    BY StepType DEF AccessTypeOK
  <1> QED
    BY <1>1 DEF Task

LEMMA CheckFloorsOK == ASSUME IInv, NEW w \in Workers, CheckFloors(w) PROVE IInv'
  <1>1. AccessTypeOK /\ TaskOK(task[w]) /\ NoOne \notin Workers
    BY NoOneAssumption DEF IInv, Approvals
  <1>2. /\ Step(w, "statusWrite") /\ floorLock = NoOne /\ floorLock' = w
        /\ user' = user /\ role' = role /\ asked' = asked /\ overtaken' = overtaken
        /\ rowLock' = rowLock /\ task[w].step = "statusFloor"
        /\ task[w].wasSuper => SuperAdmins(user) \ {task[w].target} # {}
    BY DEF CheckFloors, FloorLockFree
  <1>3. "statusWrite" \in TaskSteps \ {"role"}
    BY DEF TaskSteps
  <1>4. /\ task'[w].step = "statusWrite" /\ task'[w].target = task[w].target
        /\ task'[w].status = task[w].status /\ task'[w].wasSuper = task[w].wasSuper
    BY <1>1, <1>2, <1>3, StepKeeps
  <1>5. TaskOK(task'[w])
    BY <1>1, <1>2, <1>4 DEF TaskOK
  <1>6. Guarded(w)'
    BY <1>2, <1>4, SameSupers DEF Guarded
  <1>7. rowLock' \in [Names -> Workers \cup {NoOne}]
    BY <1>1, <1>2 DEF AccessTypeOK
  <1> QED
    BY <1>1, <1>2, <1>3, <1>5, <1>6, <1>7, InsideFrame

LEMMA ReplaceRolesOK == ASSUME IInv, NEW w \in Workers, ReplaceRoles(w) PROVE IInv'
  <1>1. AccessTypeOK /\ TaskOK(task[w])
    BY DEF IInv, Approvals
  <1>2. /\ Step(w, "rolesFloor") /\ floorLock' = floorLock
        /\ user' = user /\ role' = role /\ asked' = asked /\ overtaken' = overtaken
        /\ rowLock' = [rowLock EXCEPT ![task[w].target] = w] /\ task[w].step = "roles"
    BY DEF ReplaceRoles
  <1>3. "rolesFloor" \in TaskSteps \ {"role"}
    BY DEF TaskSteps
  <1>4. task'[w].step = "rolesFloor" /\ task'[w].target = task[w].target
    BY <1>1, <1>2, <1>3, StepKeeps
  <1>5. TaskOK(task'[w])
    BY <1>1, <1>2, <1>4 DEF TaskOK
  <1>6. Guarded(w)'
    BY <1>4 DEF Guarded
  <1>7. rowLock' \in [Names -> Workers \cup {NoOne}] /\ floorLock' \in Workers \cup {NoOne}
    BY <1>1, <1>2 DEF AccessTypeOK
  <1> QED
    BY <1>2, <1>3, <1>5, <1>6, <1>7, InsideFrame

LEMMA CheckRolesFloorOK == ASSUME IInv, NEW w \in Workers, CheckRolesFloor(w) PROVE IInv'
  <1>1. AccessTypeOK /\ TaskOK(task[w]) /\ NoOne \notin Workers
    BY NoOneAssumption DEF IInv, Approvals
  <1>2. /\ Step(w, "rolesWrite") /\ floorLock = NoOne /\ floorLock' = w
        /\ user' = user /\ role' = role /\ asked' = asked /\ overtaken' = overtaken
        /\ rowLock' = rowLock /\ task[w].step = "rolesFloor"
    BY DEF CheckRolesFloor, FloorLockFree
  <1>3. "rolesWrite" \in TaskSteps \ {"role"}
    BY DEF TaskSteps
  <1>4. task'[w].step = "rolesWrite" /\ task'[w].target = task[w].target
    BY <1>1, <1>2, <1>3, StepKeeps
  <1>5. TaskOK(task'[w])
    BY <1>1, <1>2, <1>4 DEF TaskOK
  <1>6. Guarded(w)'
    BY <1>4 DEF Guarded
  <1>7. rowLock' \in [Names -> Workers \cup {NoOne}]
    BY <1>1, <1>2 DEF AccessTypeOK
  <1> QED
    BY <1>1, <1>2, <1>3, <1>5, <1>6, <1>7, InsideFrame
-----------------------------------------------------------------------------
(* Roles.                                                                    *)

(* A role that is not SUPER_ADMIN changes no one into or out of it. *)
LEMMA RoleFrame ==
    ASSUME IInv, NEW c \in CustomRoles, NEW r \in Role, role' = [role EXCEPT ![c] = r]
    PROVE  /\ role' \in [RoleCodes -> Role] /\ role'[c] = r
           /\ \A d \in RoleCodes \ {c} : role'[d] = role[d]
           /\ role'[SuperAdmin].status = "ACTIVE"
           /\ user' = user => SuperAdmins(user)' = SuperAdmins(user)
  <1>1. AccessTypeOK /\ role[SuperAdmin].status = "ACTIVE"
    BY DEF IInv, RoleRows
  <1>2. c \in RoleCodes /\ SuperAdmin \in RoleCodes /\ c # SuperAdmin
    BY SuperAdminAssumption DEF RoleCodes
  <1>3. /\ role' \in [RoleCodes -> Role] /\ role'[c] = r
        /\ \A d \in RoleCodes \ {c} : role'[d] = role[d]
    BY <1>1, <1>2 DEF AccessTypeOK
  <1>4. role'[SuperAdmin].status = "ACTIVE"
    BY <1>1, <1>2, <1>3
  <1>5. ASSUME user' = user PROVE SuperAdmins(user)' = SuperAdmins(user)
    <2>1. \A n \in Names : n \in SuperAdmins(user)' <=> n \in SuperAdmins(user)
      BY <1>1, <1>4, <1>5, SuperMember, SuperMemberNext
    <2>2. SuperAdmins(user) \subseteq Names
      BY SupersAreNames
    <2>3. SuperAdmins(user)' \subseteq Names
      BY DEF SuperAdmins, ActiveUsers
    <2> QED
      BY <2>1, <2>2, <2>3
  <1> QED
    BY <1>3, <1>4, <1>5

LEMMA CreateRoleOK ==
    ASSUME IInv, NEW actor \in Names, NEW c \in CustomRoles, NEW p \in SUBSET Editable,
           CreateRole(actor, c, p)
    PROVE  IInv'
  <1> DEFINE r == [role[c] EXCEPT !.status = "ACTIVE", !.permissions = p]
  <1>1. AccessTypeOK /\ RoleRows /\ Approvals
    BY DEF IInv
  <1>2. c \in RoleCodes /\ role[c] \in Role /\ p \subseteq Permissions
    BY <1>1, EditableAssumption DEF RoleCodes, AccessTypeOK, Permissions
  <1>3. r \in Role
    BY <1>2 DEF Role
  <1>4. role' = [role EXCEPT ![c] = r]
    BY <1>1, <1>2 DEF CreateRole, AccessTypeOK
  <1> HIDE DEF r
  <1>5. /\ UNCHANGED <<user, asked, task, floorLock, rowLock, overtaken>>
        /\ role[c].status = "NONE"
    BY DEF CreateRole
  <1>6. /\ role' \in [RoleCodes -> Role]
        /\ \A d \in RoleCodes \ {c} : role'[d] = role[d]
        /\ role'[SuperAdmin].status = "ACTIVE"
        /\ SuperAdmins(user)' = SuperAdmins(user)
    BY <1>3, <1>4, <1>5, RoleFrame
  <1>7. ASSUME NEW v \in Workers PROVE EditOK(task[v])'
    <2>1. EditOK(task[v]) /\ task[v] = task'[v]
      BY <1>1, <1>5 DEF RoleRows
    <2>2. task[v].step = "role" => task[v].code # c /\ task[v].code \in RoleCodes
      BY <1>5, <2>1 DEF EditOK, RoleCodes
    <2> QED
      BY <1>6, <2>1, <2>2 DEF EditOK
  <1>8. RoleRows'
    BY <1>6, <1>7 DEF RoleRows
  <1>9. AccessTypeOK'
    BY <1>1, <1>5, <1>6 DEF AccessTypeOK
  <1>10. Approvals'
    BY <1>1, <1>5, ApprovalsFrame
  <1>11. Floor'
    BY <1>5, <1>6, FloorFrame
  <1> QED
    BY <1>8, <1>9, <1>10, <1>11 DEF IInv

(* The version grows, so what others computed is now of an older one. *)
LEMMA WriteRoleOK == ASSUME IInv, NEW w \in Workers, WriteRole(w) PROVE IInv'
  <1> DEFINE c == task[w].code
             next == role[c].version + 1
             p == (role[c].permissions \ task[w].removed) \cup task[w].added
             r == [status |-> task[w].status, version |-> next, permissions |-> p]
  <1>1. AccessTypeOK /\ RoleRows /\ Approvals
    BY DEF IInv
  <1>2. c \in CustomRoles /\ task[w] \in Task
    BY <1>1 DEF WriteRole, RoleRows, EditOK, AccessTypeOK
  <1>3. c \in RoleCodes /\ role[c] \in Role
    BY <1>1, <1>2 DEF RoleCodes, AccessTypeOK
  <1>4. role[c].version \in 0..MaxVersion /\ role[c].version < MaxVersion
    BY <1>3 DEF Role, WriteRole
  <1>5. next \in 0..MaxVersion
    BY <1>4, MaxVersionAssumption
  <1>6. p \subseteq Permissions
    BY <1>2, <1>3 DEF Role, Task
  <1>7. task[w].status \in {"ACTIVE", "INACTIVE"}
    BY <1>1 DEF WriteRole, RoleRows, EditOK
  <1>8. r \in Role /\ r.status # "NONE" /\ r.version = next
    BY <1>5, <1>6, <1>7 DEF Role
  <1>9. /\ EndsTask(w) /\ UNCHANGED <<user, asked, overtaken>>
        /\ role' = [role EXCEPT ![c] = r]
    BY <1>1, <1>3 DEF WriteRole, AccessTypeOK
  <1> HIDE DEF c, p, r
  <1>10. /\ role' \in [RoleCodes -> Role] /\ role'[c] = r
         /\ \A d \in RoleCodes \ {c} : role'[d] = role[d]
         /\ role'[SuperAdmin].status = "ACTIVE"
         /\ SuperAdmins(user)' = SuperAdmins(user)
    BY <1>2, <1>8, <1>9, RoleFrame
  <1>11. /\ task' \in [Workers -> Task]
         /\ task'[w] = NoTask
         /\ \A v \in Workers \ {w} : task'[v] = task[v]
         /\ floorLock' \in Workers \cup {NoOne}
         /\ rowLock' \in [Names -> Workers \cup {NoOne}]
         /\ \A v \in Workers \ {w} : floorLock = v => floorLock' = v
    BY <1>1, <1>9, EndsTaskType
  <1>12. ASSUME NEW v \in Workers PROVE EditOK(task[v])'
    <2>1. CASE v = w
      BY <1>11, <2>1, NoTaskIdle DEF EditOK
    <2>2. CASE v # w /\ task[v].code # c
      <3>1. EditOK(task[v]) /\ task'[v] = task[v]
        BY <1>1, <1>11, <2>2 DEF RoleRows
      <3>2. task[v].step = "role" => task[v].code \in RoleCodes \ {c}
        BY <2>2, <3>1 DEF EditOK, RoleCodes
      <3> QED
        BY <1>10, <3>1, <3>2 DEF EditOK
    <2>3. CASE v # w /\ task[v].code = c
      <3>1. EditOK(task[v]) /\ task'[v] = task[v] /\ task[v] \in Task
        BY <1>1, <1>11, <2>3 DEF RoleRows, AccessTypeOK
      <3>2. task[v].version \in Nat
        BY <3>1, MaxVersionAssumption DEF Task
      <3>3. task[v].step = "role" => task[v].version <= role[c].version
        BY <2>3, <3>1 DEF EditOK
      <3>4. task[v].step = "role" => task[v].version <= next /\ task[v].version # next
        BY <1>4, <3>2, <3>3, MaxVersionAssumption
      <3> HIDE DEF next
      <3> QED
        BY <1>8, <1>10, <2>3, <3>1, <3>4 DEF EditOK
    <2> QED
      BY <2>1, <2>2, <2>3
  <1>13. RoleRows'
    BY <1>10, <1>12 DEF RoleRows
  <1>14. AccessTypeOK'
    BY <1>1, <1>9, <1>10, <1>11 DEF AccessTypeOK
  <1>15. Approvals'
    BY <1>1, <1>9, <1>11, NoTaskOK, ApprovalsFrame
  <1>16. Guarded(w)'
    BY <1>11, NoTaskIdle DEF Guarded
  <1>17. Floor'
    BY <1>9, <1>10, <1>11, <1>16, FloorFrame
  <1> QED
    BY <1>13, <1>14, <1>15, <1>17 DEF IInv
-----------------------------------------------------------------------------
(* Access requests, and the command line.                                    *)

Decisions == {"NONE", "CHECKED", "PENDING", "APPROVED", "REJECTED"}

LEMMA AskedType ==
    ASSUME AccessTypeOK, NEW i \in AccessRequests, NEW s \in Decisions,
           NEW k \in Names \cup {NoOne},
           asked' = [asked EXCEPT ![i] = [asked[i] EXCEPT !.status = s, !.created = k]]
    PROVE  /\ asked' \in [AccessRequests -> Asked]
           /\ asked'[i].status = s /\ asked'[i].name = asked[i].name
           /\ \A j \in AccessRequests \ {i} : asked'[j] = asked[j]
           /\ asked[i].name \in Names
  <1>1. asked[i] \in Asked
    BY DEF AccessTypeOK
  <1>2. [asked[i] EXCEPT !.status = s, !.created = k] \in Asked
    BY <1>1 DEF Asked, Decisions
  <1> QED
    BY <1>1, <1>2 DEF AccessTypeOK, Asked, Decisions

(* A commit that changes one request. *)
LEMMA RequestFrame ==
    ASSUME IInv, NEW i \in AccessRequests, user' \in [Names -> User], role' = role,
           overtaken' = overtaken, Grows, Stays,
           asked' \in [AccessRequests -> Asked], asked'[i].name = asked[i].name,
           \A j \in AccessRequests \ {i} : asked'[j] = asked[j],
           asked'[i].status = "APPROVED" => user'[asked[i].name].status # "NONE",
           task' \in [Workers -> Task], floorLock' \in Workers \cup {NoOne},
           rowLock' \in [Names -> Workers \cup {NoOne}],
           \A v \in Workers : \/ task'[v] = task[v] /\ (floorLock = v => floorLock' = v)
                              \/ task'[v] = NoTask
    PROVE  IInv'
  <1>1. AccessTypeOK /\ RoleRows /\ Approvals
    BY DEF IInv
  <1>2. AccessTypeOK'
    BY <1>1 DEF AccessTypeOK
  <1>3. RoleRows'
    BY <1>1, NoTaskIdle, RolesFrame
  <1>4. ASSUME NEW j \in AccessRequests, asked'[j].status = "APPROVED"
        PROVE  user'[asked'[j].name].status # "NONE"
    <2>1. CASE j = i
      BY <1>4, <2>1
    <2>2. CASE j # i
      <3>1. asked[j] = asked'[j] /\ asked[j].name \in Names
        BY <1>1, <2>2 DEF AccessTypeOK, Asked
      <3> QED
        BY <1>1, <1>4, <3>1 DEF Approvals, Stays
    <2> QED
      BY <2>1, <2>2
  <1>5. \A v \in Workers : TaskOK(task[v])'
    BY <1>1, NoTaskOK DEF Approvals, TaskOK
  <1>6. Approvals'
    BY <1>4, <1>5 DEF Approvals
  <1>7. \A v \in Workers : task'[v] = NoTask => Guarded(v)'
    BY NoTaskIdle DEF Guarded
  <1>8. Floor'
    BY <1>7, FloorFrame DEF Grows
  <1> QED
    BY <1>2, <1>3, <1>6, <1>8 DEF IInv

LEMMA EndsTasks ==
    ASSUME AccessTypeOK, NEW w \in Workers, EndsTask(w)
    PROVE  /\ task' \in [Workers -> Task] /\ floorLock' \in Workers \cup {NoOne}
           /\ rowLock' \in [Names -> Workers \cup {NoOne}]
           /\ \A v \in Workers : \/ task'[v] = task[v] /\ (floorLock = v => floorLock' = v)
                                 \/ task'[v] = NoTask
  BY EndsTaskType

LEMMA ApproveOK == ASSUME IInv, NEW w \in Workers, Approve(w) PROVE IInv'
  <1> DEFINE i == task[w].asked
  <1>1. AccessTypeOK /\ task[w] \in Task /\ i \in AccessRequests
    BY DEF Approve, IInv, Approvals, TaskOK, AccessTypeOK
  <1>2. /\ EndsTask(w) /\ role' = role /\ overtaken' = overtaken
        /\ Inserted(asked[i].name, task[w].codes)
    BY DEF Approve
  <1>3. asked[i] \in Asked /\ asked[i].name \in Names /\ task[w].codes \in SUBSET CustomRoles
    BY <1>1 DEF AccessTypeOK, Asked, Task
  <1>4. asked' = [asked EXCEPT ![i] = [asked[i] EXCEPT !.status = "APPROVED",
                                                       !.created = asked[i].name]]
    BY <1>1 DEF Approve, AccessTypeOK
  <1> HIDE DEF i
  <1>5. /\ asked' \in [AccessRequests -> Asked] /\ asked'[i].name = asked[i].name
        /\ \A j \in AccessRequests \ {i} : asked'[j] = asked[j]
    <2>1. "APPROVED" \in Decisions /\ asked[i].name \in Names \cup {NoOne}
      BY <1>3 DEF Decisions
    <2> QED
      BY <1>1, <1>4, <2>1, AskedType
  <1>6. user' \in [Names -> User] /\ Grows /\ Stays /\ user'[asked[i].name].status # "NONE"
    BY <1>2, <1>3, InsertedOK
  <1>7. /\ task' \in [Workers -> Task] /\ floorLock' \in Workers \cup {NoOne}
        /\ rowLock' \in [Names -> Workers \cup {NoOne}]
        /\ \A v \in Workers : \/ task'[v] = task[v] /\ (floorLock = v => floorLock' = v)
                              \/ task'[v] = NoTask
    BY <1>1, <1>2, EndsTasks
  <1> QED
    BY <1>1, <1>2, <1>5, <1>6, <1>7, RequestFrame

LEMMA SameUsers ==
    ASSUME user' = user, role' = role PROVE Grows /\ Stays
  BY SameSupers DEF Grows, Stays

LEMMA RejectOK == ASSUME IInv, NEW w \in Workers, Reject(w) PROVE IInv'
  <1> DEFINE i == task[w].asked
             k == asked[i].created
  <1>1. AccessTypeOK /\ task[w] \in Task /\ i \in AccessRequests
    BY DEF Reject, IInv, Approvals, TaskOK, AccessTypeOK
  <1>2. EndsTask(w) /\ role' = role /\ overtaken' = overtaken /\ user' = user
    BY DEF Reject
  <1>3. asked[i] \in Asked /\ k \in Names \cup {NoOne}
    BY <1>1 DEF AccessTypeOK, Asked
  <1>4. asked' = [asked EXCEPT ![i] = [asked[i] EXCEPT !.status = "REJECTED", !.created = k]]
    BY <1>1, <1>3 DEF Reject, AccessTypeOK, Asked
  <1> HIDE DEF i, k
  <1>5. /\ asked' \in [AccessRequests -> Asked] /\ asked'[i].name = asked[i].name
        /\ asked'[i].status = "REJECTED"
        /\ \A j \in AccessRequests \ {i} : asked'[j] = asked[j]
    <2>1. "REJECTED" \in Decisions
      BY DEF Decisions
    <2> QED
      BY <1>1, <1>3, <1>4, <2>1, AskedType
  <1>6. user' \in [Names -> User] /\ Grows /\ Stays
    BY <1>1, <1>2, SameUsers DEF AccessTypeOK
  <1>7. /\ task' \in [Workers -> Task] /\ floorLock' \in Workers \cup {NoOne}
        /\ rowLock' \in [Names -> Workers \cup {NoOne}]
        /\ \A v \in Workers : \/ task'[v] = task[v] /\ (floorLock = v => floorLock' = v)
                              \/ task'[v] = NoTask
    BY <1>1, <1>2, EndsTasks
  <1> QED
    BY <1>1, <1>2, <1>5, <1>6, <1>7, RequestFrame

(* The public request writes nothing but its own row. *)
LEMMA PublicOK ==
    ASSUME IInv, NEW i \in AccessRequests, AskAccess(i) \/ FileRequest(i)
    PROVE  IInv'
  <1>1. AccessTypeOK
    BY DEF IInv
  <1>2. PICK s \in {"NONE", "CHECKED", "PENDING"} : asked' = [asked EXCEPT ![i].status = s]
    BY DEF AskAccess, FileRequest
  <1> DEFINE k == asked[i].created
  <1>3. asked[i] \in Asked /\ k \in Names \cup {NoOne}
    BY <1>1 DEF AccessTypeOK, Asked
  <1>4. asked' = [asked EXCEPT ![i] = [asked[i] EXCEPT !.status = s, !.created = k]]
    BY <1>1, <1>2, <1>3 DEF AccessTypeOK, Asked
  <1> HIDE DEF k
  <1>5. /\ asked' \in [AccessRequests -> Asked] /\ asked'[i].name = asked[i].name
        /\ asked'[i].status = s
        /\ \A j \in AccessRequests \ {i} : asked'[j] = asked[j]
    <2>1. s \in Decisions
      BY <1>2 DEF Decisions
    <2> QED
      BY <1>1, <1>3, <1>4, <2>1, AskedType
  <1>6. UNCHANGED <<user, role, task, floorLock, rowLock, overtaken>>
    BY DEF AskAccess, FileRequest
  <1>7. /\ user' \in [Names -> User] /\ task' \in [Workers -> Task]
        /\ floorLock' \in Workers \cup {NoOne} /\ rowLock' \in [Names -> Workers \cup {NoOne}]
    BY <1>1, <1>6 DEF AccessTypeOK
  <1>8. Grows /\ Stays
    BY <1>6, SameUsers
  <1> QED
    BY <1>2, <1>5, <1>6, <1>7, <1>8, RequestFrame

LEMMA UpsertOnServerOK ==
    ASSUME IInv, NEW n \in Names, NEW c \in RoleCodes, UpsertOnServer(n, c)
    PROVE  IInv'
  <1> DEFINE u == Holding({c}, c)
  <1>1. /\ AccessTypeOK /\ RoleRows /\ Approvals /\ role[SuperAdmin].status = "ACTIVE"
    BY DEF IInv, RoleRows
  <1>2. u \in User /\ u.status = "ACTIVE" /\ u.roles = {c}
    BY HoldingType
  <1> HIDE DEF u
  <1>3. /\ user' = [user EXCEPT ![n] = u]
        /\ SuperAdmin \in user[n].roles => c = SuperAdmin
        /\ UNCHANGED <<role, asked, task, floorLock, rowLock, overtaken>>
    BY DEF UpsertOnServer, u
  <1>4. Grows
    BY <1>1, <1>2, <1>3, SuperMember, GrowsIf
  <1>5. user' \in [Names -> User] /\ Stays
    BY <1>1, <1>2, <1>3, OneChanges
  <1>6. AccessTypeOK'
    BY <1>1, <1>3, <1>5 DEF AccessTypeOK
  <1>7. RoleRows'
    BY <1>1, <1>3, RolesFrame
  <1>8. Approvals'
    BY <1>1, <1>3, <1>5, ApprovalsFrame DEF Stays
  <1>9. Floor'
    BY <1>3, <1>4, FloorFrame DEF Grows
  <1> QED
    BY <1>6, <1>7, <1>8, <1>9 DEF IInv
-----------------------------------------------------------------------------
LEMMA InitInv == AccessInit => IInv
  <1> SUFFICES ASSUME AccessInit PROVE IInv
    OBVIOUS
  <1>1. NoAccount \in User /\ Holding({SuperAdmin}, SuperAdmin) \in User
    BY DEF NoAccount, Holding, User, RoleCodes
  <1>2. user \in [Names -> User]
    BY <1>1 DEF AccessInit
  <1>3. role \in [RoleCodes -> Role] /\ role[SuperAdmin].status = "ACTIVE"
    BY MaxVersionAssumption DEF AccessInit, Role, RoleCodes
  <1>4. asked \in [AccessRequests -> Asked] /\ \A i \in AccessRequests : asked[i].status = "NONE"
    BY DEF AccessInit, Asked
  <1>5. task \in [Workers -> Task] /\ \A w \in Workers : task[w] = NoTask
    BY NoTaskType DEF AccessInit
  <1>6. /\ floorLock \in Workers \cup {NoOne} /\ overtaken \in BOOLEAN
        /\ rowLock \in [Names -> Workers \cup {NoOne}]
    BY DEF AccessInit, Free
  <1>7. AccessTypeOK
    BY <1>2, <1>3, <1>4, <1>5, <1>6 DEF AccessTypeOK
  <1>8. RoleRows
    BY <1>3, <1>5, NoTaskOK DEF RoleRows
  <1>9. Approvals
    BY <1>4, <1>5, NoTaskOK DEF Approvals
  <1>10. PICK n \in Names : n \in FirstSupers
    BY FirstSupersAssumption
  <1>11. user[n].status = "ACTIVE" /\ SuperAdmin \in user[n].roles
    BY <1>10 DEF AccessInit, Holding
  <1>12. SuperAdminRemains
    BY <1>3, <1>11, SuperMember DEF SuperAdminRemains
  <1>13. \A w \in Workers : Guarded(w)
    BY <1>5, NoTaskIdle DEF Guarded
  <1> QED
    BY <1>7, <1>8, <1>9, <1>12, <1>13 DEF IInv, Floor

LEMMA AsksInv ==
    ASSUME IInv, NEW w \in Workers, NEW actor \in Names, Asks(w, actor) PROVE IInv'
  BY AskStatusOK, AskRolesOK, AskCreateOK, AskRoleUpdateOK, AskApprovalOK, AskRejectionOK
  DEF Asks

LEMMA StutterInv == ASSUME IInv, UNCHANGED accessVars PROVE IInv'
  <1>1. UNCHANGED <<user, role, asked, task, floorLock, rowLock, overtaken>>
    BY DEF accessVars
  <1>2. AccessTypeOK /\ RoleRows /\ Approvals
    BY DEF IInv
  <1>3. AccessTypeOK'
    BY <1>1, <1>2 DEF AccessTypeOK
  <1>4. RoleRows'
    BY <1>1, <1>2, RolesFrame
  <1>5. Approvals'
    BY <1>1, <1>2, ApprovalsFrame
  <1>6. Floor'
    BY <1>1, SameSupers, FloorFrame
  <1> QED
    BY <1>3, <1>4, <1>5, <1>6 DEF IInv

LEMMA NextInv == ASSUME IInv, [AccessNext]_accessVars PROVE IInv'
  <1>1. ASSUME NEW w \in Workers, NEW actor \in Names, Asks(w, actor) PROVE IInv'
    BY <1>1, AsksInv
  <1>2. ASSUME NEW w \in Workers,
               \/ CheckFloors(w) \/ WriteStatus(w) \/ ReplaceRoles(w) \/ CheckRolesFloor(w)
               \/ WriteRoles(w) \/ WriteUser(w) \/ WriteRole(w) \/ Approve(w) \/ Reject(w)
               \/ Aborts(w)
        PROVE  IInv'
    BY <1>2, CheckFloorsOK, WriteStatusOK, ReplaceRolesOK, CheckRolesFloorOK, WriteRolesOK,
       WriteUserOK, WriteRoleOK, ApproveOK, RejectOK, AbortsOK
  <1>3. ASSUME NEW n \in Names, NEW c \in RoleCodes, UpsertOnServer(n, c) PROVE IInv'
    BY <1>3, UpsertOnServerOK
  <1>4. ASSUME NEW actor \in Names, NEW c \in CustomRoles, NEW p \in SUBSET Editable,
               CreateRole(actor, c, p)
        PROVE  IInv'
    BY <1>4, CreateRoleOK
  <1>5. ASSUME NEW i \in AccessRequests, AskAccess(i) \/ FileRequest(i) PROVE IInv'
    BY <1>5, PublicOK
  <1>6. CASE UNCHANGED accessVars
    BY <1>6, StutterInv
  <1> QED
    BY <1>1, <1>2, <1>3, <1>4, <1>5, <1>6 DEF AccessNext

LEMMA Inductive == AccessSpec => []IInv
  <1>1. IInv /\ [AccessNext]_accessVars => IInv'
    BY NextInv
  <1> QED
    BY <1>1, InitInv, PTL DEF AccessSpec

(* Every row and every task stays of its type. *)
THEOREM TypeCorrect == AccessSpec => []AccessTypeOK
  <1>1. IInv => AccessTypeOK
    BY DEF IInv
  <1> QED
    BY <1>1, Inductive, PTL

(* However status changes, role changes and new accounts interleave, an      *)
(* active Super Admin remains (role-service.ts:168).                         *)
THEOREM SuperAdminIsNeverLost == AccessSpec => []SuperAdminRemains
  <1>1. IInv => SuperAdminRemains
    BY DEF IInv, Floor
  <1> QED
    BY <1>1, Inductive, PTL
-----------------------------------------------------------------------------
(* The steps of AccessNext other than the ones that write a request or a     *)
(* role.                                                                     *)

Decides(w) == Approve(w) \/ Reject(w)
Other(w) ==
    \/ CheckFloors(w) \/ WriteStatus(w) \/ ReplaceRoles(w) \/ CheckRolesFloor(w)
    \/ WriteRoles(w) \/ WriteUser(w) \/ Aborts(w)

LEMMA Steps ==
    ASSUME AccessNext
    PROVE  \/ \E w \in Workers, actor \in Names : Asks(w, actor)
           \/ \E w \in Workers : Other(w) \/ WriteRole(w) \/ Decides(w)
           \/ \E n \in Names, c \in RoleCodes : UpsertOnServer(n, c)
           \/ \E actor \in Names, c \in CustomRoles, p \in SUBSET Editable : CreateRole(actor, c, p)
           \/ \E i \in AccessRequests : AskAccess(i) \/ FileRequest(i)
  BY DEF AccessNext, Other, Decides

LEMMA AsksOnly ==
    ASSUME NEW w, NEW actor, Asks(w, actor)
    PROVE  asked' = asked /\ role' = role
  <1>1. ASSUME NEW asking, Begins(w, actor, asking) PROVE asked' = asked /\ role' = role
    BY <1>1 DEF Begins
  <1> QED
    BY <1>1 DEF Asks, AskStatus, AskRoles, AskCreate, AskRoleUpdate, AskApproval, AskRejection

LEMMA OtherOnly ==
    ASSUME NEW w, Other(w)
    PROVE  asked' = asked /\ role' = role
  BY DEF Other, CheckFloors, WriteStatus, ReplaceRoles, CheckRolesFloor, WriteRoles, WriteUser,
         Aborts

(* A decision claims a pending request; the public only touches its own      *)
(* request before it is decided.                                             *)
Undecided(i) ==
    /\ asked[i].status \notin {"APPROVED", "REJECTED"}
    /\ asked'[i].name = asked[i].name
    /\ \A j \in AccessRequests \ {i} : asked'[j] = asked[j]

LEMMA DecidesOnly ==
    ASSUME IInv, NEW w \in Workers, Decides(w)
    PROVE  role' = role /\ \E i \in AccessRequests : Undecided(i)
  <1> DEFINE i == task[w].asked
  <1>1. i \in AccessRequests /\ asked \in [AccessRequests -> Asked]
    BY DEF Decides, Approve, Reject, IInv, Approvals, TaskOK, AccessTypeOK
  <1>2. asked[i].status = "PENDING" /\ role' = role
    BY DEF Decides, Approve, Reject, RequestClaimed
  <1>3. \/ asked' = [asked EXCEPT ![i].status = "APPROVED", ![i].created = asked[i].name]
        \/ asked' = [asked EXCEPT ![i].status = "REJECTED"]
    BY DEF Decides, Approve, Reject
  <1> HIDE DEF i
  <1>4. asked[i] \in Asked
    BY <1>1
  <1>5. asked'[i].name = asked[i].name /\ \A j \in AccessRequests \ {i} : asked'[j] = asked[j]
    BY <1>1, <1>3, <1>4 DEF Asked
  <1> QED
    BY <1>1, <1>2, <1>5 DEF Undecided

LEMMA PublicOnly ==
    ASSUME IInv, NEW i \in AccessRequests, AskAccess(i) \/ FileRequest(i)
    PROVE  role' = role /\ Undecided(i)
  <1>1. asked \in [AccessRequests -> Asked] /\ asked[i] \in Asked
    BY DEF IInv, AccessTypeOK
  <1>2. asked[i].status \in {"NONE", "CHECKED"} /\ role' = role
    BY DEF AskAccess, FileRequest
  <1>3. PICK s \in {"NONE", "CHECKED", "PENDING"} : asked' = [asked EXCEPT ![i].status = s]
    BY DEF AskAccess, FileRequest
  <1>4. asked'[i].name = asked[i].name /\ \A j \in AccessRequests \ {i} : asked'[j] = asked[j]
    BY <1>1, <1>3 DEF Asked
  <1> QED
    BY <1>2, <1>4 DEF Undecided

LEMMA RequestStep ==
    ASSUME IInv, [AccessNext]_accessVars
    PROVE  asked' = asked \/ \E i \in AccessRequests : Undecided(i)
  <1>1. CASE UNCHANGED accessVars
    BY <1>1 DEF accessVars
  <1>2. CASE AccessNext
    <2>1. ASSUME NEW n, NEW c, UpsertOnServer(n, c) PROVE asked' = asked
      BY <2>1 DEF UpsertOnServer
    <2>2. ASSUME NEW actor, NEW c, NEW p, CreateRole(actor, c, p) PROVE asked' = asked
      BY <2>2 DEF CreateRole
    <2>3. ASSUME NEW w, WriteRole(w) PROVE asked' = asked
      BY <2>3 DEF WriteRole
    <2> QED
      BY <1>2, <2>1, <2>2, <2>3, Steps, AsksOnly, OtherOnly, DecidesOnly, PublicOnly
  <1> QED
    BY <1>1, <1>2

LEMMA RequestHolds ==
    ASSUME IInv, IInv', [AccessNext]_accessVars, NEW i \in AccessRequests
    PROVE  /\ asked[i].status \in {"APPROVED", "REJECTED"} => asked'[i] = asked[i]
           /\ asked'[i].status = "APPROVED" => user'[asked[i].name].status # "NONE"
  <1>1. asked'[i] = asked[i] \/ Undecided(i)
    BY RequestStep DEF Undecided
  <1>2. asked'[i].name = asked[i].name
    BY <1>1 DEF Undecided
  <1>3. asked'[i].status = "APPROVED" => user'[asked'[i].name].status # "NONE"
    BY DEF IInv, Approvals
  <1> QED
    BY <1>1, <1>2, <1>3 DEF Undecided

(* However two reviewers and the public interleave, a decided request stays  *)
(* as it was decided, and an approved one has its account                    *)
(* (access-requests/route.ts:61 and 80).                                     *)
THEOREM DecidedOnce == AccessSpec => RequestsDecidedOnce
  <1>1. IInv /\ IInv' /\ [AccessNext]_accessVars =>
            [\A i \in AccessRequests :
                /\ asked[i].status \in {"APPROVED", "REJECTED"} => asked'[i] = asked[i]
                /\ asked'[i].status = "APPROVED" => user'[asked[i].name].status # "NONE"]_accessVars
    BY RequestHolds
  <1> QED
    BY <1>1, Inductive, PTL DEF AccessSpec, RequestsDecidedOnce

LEMMA RoleHolds ==
    ASSUME IInv, [AccessNext]_accessVars, NEW c \in CustomRoles,
           role'[c].version # role[c].version
    PROVE  \E w \in Workers : task[w].step = "role" /\ task[w].code = c
                              /\ role'[c].permissions = task[w].chosen
  <1>1. AccessTypeOK /\ RoleRows /\ c \in RoleCodes
    BY DEF IInv, RoleCodes
  <1>2. role' # role
    OBVIOUS
  <1>3. AccessNext
    BY <1>2 DEF accessVars
  <1>4. ASSUME NEW n, NEW d, UpsertOnServer(n, d) PROVE FALSE
    BY <1>2, <1>4 DEF UpsertOnServer
  <1>5. ASSUME NEW actor, NEW d \in CustomRoles, NEW p, CreateRole(actor, d, p) PROVE FALSE
    <2>1. role' = [role EXCEPT ![d].status = "ACTIVE", ![d].permissions = p]
      BY <1>5 DEF CreateRole
    <2>2. role[c] \in Role /\ role \in [RoleCodes -> Role] /\ d \in RoleCodes
      BY <1>1 DEF AccessTypeOK, RoleCodes
    <2>3. role'[c].version = role[c].version
      BY <1>1, <2>1, <2>2 DEF Role
    <2> QED
      BY <2>3
  <1>6. PICK w \in Workers : WriteRole(w)
    BY <1>2, <1>3, <1>4, <1>5, Steps, AsksOnly, OtherOnly, DecidesOnly, PublicOnly
  <1> DEFINE d == task[w].code
  <1>7. EditOK(task[w]) /\ task[w].step = "role" /\ RoleClaimed(w)
    BY <1>1, <1>6 DEF WriteRole, RoleRows
  <1>8. d \in RoleCodes /\ task[w].chosen = (role[d].permissions \ task[w].removed) \cup task[w].added
    BY <1>7 DEF EditOK, RoleClaimed, RoleCodes
  <1>9. role' = [role EXCEPT ![d] =
                    [status |-> task[w].status, version |-> @.version + 1,
                     permissions |-> (@.permissions \ task[w].removed) \cup task[w].added]]
    BY <1>6 DEF WriteRole
  <1> HIDE DEF d
  <1>10. role'[d].permissions = task[w].chosen /\ (c # d => role'[c] = role[c])
    BY <1>1, <1>8, <1>9 DEF AccessTypeOK
  <1>11. d = c
    BY <1>10
  <1> QED
    BY <1>7, <1>10, <1>11 DEF d

(* However edits of a role interleave, its permissions are a set an editor   *)
(* chose as a whole (roles/route.ts:129).                                    *)
THEOREM RolesAreChosen == AccessSpec => RolesHoldWhatWasChosen
  <1>1. IInv /\ [AccessNext]_accessVars =>
            [\A c \in CustomRoles : role'[c].version # role[c].version =>
                \E w \in Workers : task[w].step = "role" /\ task[w].code = c
                                   /\ role'[c].permissions = task[w].chosen]_accessVars
    BY RoleHolds
  <1> QED
    BY <1>1, Inductive, PTL DEF AccessSpec, RolesHoldWhatWasChosen
=============================================================================
