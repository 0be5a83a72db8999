----------------------------- MODULE ConfigStore -----------------------------
(***************************************************************************)
(* The configstore's operations (internal/services/configstore/action) and *)
(* the handlers of its HTTP API (internal/services/configstore/api).  An   *)
(* operation is one transaction, a function from the database it starts    *)
(* with to the one it commits, or Refused when it returns an error.  The   *)
(* kind of the error is kept only where a caller looks at it.              *)
(***************************************************************************)
EXTENDS ConfigDB, TLC

CONSTANT MaxLimit      \* the largest page a list handler returns

Parent(kind, id) == [kind |-> kind, id |-> id]
IsRoot(g) == g.parent.kind # "projectgroup"
Visibilities == {"public", "private"}
Roles == {"owner", "member"}
ValidateName(n) == n \in ValidNames

(***************************************************************************)
(* Users, their tokens and their linked accounts.                          *)
(***************************************************************************)
rootGroup(d, kind, owner, vis) ==
    [id |-> d.next, name |-> "", parent |-> Parent(kind, owner), vis |-> vis]

(* rq.la is the linked account to create with the user, when registering. *)
CreateUser(d, rq) ==
    LET rs == GetRemoteSourceByName(d, rq.la.rsname)
        user == [id |-> d.next, name |-> rq.name, admin |-> FALSE]
        d1 == InsertUser(d, user)
        d2 == IF ~rq.haslinked THEN d1
              ELSE InsertLinkedAccount(d1,
                       [id |-> d1.next, user |-> user.id, rs |-> The(rs).id,
                        ruser |-> rq.la.ruser, token |-> rq.la.token])
    IN  IF /\ ValidateName(rq.name)
           /\ GetUserByName(d, rq.name) = {}
           /\ rq.haslinked =>
                /\ One(rs)
                /\ GetLinkedAccountByRemoteUserIDandSource(d, rq.la.ruser, The(rs).id) = {}
        THEN InsertProjectGroup(d2, rootGroup(d2, "user", user.id, "public"))
        ELSE Refused

(* Nothing that belongs to the user is deleted with it. *)
DeleteUser(d, ref) ==
    LET user == GetUser(d, ref)
    IN  IF One(user) THEN DeleteUserRow(d, The(user).id) ELSE Refused

(* The new name is not validated, and the user's own name is a duplicate. *)
UpdateUser(d, ref, name) ==
    LET user == GetUser(d, ref)
    IN  IF One(user) /\ (name # "" => GetUserByName(d, name) = {})
        THEN UpdateUserRow(d, IF name = "" THEN The(user)
                              ELSE [The(user) EXCEPT !.name = name])
        ELSE Refused

CreateUserLA_slip(d, rq) ==
    LET user == GetUser(d, rq.user)
        rs == GetRemoteSourceByName(d, rq.rsname)
    IN  IF One(user) /\ One(rs)
        THEN InsertLinkedAccount(d, [id |-> d.next, user |-> The(user).id,
                 rs |-> The(rs).id, ruser |-> rq.ruser, token |-> rq.token])
        ELSE Refused

CreateUserLA(d, rq) ==
    LET user == GetUser(d, rq.user)
        rs == GetRemoteSourceByName(d, rq.rsname)
    IN  IF /\ One(user) /\ One(rs)
           /\ GetLinkedAccountByRemoteUserIDandSource(d, rq.ruser, The(rs).id) = {}
        THEN InsertLinkedAccount(d, [id |-> d.next, user |-> The(user).id,
                 rs |-> The(rs).id, ruser |-> rq.ruser, token |-> rq.token])
        ELSE Refused

DeleteUserLA(d, ref, laid) ==
    LET user == GetUser(d, ref)
        la == GetLinkedAccount(d, laid)
    IN  IF One(user) /\ One(la) /\ The(la).user = The(user).id
        THEN DeleteLinkedAccountRow(d, laid) ELSE Refused

(* The linked account is changed in memory, and what is saved is the user. *)
UpdateUserLA(d, rq) ==
    LET user == GetUser(d, rq.user)
        la == GetLinkedAccount(d, rq.laid)
    IN  IF /\ One(user) /\ One(la) /\ The(la).user = The(user).id
           /\ One(GetRemoteSourceByID(d, The(la).rs))
        THEN UpdateUserRow(d, The(user)) ELSE Refused

CreateUserToken(d, ref, name) ==
    LET user == GetUser(d, ref)
    IN  IF One(user) /\ name # "" /\ GetUserToken(d, The(user).id, name) = {}
        THEN InsertUserToken(d, [id |-> d.next, user |-> The(user).id,
                                 name |-> name, value |-> d.next])
        ELSE Refused

DeleteUserToken(d, ref, name) ==
    LET user == GetUser(d, ref)
        token == GetUserToken(d, The(user).id, name)
    IN  IF One(user) /\ name # "" /\ One(token)
        THEN DeleteUserTokenRow(d, The(token).id) ELSE Refused

(***************************************************************************)
(* Organizations and their members.                                        *)
(***************************************************************************)
CreateOrg_slip(d, rq) ==
    LET org == [id |-> d.next, name |-> rq.name, vis |-> rq.vis]
        d1 == InsertOrganization(d, org)
        d2 == IF rq.creator = 0 THEN d1
              ELSE InsertOrganizationMember(d1, [id |-> d1.next, org |-> org.id,
                       user |-> rq.creator, role |-> "owner"])
    IN  IF /\ ValidateName(rq.name) /\ rq.vis \in Visibilities
           /\ rq.creator # 0 => One(GetUserByID(d, rq.creator))
        THEN InsertProjectGroup(d2, rootGroup(d2, "org", org.id, rq.vis))
        ELSE Refused

CreateOrg(d, rq) ==
    LET org == [id |-> d.next, name |-> rq.name, vis |-> rq.vis]
        d1 == InsertOrganization(d, org)
        d2 == IF rq.creator = 0 THEN d1
              ELSE InsertOrganizationMember(d1, [id |-> d1.next, org |-> org.id,
                       user |-> rq.creator, role |-> "owner"])
    IN  IF /\ ValidateName(rq.name) /\ rq.vis \in Visibilities
           /\ GetOrgByName(d, rq.name) = {}
           /\ rq.creator # 0 => One(GetUserByID(d, rq.creator))
        THEN InsertProjectGroup(d2, rootGroup(d2, "org", org.id, rq.vis))
        ELSE Refused

(* The reference is always taken for a name; the members, the groups and   *)
(* the projects of the org stay.                                           *)
DeleteOrg(d, ref) ==
    LET org == IF ref.by = "name" THEN GetOrgByName(d, ref.name) ELSE {}
    IN  IF One(org) THEN DeleteOrganizationRow(d, The(org).id) ELSE Refused

(* A member whose role changes is inserted, not updated. *)
AddOrgMember(d, oref, uref, role) ==
    LET org == GetOrg(d, oref)
        user == GetUser(d, uref)
        cur == GetOrgMemberByOrgUserID(d, The(org).id, The(user).id)
    IN  IF role \notin Roles \/ ~One(org) \/ ~One(user) THEN Refused
        ELSE IF cur = {} THEN
            InsertOrganizationMember(d, [id |-> d.next, org |-> The(org).id,
                                         user |-> The(user).id, role |-> role])
        ELSE IF ~One(cur) THEN Refused
        ELSE IF The(cur).role = role THEN d
        ELSE InsertOrganizationMember(d, [The(cur) EXCEPT !.role = role])

RemoveOrgMember(d, oref, uref) ==
    LET org == GetOrg(d, oref)
        user == GetUser(d, uref)
        cur == GetOrgMemberByOrgUserID(d, The(org).id, The(user).id)
    IN  IF One(org) /\ One(user) /\ One(cur)
        THEN DeleteOrganizationMemberRow(d, The(cur).id) ELSE Refused

(***************************************************************************)
(* Project groups.                                                         *)
(***************************************************************************)
ValidateProjectGroupReq(rq) ==
    /\ rq.kind \in {"projectgroup", "org", "user"}
    /\ IF rq.kind = "projectgroup" THEN ValidateName(rq.name) ELSE rq.name = ""
    /\ rq.vis \in Visibilities

CreateProjectGroup(d, rq) ==
    LET parent == GetProjectGroup(d, rq.parent)
    IN  IF /\ ValidateProjectGroupReq(rq) /\ rq.kind = "projectgroup"
           /\ One(parent) /\ GetProjectGroupPath(d, The(parent)) # <<>>
           /\ GetProjectGroupByName(d, The(parent).id, rq.name) = {}
        THEN InsertProjectGroup(d, [id |-> d.next, name |-> rq.name, vis |-> rq.vis,
                                    parent |-> Parent("projectgroup", The(parent).id)])
        ELSE Refused

(* The parent the request names, when it is one the group may get. *)
newGroupParents(d, group, rq) ==
    IF group.parent.kind # rq.kind THEN {}
    ELSE IF IsRoot(group) THEN {group.parent} \cap {Parent(rq.kind, rq.parent.id)}
    ELSE {Parent("projectgroup", g.id) : g \in GetProjectGroup(d, rq.parent)}

(* TRUE when a path lies strictly below another: strings.HasPrefix(p, q+"/") *)
isBelow(p, q) == IsStrictPrefix(q, p)

movesGroupOK_slip(d, group, name, parent, from, to) ==
    /\ from # <<>> /\ to # <<>>
    /\ group.name # name \/ group.parent.id # parent.id =>
         GetProjectGroupByName(d, parent.id, name) = {}

movesGroupOK(d, group, name, parent, from, to) ==
    /\ from # <<>> /\ to # <<>>
    /\ group.name # name \/ group.parent.id # parent.id =>
         /\ GetProjectGroupByName(d, parent.id, name) = {}
         /\ ~isBelow(to, from)

(* The group as the request wants it, when it may have it. *)
updatedGroups(d, group, rq) ==
    {[group EXCEPT !.name = rq.name, !.parent = parent, !.vis = rq.vis] :
        parent \in {p \in newGroupParents(d, group, rq) :
            \E from \in {join(GetPath(d, group.parent), group.name)},
               to \in {join(GetPath(d, p), rq.name)} :
                 movesGroupOK(d, group, rq.name, p, from, to)}}

UpdateProjectGroup(d, ref, rq) ==
    LET rows == UNION {updatedGroups(d, group, rq) : group \in GetProjectGroup(d, ref)}
    IN  The({IF ValidateProjectGroupReq(rq) /\ One(new) THEN UpdateProjectGroupRow(d, The(new))
             ELSE Refused : new \in {rows}})

(* The group's projects, subgroups, secrets and variables stay. *)
DeleteProjectGroup(d, ref) ==
    LET group == GetProjectGroup(d, ref)
    IN  IF One(group) /\ ~IsRoot(The(group))
        THEN DeleteProjectGroupRow(d, The(group).id) ELSE Refused

(***************************************************************************)
(* Projects.                                                               *)
(***************************************************************************)
ValidateProjectReq(rq) ==
    /\ ValidateName(rq.name) /\ rq.vis \in Visibilities
    /\ rq.rs # 0 /\ rq.la # 0 /\ rq.repo # ""

(* The linked account exists, so does its user, and it is of the project's *)
(* remote source.                                                          *)
projectLAOK(d, rq) ==
    LET la == GetLinkedAccount(d, rq.la)
    IN  One(la) /\ One(GetUserByID(d, The(la).user)) /\ The(la).rs = rq.rs

projectRow(id, rq, pid) ==
    [id |-> id, name |-> rq.name, vis |-> rq.vis,
     parent |-> Parent("projectgroup", pid), rs |-> rq.rs, la |-> rq.la,
     repo |-> rq.repo, key |-> rq.key, pass |-> rq.pass]

CreateProject(d, rq) ==
    LET group == GetProjectGroup(d, rq.parent)
    IN  IF /\ ValidateProjectReq(rq)
           /\ One(group) /\ GetProjectGroupPath(d, The(group)) # <<>>
           /\ GetProjectByName(d, The(group).id, rq.name) = {}
           /\ projectLAOK(d, rq)
        THEN InsertProject(d, projectRow(d.next, rq, The(group).id))
        ELSE Refused

UpdateProject(d, ref, rq) ==
    LET project == GetProject(d, ref)
        group == GetProjectGroup(d, rq.parent)
        moved == The(project).parent.id # The(group).id
    IN  IF /\ ValidateProjectReq(rq) /\ One(project)
           /\ One(group) /\ GetProjectGroupPath(d, The(group)) # <<>>
           /\ The(project).name # rq.name \/ moved =>
                 GetProjectByName(d, The(group).id, rq.name) = {}
           /\ moved => One(GetProjectGroupByID(d, The(project).parent.id))
           /\ projectLAOK(d, rq)
        THEN UpdateProjectRow(d, projectRow(The(project).id, rq, The(group).id))
        ELSE Refused

(* The project's secrets and variables stay. *)
DeleteProject(d, ref) ==
    LET project == GetProject(d, ref)
    IN  IF One(project) THEN DeleteProjectRow(d, The(project).id) ELSE Refused

(***************************************************************************)
(* Remote sources: found by their name only.                               *)
(***************************************************************************)
SourceSupportsAuthType(type, auth) ==
    auth = "oauth2" \/ (auth = "password" /\ type = "gitea")

(* rq.client is the oauth2 client, "" when its id or its secret is missing. *)
ValidateRemoteSourceReq(rq) ==
    /\ ValidateName(rq.name) /\ rq.type # "" /\ rq.auth # ""
    /\ SourceSupportsAuthType(rq.type, rq.auth)
    /\ rq.auth = "oauth2" => rq.client # ""

remoteSourceRow(id, rq) ==
    [id |-> id, name |-> rq.name, type |-> rq.type, auth |-> rq.auth, client |-> rq.client,
     reg |-> rq.reg, login |-> rq.login]

CreateRemoteSource(d, rq) ==
    IF ValidateRemoteSourceReq(rq) /\ GetRemoteSourceByName(d, rq.name) = {}
    THEN InsertRemoteSource(d, remoteSourceRow(d.next, rq))
    ELSE Refused

UpdateRemoteSource(d, ref, rq) ==
    LET rs == IF ref.by = "name" THEN GetRemoteSourceByName(d, ref.name) ELSE {}
    IN  IF /\ ValidateRemoteSourceReq(rq) /\ One(rs)
           /\ The(rs).name # rq.name => GetRemoteSourceByName(d, rq.name) = {}
        THEN UpdateRemoteSourceRow(d, remoteSourceRow(The(rs).id, rq))
        ELSE Refused

DeleteRemoteSource(d, ref) ==
    LET rs == IF ref.by = "name" THEN GetRemoteSourceByName(d, ref.name) ELSE {}
    IN  IF One(rs) THEN DeleteRemoteSourceRow(d, The(rs).id) ELSE Refused

(***************************************************************************)
(* Secrets and variables of projects and project groups.                   *)
(***************************************************************************)
(* The id of a project or a project group, 0 when there is none. *)
ResolveObjectID(d, kind, ref) ==
    LET rows == IF kind = "project" THEN GetProject(d, ref) ELSE GetProjectGroup(d, ref)
    IN  IF One(rows) THEN The(rows).id ELSE 0

(* A secret is a map of named values, a variable a list of places (a       *)
(* secret, one of its names and a condition on the run) to take it from.   *)
ValidateSecretReq(rq) ==
    /\ ValidateName(rq.name) /\ DOMAIN rq.data # {}
    /\ rq.kind \in {"project", "projectgroup"}
ValidateVariableReq(rq) ==
    /\ ValidateName(rq.name) /\ rq.values # <<>>
    /\ rq.kind \in {"project", "projectgroup"}

CreateSecret(d, rq) ==
    LET pid == ResolveObjectID(d, rq.kind, rq.parent)
    IN  IF ValidateSecretReq(rq) /\ pid # 0 /\ GetSecretByName(d, pid, rq.name) = {}
        THEN InsertSecret(d, [id |-> d.next, name |-> rq.name, data |-> rq.data,
                              parent |-> Parent(rq.kind, pid)])
        ELSE Refused

UpdateSecret(d, cur, rq) ==
    LET pid == ResolveObjectID(d, rq.kind, rq.parent)
        secret == GetSecretByName(d, pid, cur)
    IN  IF /\ ValidateSecretReq(rq) /\ pid # 0 /\ One(secret)
           /\ cur # rq.name => GetSecretByName(d, pid, rq.name) = {}
        THEN UpdateSecretRow(d, [The(secret) EXCEPT !.name = rq.name, !.data = rq.data])
        ELSE Refused

DeleteSecret(d, kind, ref, name) ==
    LET pid == ResolveObjectID(d, kind, ref)
        secret == GetSecretByName(d, pid, name)
    IN  IF pid # 0 /\ One(secret) THEN DeleteSecretRow(d, The(secret).id) ELSE Refused

CreateVariable(d, rq) ==
    LET pid == ResolveObjectID(d, rq.kind, rq.parent)
    IN  IF ValidateVariableReq(rq) /\ pid # 0 /\ GetVariableByName(d, pid, rq.name) = {}
        THEN InsertVariable(d, [id |-> d.next, name |-> rq.name, values |-> rq.values,
                                parent |-> Parent(rq.kind, pid)])
        ELSE Refused

UpdateVariable(d, cur, rq) ==
    LET pid == ResolveObjectID(d, rq.kind, rq.parent)
        variable == GetVariableByName(d, pid, cur)
    IN  IF /\ ValidateVariableReq(rq) /\ pid # 0 /\ One(variable)
           /\ cur # rq.name => GetVariableByName(d, pid, rq.name) = {}
        THEN UpdateVariableRow(d, [The(variable) EXCEPT !.name = rq.name, !.values = rq.values])
        ELSE Refused

DeleteVariable(d, kind, ref, name) ==
    LET pid == ResolveObjectID(d, kind, ref)
        variable == GetVariableByName(d, pid, name)
    IN  IF pid # 0 /\ One(variable) THEN DeleteVariableRow(d, The(variable).id) ELSE Refused
=============================================================================
