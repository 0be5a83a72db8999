------------------------------ MODULE ConfigAPI ------------------------------
(***************************************************************************)
(* The HTTP API of the configstore (internal/services/configstore/api and  *)
(* the reading operations of .../action), as its clients see it: for every *)
(* route the result of its handler on the database `d'.  A handler that    *)
(* reads returns the set of the objects of its answer, empty when it       *)
(* answers "not exist"; one that writes returns the database after its     *)
(* transaction, or Refused.  The handlers that answer with a project or a  *)
(* project group read its place in the tree in a SECOND transaction        *)
(* (projectResponse, projectGroupResponse): the object is already written  *)
(* and the answer may still be an error.                                   *)
(***************************************************************************)
EXTENDS ConfigStore

(***************************************************************************)
(* Users.                                                                  *)
(***************************************************************************)
UserHandler(d, ref) == GetUser(d, ref)
CreateUserHandler(d, rq) == CreateUser(d, rq)
UpdateUserHandler(d, ref, name) == UpdateUser(d, ref, name)
DeleteUserHandler(d, ref) == DeleteUser(d, ref)

(* The queries by token, linked account and remote user of the users route. *)
usersByToken(d, value) == GetUserByTokenValue(d, value)
usersByLinkedAccount(d, laid) == GetUserByLinkedAccount(d, laid)
usersByRemoteUser(d, ruser, rs) ==
    LET la == GetLinkedAccountByRemoteUserIDandSource(d, ruser, rs)
    IN  IF One(la) THEN GetUserByID(d, The(la).user) ELSE {}

clamp(limit) == IF limit > MaxLimit THEN MaxLimit ELSE limit

UsersHandler(d, start, limit, asc) == GetUsers(d, start, clamp(limit), asc)

UserLinkedAccountsHandler(d, ref) ==
    LET user == GetUser(d, ref)
    IN  IF One(user) THEN GetUserLinkedAccounts(d, The(user).id) ELSE {}
CreateUserLAHandler(d, ref, rq) == CreateUserLA(d, [user |-> ref] @@ rq)
UpdateUserLAHandler(d, ref, laid, rq) ==
    UpdateUserLA(d, [user |-> ref, laid |-> laid] @@ rq)
DeleteUserLAHandler(d, ref, laid) == DeleteUserLA(d, ref, laid)

UserTokensHandler(d, ref) ==
    LET user == GetUser(d, ref)
    IN  IF One(user) THEN GetUserTokens(d, The(user).id) ELSE {}
CreateUserTokenHandler(d, ref, name) == CreateUserToken(d, ref, name)
DeleteUserTokenHandler(d, ref, name) == DeleteUserToken(d, ref, name)

UserOrgsHandler(d, ref) ==
    LET user == GetUser(d, ref)
    IN  IF One(user) THEN GetUserOrgs(d, The(user).id) ELSE {}

(***************************************************************************)
(* Organizations.                                                          *)
(***************************************************************************)
OrgHandler(d, ref) == GetOrg(d, ref)
OrgsHandler(d, start, limit, asc) == GetOrgs(d, start, clamp(limit), asc)
CreateOrgHandler(d, rq) == CreateOrg(d, rq)
DeleteOrgHandler(d, ref) == DeleteOrg(d, ref)
AddOrgMemberHandler(d, oref, uref, role) == AddOrgMember(d, oref, uref, role)
RemoveOrgMemberHandler(d, oref, uref) == RemoveOrgMember(d, oref, uref)
OrgMembersHandler(d, ref) ==
    LET org == GetOrg(d, ref) IN IF One(org) THEN GetOrgUsers(d, The(org).id) ELSE {}

(***************************************************************************)
(* Project groups and projects.                                            *)
(***************************************************************************)
(* "private" when the object or anything above it is. *)
privateAmong(d, groups, owner) ==
    \/ \E i \in DOMAIN groups : groups[i].vis = "private"
    \/ \E o \in GetOrgByID(d, owner.id) : owner.kind = "org" /\ o.vis = "private"

privateAbove_slip(d, parent) ==
    \E g \in GetProjectGroupByID(d, parent.id) : g.vis = "private"

privateAbove(d, parent) ==
    IF parent.kind # "projectgroup" THEN privateAmong(d, <<>>, parent)
    ELSE \E groups \in {GetProjectGroupHierarchy(d, g) : g \in GetProjectGroupByID(d, parent.id)} :
            privateAmong(d, groups, ownerOf(groups))

getGlobalVisibility(d, vis, parent) ==
    IF vis = "private" \/ privateAbove(d, parent) THEN "private" ELSE "public"

(* The answer with an object: {} when its place in the tree is gone. *)
projectGroupResponse(d, g) ==
    {[row |-> g, owner |-> GetProjectGroupOwnerID(d, g),
      path |-> join(pp, g.name), parentpath |-> pp,
      visible |-> getGlobalVisibility(d, g.vis, g.parent)] :
        pp \in {GetPath(d, g.parent)} \ {<<>>}}

projectResponse(d, p) ==
    {[row |-> p, owner |-> GetProjectOwnerID(d, p),
      path |-> join(pp, p.name), parentpath |-> pp,
      visible |-> getGlobalVisibility(d, p.vis, p.parent)] :
        pp \in {GetPath(d, p.parent)} \ {<<>>}}

ProjectGroupHandler(d, ref) ==
    LET g == GetProjectGroup(d, ref)
    IN  IF One(g) THEN projectGroupResponse(d, The(g)) ELSE {}
ProjectGroupProjectsHandler(d, ref) ==
    LET g == GetProjectGroup(d, ref)
    IN  IF One(g) THEN UNION {projectResponse(d, p) :
                              p \in GetProjectGroupProjects(d, The(g).id)}
        ELSE {}
ProjectGroupSubgroupsHandler(d, ref) ==
    LET g == GetProjectGroup(d, ref)
    IN  IF One(g) THEN UNION {projectGroupResponse(d, s) :
                              s \in GetProjectGroupSubgroups(d, The(g).id)}
        ELSE {}
CreateProjectGroupHandler(d, rq) == CreateProjectGroup(d, rq)
UpdateProjectGroupHandler(d, ref, rq) == UpdateProjectGroup(d, ref, rq)
DeleteProjectGroupHandler(d, ref) == DeleteProjectGroup(d, ref)

ProjectHandler(d, ref) ==
    LET p == GetProject(d, ref) IN IF One(p) THEN projectResponse(d, The(p)) ELSE {}
CreateProjectHandler(d, rq) == CreateProject(d, rq)
UpdateProjectHandler(d, ref, rq) == UpdateProject(d, ref, rq)
DeleteProjectHandler(d, ref) == DeleteProject(d, ref)

(***************************************************************************)
(* Secrets and variables: a list is refused as a whole when the place of   *)
(* one of its objects is gone.                                             *)
(***************************************************************************)
placed(d, trees) ==
    The({IF \A i \in DOMAIN tree : \A o \in tree[i] : GetPath(d, o.parent) # <<>>
         THEN tree ELSE <<>> : tree \in trees})

SecretsHandler(d, kind, ref, tree) ==
    placed(d, {IF pid = 0 THEN <<>>
               ELSE IF tree THEN GetSecretsTree(d, Parent(kind, pid)) ELSE <<GetSecrets(d, pid)>> :
                 pid \in {ResolveObjectID(d, kind, ref)}})
CreateSecretHandler(d, rq) == CreateSecret(d, rq)
UpdateSecretHandler(d, cur, rq) == UpdateSecret(d, cur, rq)
DeleteSecretHandler(d, kind, ref, name) == DeleteSecret(d, kind, ref, name)

VariablesHandler(d, kind, ref, tree) ==
    placed(d, {IF pid = 0 THEN <<>>
               ELSE IF tree THEN GetVariablesTree(d, Parent(kind, pid))
                            ELSE <<GetVariables(d, pid)>> :
                 pid \in {ResolveObjectID(d, kind, ref)}})
CreateVariableHandler(d, rq) == CreateVariable(d, rq)
UpdateVariableHandler(d, cur, rq) == UpdateVariable(d, cur, rq)
DeleteVariableHandler(d, kind, ref, name) == DeleteVariable(d, kind, ref, name)

(***************************************************************************)
(* Remote sources.                                                         *)
(***************************************************************************)
RemoteSourceHandler(d, ref) == GetRemoteSource(d, ref)
RemoteSourcesHandler(d, start, limit, asc) == GetRemoteSources(d, start, clamp(limit), asc)
CreateRemoteSourceHandler(d, rq) == CreateRemoteSource(d, rq)
UpdateRemoteSourceHandler(d, ref, rq) == UpdateRemoteSource(d, ref, rq)
DeleteRemoteSourceHandler(d, ref) == DeleteRemoteSource(d, ref)
=============================================================================
