------------------------------ MODULE GatewayAPI ------------------------------
(***************************************************************************)
(* The HTTP API of the gateway: authentication (gateway/handlers), the     *)
(* handlers (gateway/api) and the routes (gateway/gateway.go).  A handler  *)
(* unpacks the request, calls the operation of the same name of module     *)
(* GatewayOps and packs its answer.  Those that read return what the       *)
(* answer shows of the objects, those that write the plan of the           *)
(* operation.                                                              *)
(***************************************************************************)
EXTENDS GatewayOps

CONSTANT AdminToken     \* the configured token of the administrator, 0 when none

ASSUME AdminTokenAssumption == AdminToken \in Nat

(***************************************************************************)
(* Authentication.  A request carries "token" (an API token), "bearer" (a  *)
(* signed login, for a user) or "none".  API tokens, those of the users    *)
(* too, are looked at only when an administrator token is configured.      *)
(***************************************************************************)
contextOf(users) == {[user |-> u.id, admin |-> u.admin] : u \in users}

AuthHandler(d, tok, required) ==
    CASE tok.kind = "token" /\ AdminToken # 0 ->
            IF tok.value = AdminToken THEN {[user |-> 0, admin |-> TRUE]}
            ELSE contextOf(CS!usersByToken(d, tok.value))
      [] tok.kind = "bearer" -> contextOf(CS!UserHandler(d, ByID(tok.value)))
      [] OTHER -> IF required THEN {} ELSE {[user |-> 0, admin |-> FALSE]}

(***************************************************************************)
(* What the answers show.                                                  *)
(***************************************************************************)
createUserResponse(u) == [id |-> u.id, name |-> u.name]
createPrivateUserResponse(a) ==
    [id |-> a.user.id, name |-> a.user.name,
     tokens |-> {t.name : t \in a.tokens}, accounts |-> {la.id : la \in a.accounts}]
createOrgResponse(o) == [id |-> o.id, name |-> o.name, vis |-> o.vis]
createOrgMemberResponse(m) == [user |-> createUserResponse(m.user), role |-> m.role]
createUserOrgsResponse(o) == [org |-> createOrgResponse(o.org), role |-> o.role]
createProjectGroupResponse(g) ==
    [id |-> g.row.id, path |-> g.path, vis |-> g.row.vis, visible |-> g.visible]
createProjectResponse(p) ==
    [id |-> p.row.id, path |-> p.path, vis |-> p.row.vis, visible |-> p.visible]
createRemoteSourceResponse(rs) ==
    [id |-> rs.id, name |-> rs.name, auth |-> rs.auth, reg |-> rs.reg, login |-> rs.login]
createSecretResponse(d, s) == [id |-> s.id, name |-> s.name, parent |-> CS!GetPath(d, s.parent)]
createVariableResponse(d, v, secrets) ==
    [id |-> v.id, name |-> v.name, parent |-> CS!GetPath(d, v.parent),
     from |-> [i \in DOMAIN v.values |->
                 {s.parent : s \in GetVarValueMatchingSecret(d, v.values[i], v.parent, secrets)}]]

(* A list the caller pages through; a limit above the largest is lowered. *)
clampRuns(limit) == IF limit > MaxLimit THEN MaxLimit ELSE limit

(***************************************************************************)
(* Handlers that read.                                                     *)
(***************************************************************************)
OrgHandler(d, rq) == {createOrgResponse(o) : o \in GetOrg(d, rq.ref)}
OrgsHandler(d, rq) ==
    LET orgs == GetOrgs(d, rq.start, clampRuns(rq.limit), rq.asc)
    IN  [i \in DOMAIN orgs |-> createOrgResponse(orgs[i])]
OrgMembersHandler(d, rq) == {createOrgMemberResponse(m) : m \in GetOrgMembers(d, rq.ref)}
ProjectGroupHandler(d, rq) ==
    {createProjectGroupResponse(g) : g \in GetProjectGroup(d, rq.ref)}
ProjectGroupProjectsHandler(d, rq) ==
    {createProjectResponse(p) : p \in GetProjectGroupProjects(d, rq.ref)}
ProjectGroupSubgroupsHandler(d, rq) ==
    {createProjectGroupResponse(g) : g \in GetProjectGroupSubgroups(d, rq.ref)}
ProjectHandler(d, ctx, rq) == {createProjectResponse(p) : p \in GetProject(d, ctx, rq.ref)}
RemoteSourceHandler(d, rq) ==
    {createRemoteSourceResponse(rs) : rs \in GetRemoteSource(d, rq.ref)}
RemoteSourcesHandler(d, rq) ==
    LET rss == GetRemoteSources(d, rq.start, clampRuns(rq.limit), rq.asc)
    IN  [i \in DOMAIN rss |-> createRemoteSourceResponse(rss[i])]
SecretHandler(d, rq) ==
    Only({[i \in DOMAIN s |-> {createSecretResponse(d, x) : x \in s[i]}] :
            s \in {GetSecrets(d, rq.kind, rq.ref, rq.tree, rq.filter)}})
VariableHandler(d, rq) ==
    Only({[i \in DOMAIN v |-> {createVariableResponse(d, x, secrets) : x \in v[i]}] :
            v \in {GetVariables(d, rq.kind, rq.ref, rq.tree, rq.filter)},
            secrets \in {CS!SecretsHandler(d, rq.kind, rq.ref, TRUE)}})
CurrentUserHandler(d, ctx) ==
    IF IsUserLogged(ctx) THEN {createPrivateUserResponse(a) : a \in GetCurrentUser(d, ctx)}
    ELSE {}
UserHandler(d, ctx, rq) == {createUserResponse(u) : u \in GetUser(d, ctx, rq.ref)}
UsersHandler(d, ctx, rq) ==
    LET users == GetUsers(d, ctx, rq.start, clampRuns(rq.limit), rq.asc)
    IN  [i \in DOMAIN users |-> createUserResponse(users[i])]
UserOrgsHandler(d, ctx) ==
    IF IsUserLogged(ctx)
    THEN {createUserOrgsResponse(o) : o \in GetUserOrgs(d, ctx, ByID(CurrentUserID(ctx)))}
    ELSE {}

(***************************************************************************)
(* Handlers that write.                                                    *)
(***************************************************************************)
CreateOrgHandler(d, ctx, rq) ==
    CreateOrg(d, ctx, [name |-> rq.name, vis |-> rq.vis, creator |-> CurrentUserID(ctx)])
DeleteOrgHandler(d, ctx, rq) == DeleteOrg(d, ctx, rq.ref)
AddOrgMemberHandler(d, ctx, rq) == AddOrgMember(d, ctx, rq.ref, rq.user, rq.role)
RemoveOrgMemberHandler(d, ctx, rq) == RemoveOrgMember(d, ctx, rq.ref, rq.user)
CreateProjectGroupHandler(d, ctx, rq) ==
    IF ~IsUserLogged(ctx) THEN {}
    ELSE CreateProjectGroup(d, ctx, [name |-> rq.name, parent |-> rq.parent, vis |-> rq.vis,
                                     user |-> CurrentUserID(ctx)])
UpdateProjectGroupHandler(d, ctx, rq) == UpdateProjectGroup(d, ctx, rq.ref, rq)
DeleteProjectGroupHandler(d, ctx, rq) == DeleteProjectGroup(d, ctx, rq.ref)
CreateProjectHandler(d, ctx, rq) == CreateProject(d, ctx, rq)
UpdateProjectHandler(d, ctx, rq) == UpdateProject(d, ctx, rq.ref, rq)
ProjectReconfigHandler(d, ctx, rq) == ReconfigProject(d, ctx, rq.ref)
ProjectUpdateRepoLinkedAccountHandler(d, ctx, rq) ==
    ProjectUpdateRepoLinkedAccount(d, ctx, rq.ref)
DeleteProjectHandler(d, ctx, rq) == DeleteProject(d, ctx, rq.ref)
CreateSecretHandler(d, ctx, rq) ==
    CreateSecret(d, ctx, [name |-> rq.name, data |-> rq.data, kind |-> rq.kind,
                          parent |-> rq.parent])
UpdateSecretHandler(d, ctx, rq) ==
    UpdateSecret(d, ctx, rq.cur, [name |-> rq.name, data |-> rq.data, kind |-> rq.kind,
                                  parent |-> rq.parent])
DeleteSecretHandler(d, ctx, rq) == DeleteSecret(d, ctx, rq.kind, rq.parent, rq.cur)
CreateVariableHandler(d, ctx, rq) ==
    CreateVariable(d, ctx, [name |-> rq.name, values |-> rq.values, kind |-> rq.kind,
                            parent |-> rq.parent])
UpdateVariableHandler(d, ctx, rq) ==
    UpdateVariable(d, ctx, rq.cur, [name |-> rq.name, values |-> rq.values,
                                    kind |-> rq.kind, parent |-> rq.parent])
DeleteVariableHandler(d, ctx, rq) == DeleteVariable(d, ctx, rq.kind, rq.parent, rq.cur)
CreateRemoteSourceHandler(d, ctx, rq) == CreateRemoteSource(d, ctx, rq.rs)
UpdateRemoteSourceHandler(d, ctx, rq) == UpdateRemoteSource(d, ctx, rq.ref, rq.rs)
DeleteRemoteSourceHandler(d, ctx, rq) == DeleteRemoteSource(d, ctx, rq.ref)
CreateUserHandler(d, ctx, rq) == CreateUser(d, ctx, rq.name)
DeleteUserHandler(d, ctx, rq) == DeleteUser(d, ctx, rq.ref)
CreateUserTokenHandler(d, ctx, rq) == CreateUserToken(d, ctx, rq.ref, rq.name)
DeleteUserTokenHandler(d, ctx, rq) == DeleteUserToken(d, ctx, rq.ref, rq.name)
DeleteUserLAHandler(d, ctx, rq) == DeleteUserLA(d, ctx, rq.ref, rq.laid)
CreateUserLAHandler(d, ctx, rq) == HandleRemoteSourceAuth(d, ctx, rq)
RegisterUserHandler(d, ctx, rq) == HandleRemoteSourceAuth(d, ctx, rq)
LoginUserHandler(d, ctx, rq) == HandleRemoteSourceAuth(d, ctx, rq)
AuthorizeHandler(d, ctx, rq) == HandleRemoteSourceAuth(d, ctx, rq)
OAuth2CallbackHandler(d, rq) == HandleOauth2Callback(d, rq)

(* The repositories of the user at a remote source: nothing is written but *)
(* the refreshed token.                                                    *)
UserRemoteReposHandler(d, ctx, rq) ==
    LET rs == CS!RemoteSourceHandler(d, rq.ref)
    IN  IF ~IsUserLogged(ctx) \/ rs = {} THEN {}
        ELSE {[Plan("none", NoRef, NoRow) EXCEPT !.steps = <<"source">>, !.la = la] :
                 la \in linkedAccountsOf(d, CurrentUserID(ctx), Only(rs))}

(***************************************************************************)
(* The routes that change something: which need a login, and their         *)
(* handlers.                                                               *)
(***************************************************************************)
authForced(op) == op \notin {"RegisterUser", "LoginUser", "Authorize"}

Route(d, ctx, rq) ==
    CASE rq.op = "CreateOrg" -> CreateOrgHandler(d, ctx, rq)
      [] rq.op = "DeleteOrg" -> DeleteOrgHandler(d, ctx, rq)
      [] rq.op = "AddOrgMember" -> AddOrgMemberHandler(d, ctx, rq)
      [] rq.op = "RemoveOrgMember" -> RemoveOrgMemberHandler(d, ctx, rq)
      [] rq.op = "CreateProjectGroup" -> CreateProjectGroupHandler(d, ctx, rq)
      [] rq.op = "UpdateProjectGroup" -> UpdateProjectGroupHandler(d, ctx, rq)
      [] rq.op = "DeleteProjectGroup" -> DeleteProjectGroupHandler(d, ctx, rq)
      [] rq.op = "CreateProject" -> CreateProjectHandler(d, ctx, rq)
      [] rq.op = "UpdateProject" -> UpdateProjectHandler(d, ctx, rq)
      [] rq.op = "ReconfigProject" -> ProjectReconfigHandler(d, ctx, rq)
      [] rq.op = "UpdateRepoLinkedAccount" -> ProjectUpdateRepoLinkedAccountHandler(d, ctx, rq)
      [] rq.op = "DeleteProject" -> DeleteProjectHandler(d, ctx, rq)
      [] rq.op = "CreateSecret" -> CreateSecretHandler(d, ctx, rq)
      [] rq.op = "UpdateSecret" -> UpdateSecretHandler(d, ctx, rq)
      [] rq.op = "DeleteSecret" -> DeleteSecretHandler(d, ctx, rq)
      [] rq.op = "CreateVariable" -> CreateVariableHandler(d, ctx, rq)
      [] rq.op = "UpdateVariable" -> UpdateVariableHandler(d, ctx, rq)
      [] rq.op = "DeleteVariable" -> DeleteVariableHandler(d, ctx, rq)
      [] rq.op = "CreateRemoteSource" -> CreateRemoteSourceHandler(d, ctx, rq)
      [] rq.op = "UpdateRemoteSource" -> UpdateRemoteSourceHandler(d, ctx, rq)
      [] rq.op = "DeleteRemoteSource" -> DeleteRemoteSourceHandler(d, ctx, rq)
      [] rq.op = "CreateUser" -> CreateUserHandler(d, ctx, rq)
      [] rq.op = "DeleteUser" -> DeleteUserHandler(d, ctx, rq)
      [] rq.op = "CreateUserToken" -> CreateUserTokenHandler(d, ctx, rq)
      [] rq.op = "DeleteUserToken" -> DeleteUserTokenHandler(d, ctx, rq)
      [] rq.op = "DeleteUserLA" -> DeleteUserLAHandler(d, ctx, rq)
      [] rq.op = "CreateUserLA" -> CreateUserLAHandler(d, ctx, rq)
      [] rq.op = "RegisterUser" -> RegisterUserHandler(d, ctx, rq)
      [] rq.op = "LoginUser" -> LoginUserHandler(d, ctx, rq)
      [] rq.op = "Authorize" -> AuthorizeHandler(d, ctx, rq)
      [] rq.op = "RemoteRepos" -> UserRemoteReposHandler(d, ctx, rq)
=============================================================================
