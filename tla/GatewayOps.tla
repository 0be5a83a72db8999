------------------------------ MODULE GatewayOps ------------------------------
(***************************************************************************)
(* The operations of the gateway (internal/services/gateway/action).  The  *)
(* gateway keeps no state: an operation first reads the configstore and    *)
(* decides whether the caller may go on, then makes the calls that change  *)
(* something.  What it decides is a PLAN, computed from the database `d'   *)
(* it read: the steps it still has to take and what it remembers for them. *)
(* An operation that refuses the request has no plan.  Between the reads   *)
(* and each of the steps other requests run (module Gateway).              *)
(*                                                                         *)
(* ctx is what the authentication put in the request's context: the user's *)
(* id (0 when there is none) and whether it is an administrator.           *)
(***************************************************************************)
EXTENDS Naturals, Sequences, FiniteSets, SequencesExt, TLC

CONSTANTS
    NameOrder,     \* the valid names, sorted
    MaxDepth,      \* bound of the walk up the project group tree
    MaxLimit       \* the largest page of a list

ASSUME NamesAssumption ==
    /\ NameOrder \in Seq(STRING) /\ IsInjective(NameOrder)
    /\ MaxDepth \in Nat /\ MaxLimit \in Nat

CS == INSTANCE ConfigAPI

ByID(id) == CS!ByID(id)
ByName(n) == CS!ByName(n)
ByPath(p) == CS!ByPath(p)
NoRef == CS!ByID(0)
Only(s) == CHOOSE x \in s : TRUE

(***************************************************************************)
(* Plans.  `steps' are the calls left: "call" is the configstore call      *)
(* named by `call' with its arguments, the others are calls to the git     *)
(* source for the project `row', with the linked account `la'.             *)
(***************************************************************************)
NoRow == [id |-> 0]

Plan(call, ref, rq) ==
    [steps |-> <<"call">>, call |-> call, ref |-> ref, rq |-> rq,
     row |-> NoRow, la |-> NoRow]

Do(ok, call, ref, rq) == IF ok THEN {Plan(call, ref, rq)} ELSE {}

SetupSteps == <<"source", "updatekey", "deletehook", "createhook">>
CleanupSteps == <<"source", "deletekey", "deletehook">>

(***************************************************************************)
(* Who may do what.                                                        *)
(***************************************************************************)
CurrentUserID(ctx) == ctx.user
IsUserLogged(ctx) == ctx.user # 0
IsUserAdmin(ctx) == ctx.admin
IsUserLoggedOrAdmin(ctx) == IsUserLogged(ctx) \/ IsUserAdmin(ctx)

IsOrgOwner(d, ctx, org) ==
    \/ IsUserAdmin(ctx)
    \/ /\ IsUserLogged(ctx)
       /\ \E o \in CS!UserOrgsHandler(d, ByID(CurrentUserID(ctx))) :
            o.org.id = org /\ o.role = "owner"

IsProjectOwner_slip(d, ctx, owner) ==
    \/ IsUserAdmin(ctx)
    \/ /\ IsUserLogged(ctx)
       /\ \/ owner.kind = "user" /\ owner.id = CurrentUserID(ctx)
          \/ /\ owner.kind = "org"
             /\ \E o \in CS!UserOrgsHandler(d, ByID(CurrentUserID(ctx))) :
                  o.org.id = owner.id

IsProjectOwner(d, ctx, owner) ==
    \/ IsUserAdmin(ctx)
    \/ /\ IsUserLogged(ctx)
       /\ \/ owner.kind = "user" /\ owner.id = CurrentUserID(ctx)
          \/ /\ owner.kind = "org"
             /\ \E o \in CS!UserOrgsHandler(d, ByID(CurrentUserID(ctx))) :
                  o.org.id = owner.id /\ o.role = "owner"

IsProjectMember(d, ctx, owner) ==
    \/ IsUserAdmin(ctx)
    \/ /\ IsUserLogged(ctx)
       /\ \/ owner.kind = "user" /\ owner.id = CurrentUserID(ctx)
          \/ /\ owner.kind = "org"
             /\ \E o \in CS!UserOrgsHandler(d, ByID(CurrentUserID(ctx))) :
                  o.org.id = owner.id

(* The object a reference stands for, when the caller owns it. *)
ownedOrg(d, ctx, ref) == {o \in CS!OrgHandler(d, ref) : IsOrgOwner(d, ctx, o.id)}
ownedGroup(d, ctx, ref) ==
    {g \in CS!ProjectGroupHandler(d, ref) : IsProjectOwner(d, ctx, g.owner)}
ownedProject(d, ctx, ref) ==
    {p \in CS!ProjectHandler(d, ref) : IsProjectOwner(d, ctx, p.owner)}

IsVariableOwner(d, ctx, kind, ref) ==
    IF kind = "project" THEN ownedProject(d, ctx, ref) # {} ELSE ownedGroup(d, ctx, ref) # {}

(* The id of the project or the user whose runs the caller may look at, or *)
(* act on: {} when it may not.  The runs of a user are private.            *)
CanGetRun(d, ctx, kind, ref) ==
    IF kind = "project"
    THEN {p.row.id : p \in {x \in CS!ProjectHandler(d, ref) :
                              x.visible = "public" \/ IsProjectMember(d, ctx, x.owner)}}
    ELSE {u.id : u \in {x \in CS!UserHandler(d, ref) :
                         IsProjectMember(d, ctx, CS!Parent("user", x.id))}}

CanDoRunActions(d, ctx, kind, ref) ==
    IF kind = "project" THEN {p.row.id : p \in ownedProject(d, ctx, ref)}
    ELSE {u.id : u \in {x \in CS!UserHandler(d, ref) :
                         IsProjectOwner(d, ctx, CS!Parent("user", x.id))}}

(***************************************************************************)
(* Organizations.                                                          *)
(***************************************************************************)
GetOrg(d, ref) == CS!OrgHandler(d, ref)
GetOrgs(d, start, limit, asc) == CS!OrgsHandler(d, start, limit, asc)
GetOrgMembers(d, ref) == IF CS!OrgHandler(d, ref) = {} THEN {} ELSE CS!OrgMembersHandler(d, ref)

CreateOrg(d, ctx, rq) ==
    Do(IsUserLoggedOrAdmin(ctx) /\ CS!ValidateName(rq.name), "CreateOrg", NoRef,
       [name |-> rq.name, vis |-> rq.vis, creator |-> rq.creator])

DeleteOrg(d, ctx, ref) ==
    Do(ownedOrg(d, ctx, ref) # {}, "DeleteOrg", ref, NoRow)

AddOrgMember(d, ctx, ref, user, role) ==
    Do(ownedOrg(d, ctx, ref) # {} /\ CS!UserHandler(d, user) # {},
       "AddOrgMember", ref, [user |-> user, role |-> role])

RemoveOrgMember(d, ctx, ref, user) ==
    Do(ownedOrg(d, ctx, ref) # {}, "RemoveOrgMember", ref, [user |-> user])

(***************************************************************************)
(* Project groups.                                                         *)
(***************************************************************************)
GetProjectGroup(d, ref) == CS!ProjectGroupHandler(d, ref)
GetProjectGroupSubgroups(d, ref) == CS!ProjectGroupSubgroupsHandler(d, ref)
GetProjectGroupProjects(d, ref) == CS!ProjectGroupProjectsHandler(d, ref)

(* The parent is read as the request gives it: the default that follows is *)
(* never reached with an empty one.                                        *)
CreateProjectGroup(d, ctx, rq) ==
    Do(/\ CS!ValidateName(rq.name) /\ ownedGroup(d, ctx, rq.parent) # {}
       /\ CS!UserHandler(d, ByID(rq.user)) # {},
       "CreateProjectGroup", NoRef,
       [name |-> rq.name, kind |-> "projectgroup", parent |-> rq.parent, vis |-> rq.vis])

(* A field the request leaves out keeps the value that was read. *)
UpdateProjectGroup(d, ctx, ref, rq) ==
    {Plan("UpdateProjectGroup", ByID(g.row.id),
          [name |-> IF rq.name = "" THEN g.row.name ELSE rq.name,
           kind |-> g.row.parent.kind,
           parent |-> IF rq.parent = NoRef THEN ByID(g.row.parent.id) ELSE rq.parent,
           vis |-> IF rq.vis = "" THEN g.row.vis ELSE rq.vis]) :
       g \in ownedGroup(d, ctx, ref)}

DeleteProjectGroup(d, ctx, ref) ==
    Do(ownedGroup(d, ctx, ref) # {}, "DeleteProjectGroup", ref, NoRow)

(***************************************************************************)
(* Projects.                                                               *)
(***************************************************************************)
GetProject(d, ctx, ref) ==
    {o \in CS!ProjectHandler(d, ref) :
        o.visible = "public" \/ IsProjectMember(d, ctx, o.owner)}

(* The user's linked accounts of a remote source: the code takes the first *)
(* of the list, whose order the configstore does not fix.                  *)
linkedAccountsOf(d, uid, rs) ==
    {[auth |-> rs.auth] @@ la :
        la \in {x \in CS!UserLinkedAccountsHandler(d, ByID(uid)) : x.rs = rs.id}}

(* The account that a project was set up with, if all of it is there. *)
getRemoteRepoAccessData(d, laid) ==
    {la \in UNION {linkedAccountsOf(d, u.id, rs) : u \in CS!usersByLinkedAccount(d, laid),
                                                  rs \in d.remotesource} : la.id = laid}

(* Where a project is to be created: the place, its path, its creator. *)
projectPlace(d, ctx, ref) ==
    UNION {{[parent |-> r, path |-> g.path, user |-> CurrentUserID(ctx)] :
              g \in ownedGroup(d, ctx, r)} :
        r \in {IF ref = NoRef THEN ByPath(<<"user", u.name>>) ELSE ref :
                 u \in CS!UserHandler(d, ByID(CurrentUserID(ctx)))}}

CreateProject(d, ctx, rq) ==
    UNION {{[Plan("CreateProject", NoRef,
                  [name |-> rq.name, vis |-> rq.vis, parent |-> at.parent, rs |-> la.rs,
                   la |-> la.id, repo |-> rq.repo, key |-> rq.name, pass |-> rq.pass])
             EXCEPT !.steps = <<"source", "repoinfo", "call">> \o SetupSteps, !.la = la] :
               la \in linkedAccountsOf(d, at.user, rs)} :
        at \in {x \in projectPlace(d, ctx, rq.parent) :
                 /\ CS!ValidateName(rq.name) /\ rq.rsname # "" /\ rq.repo # ""
                 /\ CS!ProjectHandler(d, ByPath(Append(x.path, rq.name))) = {}},
        rs \in CS!RemoteSourceHandler(d, ByName(rq.rsname))}

(* The configstore request that writes a project back as it was read. *)
asRead(row) ==
    [name |-> row.name, vis |-> row.vis, parent |-> ByID(row.parent.id), rs |-> row.rs,
     la |-> row.la, repo |-> row.repo, key |-> row.key, pass |-> row.pass]

UpdateProject(d, ctx, ref, rq) ==
    {Plan("UpdateProject", ByID(p.row.id),
          [asRead(p.row) EXCEPT
             !.name = IF rq.name = "" THEN @ ELSE rq.name,
             !.parent = IF rq.parent = NoRef THEN @ ELSE rq.parent,
             !.vis = IF rq.vis = "" THEN @ ELSE rq.vis,
             !.pass = IF rq.setpass THEN rq.pass ELSE @]) :
       p \in ownedProject(d, ctx, ref)}

ProjectUpdateRepoLinkedAccount(d, ctx, ref) ==
    UNION {{[Plan("UpdateProject", ByID(p.row.id), [asRead(p.row) EXCEPT !.la = la.id])
             EXCEPT !.steps = <<"source", "repoinfo", "call">>, !.row = p.row, !.la = la] :
               la \in linkedAccountsOf(d, u.id, rs)} :
        u \in CS!UserHandler(d, ByID(CurrentUserID(ctx))),
        p \in ownedProject(d, ctx, ref),
        rs \in {x \in d.remotesource : \E q \in CS!GetProject(d, ref) : q.rs = x.id}}

ReconfigProject(d, ctx, ref) ==
    UNION {{[Plan("none", ref, NoRow) EXCEPT !.steps = SetupSteps, !.row = p.row, !.la = la] :
              la \in getRemoteRepoAccessData(d, p.row.la)} : p \in ownedProject(d, ctx, ref)}

(* The project is checked through the reference and deleted through it     *)
(* again; what is cleaned up is the project that was checked, if the       *)
(* account it was set up with is still there.                              *)
DeleteProject(d, ctx, ref) ==
    UNION {{[Plan("DeleteProject", ref, NoRow)
             EXCEPT !.steps = IF la = NoRow THEN @ ELSE @ \o CleanupSteps,
                    !.row = p.row, !.la = la] :
               la \in IF getRemoteRepoAccessData(d, p.row.la) = {} THEN {NoRow}
                      ELSE getRemoteRepoAccessData(d, p.row.la)} :
        p \in ownedProject(d, ctx, ref)}

(***************************************************************************)
(* Secrets and variables.                                                  *)
(***************************************************************************)
(* Lists come nearest first; the first object of a name hides the others.  *)
FilterOverridden_slip(tree) ==
    [i \in DOMAIN tree |->
        {o \in tree[i] : \A j \in i + 1 .. Len(tree) : \A x \in tree[j] : x.name # o.name}]

FilterOverridden(tree) ==
    [i \in DOMAIN tree |->
        {o \in tree[i] : \A j \in 1 .. i - 1 : \A x \in tree[j] : x.name # o.name}]
FilterOverriddenSecrets(tree) == FilterOverridden(tree)
FilterOverriddenVariables(tree) == FilterOverridden(tree)

GetSecrets(d, kind, ref, tree, filter) ==
    Only({IF filter THEN FilterOverriddenSecrets(s) ELSE s :
            s \in {CS!SecretsHandler(d, kind, ref, tree)}})
GetVariables(d, kind, ref, tree, filter) ==
    Only({IF filter THEN FilterOverriddenVariables(v) ELSE v :
            v \in {CS!VariablesHandler(d, kind, ref, tree)}})

(* The code looks for the parent anywhere in the path, not at its start.   *)
IsParentPath(parent, p) ==
    \E i \in 1 .. Len(p) - Len(parent) : SubSeq(p, i, i + Len(parent) - 1) = parent
IsSameOrParentPath(parent, p) == parent = p \/ IsParentPath(parent, p)

(* The first secret of the list with the name whose parent is the          *)
(* variable's or above it; {} when there is none.                          *)
GetVarValueMatchingSecret(d, value, varparent, secrets) ==
    LET ok(s) == /\ s.name = value.sname
                 /\ IsSameOrParentPath(CS!GetPath(d, s.parent), CS!GetPath(d, varparent))
    IN  UNION {{s \in secrets[i] : ok(s) /\ \A j \in 1 .. i - 1 : \A x \in secrets[j] : ~ok(x)} :
                 i \in DOMAIN secrets}

CreateSecret(d, ctx, rq) ==
    Do(IsVariableOwner(d, ctx, rq.kind, rq.parent) /\ CS!ValidateName(rq.name),
       "CreateSecret", NoRef, rq)
UpdateSecret(d, ctx, cur, rq) ==
    Do(IsVariableOwner(d, ctx, rq.kind, rq.parent) /\ CS!ValidateName(rq.name),
       "UpdateSecret", ByName(cur), rq)
DeleteSecret(d, ctx, kind, ref, name) ==
    Do(IsVariableOwner(d, ctx, kind, ref), "DeleteSecret", ref,
       [kind |-> kind, name |-> name])

(* The secrets are read for the answer: the request fails without them. *)
CreateVariable(d, ctx, rq) ==
    Do(/\ IsVariableOwner(d, ctx, rq.kind, rq.parent)
       /\ CS!ValidateName(rq.name) /\ rq.values # <<>>
       /\ CS!SecretsHandler(d, rq.kind, rq.parent, TRUE) # <<>>,
       "CreateVariable", NoRef, rq)
UpdateVariable(d, ctx, cur, rq) ==
    Do(/\ IsVariableOwner(d, ctx, rq.kind, rq.parent)
       /\ CS!ValidateName(rq.name) /\ rq.values # <<>>
       /\ CS!SecretsHandler(d, rq.kind, rq.parent, TRUE) # <<>>,
       "UpdateVariable", ByName(cur), rq)
DeleteVariable(d, ctx, kind, ref, name) ==
    Do(IsVariableOwner(d, ctx, kind, ref), "DeleteVariable", ref,
       [kind |-> kind, name |-> name])

(***************************************************************************)
(* Remote sources.                                                         *)
(***************************************************************************)
GetRemoteSource(d, ref) == CS!RemoteSourceHandler(d, ref)
GetRemoteSources(d, start, limit, asc) == CS!RemoteSourcesHandler(d, start, limit, asc)

CreateRemoteSource(d, ctx, rq) ==
    Do(IsUserAdmin(ctx) /\ CS!ValidateRemoteSourceReq(rq), "CreateRemoteSource", NoRef, rq)

(* What the request leaves out keeps the value that was read. *)
UpdateRemoteSource(d, ctx, ref, rq) ==
    {Plan("UpdateRemoteSource", ref,
          [name |-> IF rq.name = "" THEN rs.name ELSE rq.name, type |-> rs.type,
           auth |-> rs.auth, client |-> IF rq.client = "" THEN rs.client ELSE rq.client,
           reg |-> IF "reg" \in rq.set THEN rq.reg ELSE rs.reg,
           login |-> IF "login" \in rq.set THEN rq.login ELSE rs.login]) :
       rs \in {x \in CS!RemoteSourceHandler(d, ref) : IsUserAdmin(ctx)}}

DeleteRemoteSource(d, ctx, ref) ==
    Do(IsUserAdmin(ctx), "DeleteRemoteSource", ref, NoRow)

(***************************************************************************)
(* Users.                                                                  *)
(***************************************************************************)
GetCurrentUser(d, ctx) ==
    {[user |-> u, tokens |-> CS!UserTokensHandler(d, ByID(u.id)),
      accounts |-> CS!UserLinkedAccountsHandler(d, ByID(u.id))] :
        u \in {x \in CS!UserHandler(d, ByID(CurrentUserID(ctx))) : IsUserLoggedOrAdmin(ctx)}}
GetUser(d, ctx, ref) == IF IsUserLoggedOrAdmin(ctx) THEN CS!UserHandler(d, ref) ELSE {}
GetUserOrgs(d, ctx, ref) == IF IsUserLogged(ctx) THEN CS!UserOrgsHandler(d, ref) ELSE {}
GetUsers(d, ctx, start, limit, asc) ==
    IF IsUserAdmin(ctx) THEN CS!UsersHandler(d, start, limit, asc) ELSE <<>>

NoLA == [rsname |-> "", ruser |-> "", token |-> 0]

CreateUser(d, ctx, name) ==
    Do(IsUserAdmin(ctx) /\ CS!ValidateName(name), "CreateUser", NoRef,
       [name |-> name, haslinked |-> FALSE, la |-> NoLA])
DeleteUser(d, ctx, ref) == Do(IsUserAdmin(ctx), "DeleteUser", ref, NoRow)

(* Only the user itself or an administrator. *)
selfOrAdmin(d, ctx, ref) ==
    LET user == CS!UserHandler(d, ref)
    IN  user # {} /\ (IsUserAdmin(ctx) \/ Only(user).id = CurrentUserID(ctx))

CreateUserToken(d, ctx, ref, name) ==
    Do(/\ selfOrAdmin(d, ctx, ref)
       /\ \A t \in CS!UserTokensHandler(d, ref) : t.name # name,
       "CreateUserToken", ref, [name |-> name])
DeleteUserToken(d, ctx, ref, name) ==
    Do(IsUserLoggedOrAdmin(ctx) /\ selfOrAdmin(d, ctx, ref), "DeleteUserToken", ref,
       [name |-> name])
DeleteUserLA(d, ctx, ref, laid) ==
    Do(IsUserLoggedOrAdmin(ctx) /\ selfOrAdmin(d, ctx, ref), "DeleteUserLA", ref,
       [laid |-> laid])

(***************************************************************************)
(* What follows a successful authentication at a remote source, which      *)
(* answers who the remote user is (rq.ruser, external) and with which      *)
(* token it may be called (rq.token).                                      *)
(***************************************************************************)
CreateUserLA(d, rq) ==
    LET rs == CS!RemoteSourceHandler(d, ByName(rq.rsname))
    IN  Do(/\ rs # {} /\ rq.ruser # ""
           /\ \A la \in CS!UserLinkedAccountsHandler(d, rq.user) : la.rs # Only(rs).id,
           "CreateUserLA", rq.user,
           [rsname |-> rq.rsname, ruser |-> rq.ruser, token |-> rq.token])

RegisterUser(d, rq) ==
    LET rs == CS!RemoteSourceHandler(d, ByName(rq.rsname))
    IN  Do(/\ CS!ValidateName(rq.name) /\ rs # {} /\ Only(rs).reg /\ rq.ruser # "",
           "CreateUser", NoRef,
           [name |-> rq.name, haslinked |-> TRUE,
            la |-> [rsname |-> rq.rsname, ruser |-> rq.ruser, token |-> rq.token]])

(* The tokens the remote source gave are saved when they are new. *)
LoginUser(d, rq) ==
    LET rs == CS!RemoteSourceHandler(d, ByName(rq.rsname))
        user == CS!usersByRemoteUser(d, rq.ruser, Only(rs).id)
    IN  IF rs = {} THEN {}
        ELSE IF ~Only(rs).login \/ rq.ruser = "" \/ user = {} THEN {}
        ELSE {IF la.token = rq.token
              THEN [Plan("none", NoRef, NoRow) EXCEPT !.steps = <<>>]
              ELSE Plan("UpdateUserLA", ByName(Only(user).name),
                        [laid |-> la.id, ruser |-> la.ruser, token |-> rq.token]) :
                la \in linkedAccountsOf(d, Only(user).id, Only(rs))}

Authorize(d, rq) ==
    IF CS!RemoteSourceHandler(d, ByName(rq.rsname)) # {} /\ rq.ruser # ""
    THEN {[Plan("none", NoRef, NoRow) EXCEPT !.steps = <<>>]} ELSE {}

HandleRemoteSourceAuthRequest(d, rq) ==
    CASE rq.op = "CreateUserLA" -> CreateUserLA(d, rq)
      [] rq.op = "RegisterUser" -> RegisterUser(d, rq)
      [] rq.op = "LoginUser" -> LoginUser(d, rq)
      [] rq.op = "Authorize" -> Authorize(d, rq)

(* With a password the remote source is asked at once, with oauth2 the     *)
(* user is sent there and the request, signed, comes back with it: the     *)
(* checks below are made before, those of the operation after.             *)
HandleRemoteSourceAuth(d, ctx, rq) ==
    LET rs == CS!RemoteSourceHandler(d, ByName(rq.rsname))
        user == CS!UserHandler(d, rq.user)
    IN  IF \/ rs = {}
           \/ /\ rq.op = "CreateUserLA"
              /\ \/ user = {}
                 \/ Only(user).id # CurrentUserID(ctx)
                 \/ linkedAccountsOf(d, Only(user).id, Only(rs)) # {}
        THEN {}
        ELSE IF Only(rs).auth = "password" THEN HandleRemoteSourceAuthRequest(d, rq)
        ELSE {[Plan("none", NoRef, rq) EXCEPT !.steps = <<"callback">>]}

HandleOauth2Callback(d, rq) ==
    IF CS!RemoteSourceHandler(d, ByName(rq.rsname)) = {} THEN {}
    ELSE HandleRemoteSourceAuthRequest(d, rq)
=============================================================================
