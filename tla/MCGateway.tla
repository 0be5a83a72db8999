------------------------------ MODULE MCGateway ------------------------------
(***************************************************************************)
(* Instances of Gateway for TLC.  The initial databases are what the       *)
(* configstore's own operations make; the requests of a scenario are       *)
(* chosen so that any few of them get in each other's way.                 *)
(***************************************************************************)
EXTENDS Gateway

CONSTANTS c1, c2
Sessions == {c1, c2}
Sessions_symmetry == Permutations(Sessions)

Names == <<"g", "h", "o", "p", "q", "r", "s", "u", "v", "w", "x">>

(* Remote source r (1); users u (2, account 3, root group 4) and w (5, 6,  *)
(* 7); org o (8, its root group 10) with owner u (9) and member w (11).    *)
oauth2 == [name |-> "r", type |-> "gitea", auth |-> "oauth2", client |-> "id",
           reg |-> TRUE, login |-> TRUE]
account(ruser) == [rsname |-> "r", ruser |-> ruser, token |-> 1]
newUser(name) == [name |-> name, haslinked |-> TRUE, la |-> account(name)]
base(rs) ==
    <<Plan("CreateRemoteSource", NoRef, rs),
      Plan("CreateUser", NoRef, newUser("u")),
      Plan("CreateUser", NoRef, newUser("w")),
      Plan("CreateOrg", NoRef, [name |-> "o", vis |-> "public", creator |-> 2]),
      Plan("AddOrgMember", ByName("o"), [user |-> ByName("w"), role |-> "member"])>>

(* Groups g (12) in a root group and h (13) in g, project p (14) in h,     *)
(* secrets s in g (15) and in p (16), variables v in g (17) and h (18).    *)
uroot == <<"user", "u">>
oroot == <<"org", "o">>
at(root, names) == ByPath(root \o names)
group(name, parent, vis) ==
    [name |-> name, kind |-> "projectgroup", parent |-> parent, vis |-> vis]
project(name, parent) ==
    [name |-> name, vis |-> "public", parent |-> parent, rs |-> 1, la |-> 3, repo |-> "repo",
     key |-> name, pass |-> FALSE]
secret(name, kind, parent) ==
    [name |-> name, data |-> ("k" :> "secret"), kind |-> kind, parent |-> parent]
variable(name, kind, parent) ==
    [name |-> name, values |-> <<[sname |-> "s", svar |-> "k", when |-> ""]>>, kind |-> kind,
     parent |-> parent]
tree(root, vis) ==
    <<Plan("CreateProjectGroup", NoRef, group("g", at(root, <<>>), vis)),
      Plan("CreateProjectGroup", NoRef, group("h", at(root, <<"g">>), "public")),
      Plan("CreateProject", NoRef, project("p", at(root, <<"g", "h">>))),
      Plan("CreateSecret", NoRef, secret("s", "projectgroup", at(root, <<"g">>))),
      Plan("CreateSecret", NoRef, secret("s", "project", ByID(14))),
      Plan("CreateVariable", NoRef, variable("v", "projectgroup", at(root, <<"g">>))),
      Plan("CreateVariable", NoRef, variable("v", "projectgroup", at(root, <<"g", "h">>)))>>

u == [kind |-> "bearer", value |-> 2]
w == [kind |-> "bearer", value |-> 5]
admin == [kind |-> "token", value |-> AdminToken]
nobody == [kind |-> "none", value |-> 0]

req(tok, op, args) == [tok |-> tok, op |-> op] @@ args
ref(r) == [ref |-> r]
updGroup(r, name, parent) == [ref |-> r, name |-> name, parent |-> parent, vis |-> ""]
updProject(r, name, parent) ==
    [ref |-> r, name |-> name, parent |-> parent, vis |-> "", setpass |-> FALSE, pass |-> FALSE]
newProject(name, parent) ==
    [name |-> name, parent |-> parent, vis |-> "public", rsname |-> "r", repo |-> "repo",
     pass |-> FALSE]

TreeRequests ==
    {req(u, "UpdateProjectGroup", updGroup(at(uroot, <<"g">>), "", at(uroot, <<"g", "h">>))),
     req(u, "UpdateProjectGroup", updGroup(at(uroot, <<"g", "h">>), "", at(uroot, <<>>))),
     req(u, "UpdateProjectGroup", updGroup(at(uroot, <<"h">>), "g", NoRef)),
     req(u, "CreateProjectGroup", [name |-> "p", parent |-> at(uroot, <<"g", "h">>),
                                   vis |-> "public"]),
     req(u, "DeleteProjectGroup", ref(at(uroot, <<"g", "h">>))),
     req(u, "UpdateProject", updProject(at(uroot, <<"g", "h", "p">>), "", at(uroot, <<"g">>))),
     req(w, "DeleteProject", ref(at(uroot, <<"g", "h", "p">>))),
     req(u, "CreateSecret", secret("s", "projectgroup", at(uroot, <<>>))),
     req(u, "UpdateSecret", [cur |-> "s"] @@ secret("x", "project", ByID(14))),
     req(u, "DeleteSecret", [cur |-> "s", kind |-> "projectgroup", parent |-> ByID(12)]),
     req(u, "CreateVariable", variable("v", "project", at(uroot, <<"g", "h", "p">>))),
     req(u, "UpdateVariable", [cur |-> "v"] @@ variable("x", "projectgroup", at(uroot, <<"g">>))),
     req(u, "DeleteVariable", [cur |-> "v", kind |-> "projectgroup", parent |-> ByID(13)])}

OrgRequests ==
    {req(w, "UpdateProject", updProject(at(oroot, <<"g", "h", "p">>), "q", NoRef)),
     req(u, "UpdateProject", updProject(ByID(14), "", at(uroot, <<>>))),
     req(w, "UpdateProjectGroup", updGroup(ByID(12), "x", NoRef)),
     req(w, "DeleteVariable", [cur |-> "v", kind |-> "projectgroup", parent |-> ByID(13)]),
     req(u, "AddOrgMember", [ref |-> ByName("o"), user |-> ByName("w"), role |-> "owner"]),
     req(u, "AddOrgMember", [ref |-> ByName("o"), user |-> ByName("w"), role |-> "member"]),
     req(u, "RemoveOrgMember", [ref |-> ByName("o"), user |-> ByName("w")]),
     req(u, "RemoveOrgMember", [ref |-> ByName("o"), user |-> ByName("u")]),
     req(u, "DeleteOrg", ref(ByName("o"))),
     req(w, "CreateOrg", [name |-> "o", vis |-> "private"]),
     req(w, "CreateOrg", [name |-> "x", vis |-> "public"]),
     req(admin, "DeleteOrg", ref(ByName("x"))),
     req(w, "CreateProject", newProject("p", at(oroot, <<>>)))}

remoteAuth(rs, ruser, name, user, token) ==
    [rsname |-> rs, ruser |-> ruser, name |-> name, user |-> user, token |-> token]
rsUpdate(name, set, login) ==
    [name |-> name, client |-> "", set |-> set, reg |-> FALSE, login |-> login]

AccountRequests ==
    {req(nobody, "RegisterUser", remoteAuth("r", "x", "x", NoRef, 1)),
     req(nobody, "RegisterUser", remoteAuth("r", "w", "x", NoRef, 1)),
     req(nobody, "LoginUser", remoteAuth("r", "w", "", NoRef, 2)),
     req(nobody, "Authorize", remoteAuth("r", "w", "", NoRef, 1)),
     req(w, "CreateUserLA", remoteAuth("r", "x", "", ByID(5), 1)),
     req(w, "CreateUserLA", remoteAuth("r", "w", "", ByID(5), 1)),
     req(w, "DeleteUserLA", [ref |-> ByID(5), laid |-> 6]),
     req(w, "CreateUserToken", [ref |-> ByName("w"), name |-> "x"]),
     req([kind |-> "token", value |-> 12], "CreateUserToken", [ref |-> ByID(5), name |-> "v"]),
     req(w, "DeleteUserToken", [ref |-> ByID(5), name |-> "x"]),
     req(admin, "DeleteUser", ref(ByName("w"))),
     req(admin, "CreateUser", [name |-> "w"]),
     req(admin, "CreateRemoteSource", [rs |-> [oauth2 EXCEPT !.name = "q"]]),
     req(admin, "UpdateRemoteSource", [ref |-> ByName("r"), rs |-> rsUpdate("q", {}, FALSE)]),
     req(admin, "UpdateRemoteSource", [ref |-> ByName("r"), rs |-> rsUpdate("", {"reg"}, FALSE)]),
     req(admin, "DeleteRemoteSource", ref(ByName("r")))}

GitRequests ==
    {req(u, "CreateProject", newProject("q", NoRef)),
     req(u, "CreateProject", newProject("p", at(uroot, <<"g", "h">>))),
     req(u, "ReconfigProject", ref(ByID(14))),
     req(u, "UpdateProject", updProject(ByID(14), "q", NoRef)),
     req(u, "UpdateRepoLinkedAccount", ref(at(uroot, <<"g", "h", "p">>))),
     req(u, "DeleteProject", ref(at(uroot, <<"g", "h", "p">>))),
     req(u, "DeleteProject", ref(at(uroot, <<"q">>))),
     req(u, "DeleteUserLA", [ref |-> ByID(2), laid |-> 3])}

TokenRequests == {req(u, "RemoteRepos", ref(ByName("r"))), req(u, "ReconfigProject", ref(ByID(14)))}

password == [oauth2 EXCEPT !.auth = "password"]

Situations ==
    <<[calls |-> base(oauth2) \o tree(uroot, "public"), requests |-> TreeRequests],
      [calls |-> base(oauth2) \o tree(oroot, "private"), requests |-> OrgRequests],
      [calls |-> base(oauth2), requests |-> AccountRequests],
      [calls |-> base(password), requests |-> AccountRequests],
      [calls |-> base(password) \o tree(uroot, "public"), requests |-> GitRequests],
      [calls |-> base(oauth2) \o tree(uroot, "public"), requests |-> TokenRequests]>>

Work == [i \in DOMAIN Situations |->
            [db |-> FoldLeft(apply, CS!EmptyDB, Situations[i].calls),
             requests |-> Situations[i].requests]]
=============================================================================
