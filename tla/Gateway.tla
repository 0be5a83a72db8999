------------------------------- MODULE Gateway -------------------------------
(***************************************************************************)
(* The gateway and the configstore at work: clients send requests, the     *)
(* gateway serves each in a session of its own, and the steps of the       *)
(* sessions interleave.  A session reads the configstore and decides       *)
(* (Arrive), then takes the steps of its plan one at a time: configstore   *)
(* calls, each a transaction, and calls to the git source that holds the   *)
(* projects' deploy keys and webhooks.  Any call may fail, the answer of a *)
(* configstore call may be lost after its commit, and the gateway may      *)
(* crash between two steps.                                                *)
(***************************************************************************)
EXTENDS GatewayAPI

CONSTANTS
    Clients,       \* sessions that may run at the same time
    Scenarios,     \* initial databases, each with the requests made on it
    MaxRequests,   \* bound on the number of requests
    MaxFaults,     \* bound on failed calls, lost answers and crashes
    MaxTokens      \* bound on the oauth2 tokens given out

ASSUME BoundsAssumption ==
    MaxRequests \in Nat /\ MaxFaults \in Nat /\ MaxTokens \in Nat

(***************************************************************************)
(* What the configstore's tables are taken to be when the requests begin:  *)
(* every id in a row was given out, and the rows of a table differ in      *)
(* their ids and in what the queries look them up by.  A query by name     *)
(* compares the id of the parent alone.                                    *)
(***************************************************************************)
RowOK(n, k, o) ==
    /\ o.id \in Nat /\ o.id < n
    /\ k \in {"projectgroup", "secret", "variable"} => {"id", "name", "parent"} \subseteq DOMAIN o
    /\ k = "projectgroup" => o.parent.id \in Nat /\ o.parent.id < n
    /\ k = "orgmember" => "id" \in DOMAIN o /\ o.org \in Nat /\ o.org < n

SameKey(k, a, b) ==
    \/ a.id = b.id
    \/ k \in {"user", "org", "remotesource"} /\ a.name = b.name
    \/ /\ k \in {"projectgroup", "project", "secret", "variable"}
       /\ a.name = b.name /\ a.parent.id = b.parent.id
    \/ k = "linkedaccount" /\ a.rs = b.rs /\ a.ruser = b.ruser
    \/ k = "usertoken" /\ a.user = b.user /\ a.name = b.name
    \/ k = "orgmember" /\ a.org = b.org /\ a.user = b.user

TableOK(n, k, rows) ==
    /\ \A o \in rows : RowOK(n, k, o)
    /\ \A a, b \in rows : SameKey(k, a, b) => a = b

DatabaseOK(d) ==
    /\ DOMAIN d = CS!Kinds \cup {"next"} /\ d.next \in Nat
    /\ \A k \in CS!Kinds : TableOK(d.next, k, d[k])

ASSUME ScenariosAssumption == \A i \in DOMAIN Scenarios : DatabaseOK(Scenarios[i].db)

VARIABLES
    scene,         \* the scenario
    db,            \* the configstore's database
    hooks,         \* webhooks at the git source: [proj, n]
    keys,          \* deploy keys at the git source: [proj, key]
    tokens,        \* the newest oauth2 token given out by the git source
    expired,       \* the oauth2 tokens whose expiry has passed
    s,             \* the sessions
    dirty,         \* history: projects with a cut short or overlapped setup
    left, faults   \* counters for the bounds

vars == <<scene, db, hooks, keys, tokens, expired, s, dirty, left, faults>>

Idle == [on |-> FALSE]

(***************************************************************************)
(* History kept with a session: what its caller may act on when the        *)
(* gateway decides, as paths of users and orgs and as ids of objects.      *)
(***************************************************************************)
ownedRoots(d, ctx) ==
    {<<"user", u.name>> : u \in {x \in d.user : ctx.admin \/ x.id = ctx.user}}
    \cup {<<"org", o.name>> : o \in {x \in d.org : \/ ctx.admin
            \/ \E m \in d.orgmember : /\ m.org = x.id /\ m.user = ctx.user
                                      /\ m.role = "owner"}}

placeOf(k, o) == IF k \in {"secret", "variable"} THEN o.parent
                 ELSE [kind |-> k, id |-> o.id]
rootOf(d, place) == LET p == CS!GetPath(d, place) IN IF p = <<>> THEN <<>> ELSE SubSeq(p, 1, 2)
heldObjects(d, roots) ==
    {pl \in {placeOf("project", p) : p \in d.project}
            \cup {placeOf("projectgroup", g) : g \in d.projectgroup} :
        rootOf(d, pl) \in roots}

gitSteps(steps) == Range(steps) \cap {"updatekey", "createhook", "deletekey", "deletehook"}

(* Another session works on the git source for the same project. *)
overlaps(c, id) ==
    /\ id # 0
    /\ \E o \in Clients \ {c} : s[o].on /\ s[o].plan.row.id = id /\ gitSteps(s[o].plan.steps) # {}

Init ==
    /\ scene \in DOMAIN Scenarios
    /\ db = Scenarios[scene].db
    /\ hooks = {[proj |-> p.id, n |-> 1] : p \in db.project}
    /\ keys = {[proj |-> p.id, key |-> p.key] : p \in db.project}
    /\ tokens = 1 /\ expired = {}
    /\ s = [c \in Clients |-> Idle]
    /\ dirty = {} /\ left = MaxRequests /\ faults = MaxFaults

(***************************************************************************)
(* A request: authentication, reads and decision.  One that is refused     *)
(* changes nothing.                                                        *)
(***************************************************************************)
Arrive(c) ==
    /\ ~s[c].on /\ left > 0
    /\ \E rq \in Scenarios[scene].requests :
       \E ctx \in AuthHandler(db, rq.tok, authForced(rq.op)) :
       \E plan \in Route(db, ctx, rq) :
         /\ s' = IF plan.steps = <<>> THEN s ELSE
                 [s EXCEPT ![c] = [on |-> TRUE, plan |-> plan,
                                   roots |-> ownedRoots(db, ctx),
                                   held |-> heldObjects(db, ownedRoots(db, ctx))]]
         /\ dirty' = IF gitSteps(plan.steps) # {} /\ overlaps(c, plan.row.id)
                     THEN dirty \cup {plan.row.id} ELSE dirty
    /\ left' = left - 1
    /\ UNCHANGED <<scene, db, hooks, keys, tokens, expired, faults>>

AtStep(c, step) == s[c].on /\ s[c].plan.steps # <<>> /\ Head(s[c].plan.steps) = step

(* The session goes on with the rest of its steps, or ends. *)
goOn(c, plan) ==
    s' = [s EXCEPT ![c] = IF Tail(plan.steps) = <<>> THEN Idle
                          ELSE [@ EXCEPT !.plan = [plan EXCEPT !.steps = Tail(@)]]]
end(c) == s' = [s EXCEPT ![c] = Idle]

(***************************************************************************)
(* The configstore call of a plan; the configstore's router refuses a      *)
(* route that it doesn't have.                                             *)
(***************************************************************************)
apply(d, p) ==
    CASE p.call = "CreateOrg" -> CS!CreateOrgHandler(d, p.rq)
      [] p.call = "DeleteOrg" -> CS!DeleteOrgHandler(d, p.ref)
      [] p.call = "AddOrgMember" -> CS!AddOrgMemberHandler(d, p.ref, p.rq.user, p.rq.role)
      [] p.call = "RemoveOrgMember" -> CS!RemoveOrgMemberHandler(d, p.ref, p.rq.user)
      [] p.call = "CreateProjectGroup" -> CS!CreateProjectGroupHandler(d, p.rq)
      [] p.call = "UpdateProjectGroup" -> CS!UpdateProjectGroupHandler(d, p.ref, p.rq)
      [] p.call = "DeleteProjectGroup" -> CS!DeleteProjectGroupHandler(d, p.ref)
      [] p.call = "CreateProject" -> CS!CreateProjectHandler(d, p.rq)
      [] p.call = "UpdateProject" -> CS!UpdateProjectHandler(d, p.ref, p.rq)
      [] p.call = "DeleteProject" -> CS!DeleteProjectHandler(d, p.ref)
      [] p.call = "CreateSecret" -> CS!CreateSecretHandler(d, p.rq)
      [] p.call = "UpdateSecret" -> CS!UpdateSecretHandler(d, p.ref.name, p.rq)
      [] p.call = "DeleteSecret" -> CS!DeleteSecretHandler(d, p.rq.kind, p.ref, p.rq.name)
      [] p.call = "CreateVariable" -> CS!CreateVariableHandler(d, p.rq)
      [] p.call = "UpdateVariable" -> CS!UpdateVariableHandler(d, p.ref.name, p.rq)
      [] p.call = "DeleteVariable" -> CS!DeleteVariableHandler(d, p.rq.kind, p.ref, p.rq.name)
      [] p.call = "CreateRemoteSource" -> CS!CreateRemoteSourceHandler(d, p.rq)
      [] p.call = "UpdateRemoteSource" -> CS!UpdateRemoteSourceHandler(d, p.ref, p.rq)
      [] p.call = "DeleteRemoteSource" -> CS!DeleteRemoteSourceHandler(d, p.ref)
      [] p.call = "CreateUser" -> CS!CreateUserHandler(d, p.rq)
      [] p.call = "DeleteUser" -> CS!DeleteUserHandler(d, p.ref)
      [] p.call = "CreateUserToken" -> CS!CreateUserTokenHandler(d, p.ref, p.rq.name)
      [] p.call = "DeleteUserToken" -> CS!DeleteUserTokenHandler(d, p.ref, p.rq.name)
      [] p.call = "CreateUserLA" -> CS!CreateUserLAHandler(d, p.ref, p.rq)
      [] p.call = "UpdateUserLA" -> CS!UpdateUserLAHandler(d, p.ref, p.rq.laid, p.rq)
      [] p.call = "DeleteUserLA" -> CS!DeleteUserLAHandler(d, p.ref, p.rq.laid)
      [] OTHER -> CS!Refused

(* Rows of the project table that a step took away. *)
gone(d, e) == {p.id : p \in d.project} \ {p.id : p \in e.project}

(* Projects deleted without a cleanup, or cleaned up without being deleted. *)
missed(p, ids) ==
    IF p.call = "DeleteProject" /\ (ids # {p.row.id} \/ Len(p.steps) = 1)
    THEN {p.row.id} \cup ids ELSE {}

(***************************************************************************)
(* The call is answered: with an error, or after its commit.  A created    *)
(* project is set up next; a deleted one is cleaned up, and it is the one  *)
(* that was read, whatever the reference stood for when it was deleted.    *)
(***************************************************************************)
Call(c) ==
    /\ AtStep(c, "call")
    /\ \E e \in {apply(db, s[c].plan)} :
         IF ~CS!IsOK(e) THEN end(c) /\ UNCHANGED <<db, dirty>>
         ELSE /\ db' = e
              /\ goOn(c, IF s[c].plan.call # "CreateProject" THEN s[c].plan
                         ELSE [s[c].plan EXCEPT !.row = Only(e.project \ db.project)])
              /\ dirty' = dirty \cup missed(s[c].plan, gone(db, e))
    /\ UNCHANGED <<scene, hooks, keys, tokens, expired, left, faults>>

(* The call fails, or it commits and its answer is lost: for the gateway   *)
(* the two are the same.                                                   *)
CallLost(c) ==
    /\ AtStep(c, "call") /\ faults > 0
    /\ \/ UNCHANGED <<db, dirty>>
       \/ \E e \in {apply(db, s[c].plan)} \ {CS!Refused} :
            db' = e /\ dirty' = dirty \cup gone(db, e) \cup gone(e, db)
    /\ end(c) /\ faults' = faults - 1
    /\ UNCHANGED <<scene, hooks, keys, tokens, expired, left>>

(***************************************************************************)
(* Calls to the git source.                                                *)
(***************************************************************************)
isAccessTokenExpired(la) == la.token \in expired

(* A client for the git source; an expired access token is exchanged for a *)
(* new one, which is saved before it is used.                              *)
RefreshLinkedAccount(c) ==
    LET p == s[c].plan
        refresh == p.la.auth = "oauth2" /\ isAccessTokenExpired(p.la)
    IN  /\ AtStep(c, "source")
        /\ IF refresh
           THEN /\ tokens < MaxTokens /\ tokens' = tokens + 1
                /\ s' = [s EXCEPT ![c].plan = [p EXCEPT !.la.token = tokens + 1,
                                     !.steps = <<"savetoken">> \o Tail(p.steps)]]
           ELSE goOn(c, p) /\ UNCHANGED tokens
        /\ UNCHANGED <<scene, db, hooks, keys, expired, dirty, left, faults>>

(* What is cut short may leave the git source as it is not meant to be.    *)
halfDone(p) == IF Head(p.steps) # "call" /\ gitSteps(p.steps) # {} THEN {p.row.id} ELSE {}

(* A call to the git source, or the saving of a token, fails.  The setup   *)
(* of a new project is undone, other operations are given up.              *)
giveUp_slip(c) == end(c) /\ dirty' = dirty

giveUp(c) ==
    LET p == s[c].plan
    IN  IF p.call = "CreateProject" /\ p.row # NoRow
        THEN /\ s' = [s EXCEPT ![c].plan =
                        [p EXCEPT !.call = "none", !.steps = <<"undo">> \o CleanupSteps]]
             /\ UNCHANGED dirty
        ELSE end(c) /\ dirty' = dirty \cup halfDone(p)

UpdateUserLA(c) ==
    LET p == s[c].plan
        user == CS!usersByLinkedAccount(db, p.la.id)
        e == CS!UpdateUserLAHandler(db, ByName(Only(user).name), p.la.id,
                                    [ruser |-> p.la.ruser, token |-> p.la.token])
    IN  /\ AtStep(c, "savetoken")
        /\ IF user # {} /\ CS!IsOK(e)
           THEN db' = e /\ goOn(c, p) /\ UNCHANGED dirty
           ELSE giveUp(c) /\ UNCHANGED db
        /\ UNCHANGED <<scene, hooks, keys, tokens, expired, left, faults>>

GetRepoInfo(c) ==
    /\ AtStep(c, "repoinfo") /\ goOn(c, s[c].plan)
    /\ UNCHANGED <<scene, db, hooks, keys, tokens, expired, dirty, left, faults>>

(* A key of the same title is replaced unless it is the same key. *)
UpdateDeployKey(c) ==
    LET row == s[c].plan.row
    IN  /\ AtStep(c, "updatekey") /\ goOn(c, s[c].plan)
        /\ keys' = {k \in keys : k.proj # row.id} \cup {[proj |-> row.id, key |-> row.key]}
        /\ UNCHANGED <<scene, db, hooks, tokens, expired, dirty, left, faults>>

DeleteDeployKey(c) ==
    /\ AtStep(c, "deletekey") /\ goOn(c, s[c].plan)
    /\ keys' = {k \in keys : k.proj # s[c].plan.row.id}
    /\ UNCHANGED <<scene, db, hooks, tokens, expired, dirty, left, faults>>

(* Every webhook with the project's url is deleted. *)
DeleteRepoWebhook(c) ==
    /\ AtStep(c, "deletehook") /\ goOn(c, s[c].plan)
    /\ hooks' = {h \in hooks : h.proj # s[c].plan.row.id}
    /\ UNCHANGED <<scene, db, keys, tokens, expired, dirty, left, faults>>

(* The git source does not look for one with the same url. *)
CreateRepoWebhook(c) ==
    LET id == s[c].plan.row.id
        mine == {h \in hooks : h.proj = id}
    IN  /\ AtStep(c, "createhook") /\ goOn(c, s[c].plan)
        /\ hooks' = hooks \cup {[proj |-> id, n |-> Cardinality(mine) + 1]}
        /\ UNCHANGED <<scene, db, keys, tokens, expired, dirty, left, faults>>

(* The project whose setup failed is deleted; an error is ignored. *)
UndoCreate(c) ==
    LET id == s[c].plan.row.id
        e == CS!DeleteProjectHandler(db, ByID(id))
    IN  /\ AtStep(c, "undo") /\ goOn(c, s[c].plan)
        /\ \/ db' = (IF CS!IsOK(e) THEN e ELSE db) /\ UNCHANGED <<dirty, faults>>
           \/ /\ faults > 0 /\ faults' = faults - 1
              /\ dirty' = dirty \cup {id} /\ UNCHANGED db
        /\ UNCHANGED <<scene, hooks, keys, tokens, expired, left>>

GitFailed(c) ==
    /\ \E step \in {"source", "savetoken", "repoinfo", "updatekey", "deletekey",
                     "deletehook", "createhook"} : AtStep(c, step)
    /\ faults > 0 /\ faults' = faults - 1 /\ giveUp(c)
    /\ UNCHANGED <<scene, db, hooks, keys, tokens, expired, left>>

(* The user comes back from the remote source: the request goes on with    *)
(* what the configstore holds by then.                                     *)
Oauth2Callback(c) ==
    /\ AtStep(c, "callback")
    /\ \E plans \in {OAuth2CallbackHandler(db, s[c].plan.rq)} :
         IF plans = {} THEN end(c)
         ELSE \E p \in plans :
                s' = [s EXCEPT ![c] = IF p.steps = <<>> THEN Idle ELSE [@ EXCEPT !.plan = p]]
    /\ UNCHANGED <<scene, db, hooks, keys, tokens, expired, dirty, left, faults>>

(***************************************************************************)
(* The gateway crashes: every request it serves stops where it is.         *)
(***************************************************************************)
Crash ==
    /\ faults > 0 /\ faults' = faults - 1
    /\ \E c \in Clients : s[c].on
    /\ s' = [c \in Clients |-> Idle]
    /\ dirty' = dirty \cup UNION {halfDone(s[c].plan) : c \in {x \in Clients : s[x].on}}
    /\ UNCHANGED <<scene, db, hooks, keys, tokens, expired, left>>

(* The access token last given out passes its expiry; those of a source    *)
(* with passwords have none.                                               *)
Expire ==
    /\ \E rs \in db.remotesource : rs.auth = "oauth2"
    /\ tokens \notin expired /\ tokens < MaxTokens
    /\ expired' = expired \cup {tokens}
    /\ UNCHANGED <<scene, db, hooks, keys, tokens, s, dirty, left, faults>>

Next ==
    \/ \E c \in Clients : Arrive(c)
    \/ \E c \in Clients : Call(c)
    \/ \E c \in Clients : CallLost(c)
    \/ \E c \in Clients : RefreshLinkedAccount(c)
    \/ \E c \in Clients : UpdateUserLA(c)
    \/ \E c \in Clients : GetRepoInfo(c)
    \/ \E c \in Clients : UpdateDeployKey(c)
    \/ \E c \in Clients : DeleteDeployKey(c)
    \/ \E c \in Clients : DeleteRepoWebhook(c)
    \/ \E c \in Clients : CreateRepoWebhook(c)
    \/ \E c \in Clients : UndoCreate(c)
    \/ \E c \in Clients : GitFailed(c)
    \/ \E c \in Clients : Oauth2Callback(c)
    \/ Crash
    \/ Expire

Spec == Init /\ [][Next]_vars

-----------------------------------------------------------------------------
(***************************************************************************)
(* Properties of the configstore's objects.                                *)
(***************************************************************************)
(* No sequence of moves makes a project group its own ancestor: the walk   *)
(* up the tree, a loop without a bound in the code, ends.                  *)
HierarchyEnds ==
    \A g \in db.projectgroup : CS!GetProjectGroupHierarchy(db, g) # CS!Endless

(* Names are unique where the queries take them to be: a query by name,    *)
(* which fails on two rows, finds at most one.                             *)
UniqueRows ==
    /\ \A k \in {"user", "org", "remotesource"} :
         \A a, b \in db[k] : a.name = b.name => a = b
    /\ \A k \in {"projectgroup", "project", "secret", "variable"} :
         \A a, b \in db[k] : a.name = b.name /\ a.parent = b.parent => a = b
    /\ \A a, b \in db.linkedaccount : a.rs = b.rs /\ a.ruser = b.ruser => a = b
    /\ \A a, b \in db.usertoken : a.user = b.user /\ a.name = b.name => a = b
    /\ \A a, b \in db.orgmember : a.org = b.org /\ a.user = b.user => a = b

(* The objects above a project or a group, by what their paths say.        *)
above(place) ==
    {place} \cup UNION {{x \in {placeOf("projectgroup", g) : g \in db.projectgroup} :
        \E q \in {CS!GetPath(db, x)} : q # <<>> /\ IsStrictPrefix(q, path)} :
            path \in {CS!GetPath(db, place)}}

(* The objects of a table with a name that are nearest to the place. *)
nearest(k, name, place) ==
    UNION {{o \in all : \A x \in all : \/ o.parent = place
                                     \/ Len(CS!GetPath(db, x.parent)) <= Len(CS!GetPath(db, o.parent))} :
        all \in {{o \in db[k] : o.name = name /\ o.parent \in up} : up \in {above(place)}}}

(* Of the variables of one name on the way from an object to its root the  *)
(* API shows the nearest one, and only that; a value is said to come from  *)
(* the secret nearest to the variable, at its place or above it.           *)
NearestWins ==
    \A kind \in {"project", "projectgroup"} :
    \A place \in {placeOf(kind, o) : o \in db[kind]} : CS!GetPath(db, place) # <<>> =>
    \A shown \in {UNION Range(VariableHandler(db, [kind |-> kind, ref |-> ByID(place.id),
                                                   tree |-> TRUE, filter |-> TRUE]))} :
        /\ {v.id : v \in shown} = UNION {{v.id : v \in nearest("variable", n, place)} :
                                           n \in {v.name : v \in db.variable}}
        /\ \A v \in db.variable : \A w \in {x \in shown : x.id = v.id} :
             \A i \in DOMAIN v.values :
                w.from[i] = {x.parent : x \in nearest("secret", v.values[i].sname, v.parent)}

(* What a project's answer shows to a caller who is no member: only        *)
(* projects that are public, below public groups, in a public org.         *)
PrivateHidden ==
    \A p \in db.project :
    \A place \in {placeOf("project", p)} : \A path \in {CS!GetPath(db, place)} :
    \A ctx \in {[user |-> 0, admin |-> FALSE]} \cup contextOf(db.user) :
        LET member == \/ ctx.admin
                      \/ \E x \in db.user : x.id = ctx.user /\ SubSeq(path, 1, 2) = <<"user", x.name>>
                      \/ \E o \in db.org, m \in db.orgmember :
                           /\ SubSeq(path, 1, 2) = <<"org", o.name>>
                           /\ m.org = o.id /\ m.user = ctx.user
        IN  ProjectHandler(db, ctx, [ref |-> ByID(p.id)]) # {} /\ ~member =>
                /\ p.vis = "public"
                /\ \A g \in db.projectgroup :
                      placeOf("projectgroup", g) \in above(place) => g.vis = "public"
                /\ \A o \in db.org : SubSeq(path, 1, 2) = <<"org", o.name>> => o.vis = "public"

(* A client that asks for a list page by page, each from the last name of  *)
(* the page before, sees every organization once, in order.                *)
PagesCoverList ==
    \A asc \in BOOLEAN : \A limit \in 1 .. MaxLimit + 1 :
        LET from(seen) == IF seen = <<>> THEN "" ELSE Last(seen).name
            more(seen, i) == seen \o OrgsHandler(db, [start |-> from(seen), limit |-> limit,
                                                     asc |-> asc])
            pages == FoldLeft(more, <<>>, [i \in 1 .. Cardinality(db.org) |-> i])
        IN  /\ Len(pages) = Cardinality(db.org)
            /\ Range(pages) = {createOrgResponse(o) : o \in db.org}
            /\ \A i, j \in DOMAIN pages : i < j =>
                  (CS!NamePos(pages[i].name) < CS!NamePos(pages[j].name)) = asc

(* A row of a project, a group, a secret or a variable is changed or       *)
(* removed only by a session whose caller, when the gateway looked, was an *)
(* owner of the tree the row was in then or is in now, or by the session   *)
(* that created it: whatever the other sessions move in between.           *)
OwnedByCaller ==
    [][\A k \in {"project", "projectgroup", "secret", "variable"} :
       \A o \in db[k] : o \notin db'[k] =>
         \E c \in Clients :
           /\ s[c].on
           /\ \/ placeOf(k, o) \in s[c].held
              \/ rootOf(db, placeOf(k, o)) \in s[c].roots
              \/ k = "project" /\ s[c].plan.row.id = o.id]_vars

(* When no request is being served, every project has exactly its webhook  *)
(* and its deploy key at the git source and the git source holds none for  *)
(* a project that is gone: also after a setup that failed and was undone.  *)
(* Not for projects whose setup or cleanup was cut short, or overlapped.   *)
HooksMatch ==
    (\A c \in Clients : ~s[c].on) =>
        /\ \A p \in db.project : p.id \notin dirty =>
              /\ Cardinality({h \in hooks : h.proj = p.id}) = 1
              /\ {k \in keys : k.proj = p.id} = {[proj |-> p.id, key |-> p.key]}
        /\ \A id \in {h.proj : h \in hooks} \cup {k.proj : k \in keys} :
              id \in dirty \/ \E p \in db.project : p.id = id
=============================================================================
