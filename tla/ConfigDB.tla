------------------------------ MODULE ConfigDB ------------------------------
(***************************************************************************)
(* The database of the configstore: its tables and its queries             *)
(* (internal/services/configstore/db).  A database is a record of tables,  *)
(* a table a set of rows, a row a record with the object's id.  The        *)
(* operators are functions of the database `d' a transaction works on:     *)
(* transactions are serializable (see ObjectTx), so what one of them       *)
(* computes depends on `d' alone.                                          *)
(*                                                                         *)
(* A uuid is a number that is never given out twice (d.next is the first   *)
(* unused one), a name is a string, a path the sequence of the names       *)
(* between its slashes.  The revision a row is read with is current when   *)
(* the same transaction writes it, so of the revision only the difference  *)
(* between an object that is new (0) and one that was read (> 0) is kept:  *)
(* whether the row is in its table.                                        *)
(***************************************************************************)
EXTENDS Naturals, Sequences, FiniteSets, SequencesExt

CONSTANTS
    NameOrder,     \* the valid names of users, orgs, groups..., sorted
    MaxDepth       \* bound of the walk up the project group tree

ValidNames == Range(NameOrder)

(* A reference in a request is a uuid, a name or a path. *)
ByID(id) == [by |-> "id", id |-> id, name |-> "", path |-> <<>>]
ByName(n) == [by |-> "name", id |-> 0, name |-> n, path |-> <<>>]
ByPath(p) == [by |-> "path", id |-> 0, name |-> "", path |-> p]

(* What a transaction that returns an error leaves behind: nothing. *)
Refused == <<>>
IsOK(d) == d # Refused

Kinds == {"remotesource", "user", "usertoken", "linkedaccount", "org",
          "orgmember", "projectgroup", "project", "secret", "variable"}

EmptyDB == [k \in Kinds |-> {}] @@ [next |-> 1]

(***************************************************************************)
(* Writes.                                                                 *)
(***************************************************************************)
HasRow(d, k, id) == \E o \in d[k] : o.id = id

insert(d, k, o) ==
    IF HasRow(d, k, o.id) THEN Refused
    ELSE [d EXCEPT ![k] = @ \cup {o}, !.next = IF o.id < @ THEN @ ELSE o.id + 1]

update(d, k, o) ==
    IF ~HasRow(d, k, o.id) THEN Refused
    ELSE [d EXCEPT ![k] = {r \in @ : r.id # o.id} \cup {o}]

delete(d, k, id) == [d EXCEPT ![k] = {r \in @ : r.id # id}]

InsertRemoteSource(d, o) == insert(d, "remotesource", o)
UpdateRemoteSourceRow(d, o) == update(d, "remotesource", o)
DeleteRemoteSourceRow(d, id) == delete(d, "remotesource", id)
InsertUser(d, o) == insert(d, "user", o)
UpdateUserRow(d, o) == update(d, "user", o)
DeleteUserRow(d, id) == delete(d, "user", id)
InsertUserToken(d, o) == insert(d, "usertoken", o)
DeleteUserTokenRow(d, id) == delete(d, "usertoken", id)
InsertLinkedAccount(d, o) == insert(d, "linkedaccount", o)
DeleteLinkedAccountRow(d, id) == delete(d, "linkedaccount", id)
InsertOrganization(d, o) == insert(d, "org", o)
DeleteOrganizationRow(d, id) == delete(d, "org", id)
InsertOrganizationMember(d, o) == insert(d, "orgmember", o)
DeleteOrganizationMemberRow(d, id) == delete(d, "orgmember", id)
InsertProjectGroup(d, o) == insert(d, "projectgroup", o)
UpdateProjectGroupRow(d, o) == update(d, "projectgroup", o)
DeleteProjectGroupRow(d, id) == delete(d, "projectgroup", id)
InsertProject(d, o) == insert(d, "project", o)
UpdateProjectRow(d, o) == update(d, "project", o)
DeleteProjectRow(d, id) == delete(d, "project", id)
InsertSecret(d, o) == insert(d, "secret", o)
UpdateSecretRow(d, o) == update(d, "secret", o)
DeleteSecretRow(d, id) == delete(d, "secret", id)
InsertVariable(d, o) == insert(d, "variable", o)
UpdateVariableRow(d, o) == update(d, "variable", o)
DeleteVariableRow(d, id) == delete(d, "variable", id)

(***************************************************************************)
(* Reads.  A query returns the set of the rows it selects.  The functions  *)
(* that return one object fail when there are several: One is the case in  *)
(* which they return an object, {} the one in which they return nil.       *)
(***************************************************************************)
One(rows) == \E r \in rows : rows = {r}
The(rows) == CHOOSE r \in rows : TRUE

(* The rows of a table as a query scans and unmarshals them; what the      *)
(* query selects of them is the condition of its caller.                   *)
fetchRemoteSources(d) == d.remotesource
fetchUsers(d) == d.user
fetchUserTokens(d) == d.usertoken
fetchLinkedAccounts(d) == d.linkedaccount
fetchOrganizations(d) == d.org
fetchOrganizationMembers(d) == d.orgmember
fetchProjectGroups(d) == d.projectgroup
fetchProjects(d) == d.project
fetchSecrets(d) == d.secret
fetchVariables(d) == d.variable

GetRemoteSourceByID(d, id) == {o \in fetchRemoteSources(d) : o.id = id}
GetRemoteSourceByName(d, n) == {o \in fetchRemoteSources(d) : o.name = n}
GetRemoteSource(d, ref) ==
    IF ref.by = "id" THEN GetRemoteSourceByID(d, ref.id)
                     ELSE GetRemoteSourceByName(d, ref.name)

GetUserByID(d, id) == {o \in fetchUsers(d) : o.id = id}
GetUserByName(d, n) == {o \in fetchUsers(d) : o.name = n}
GetUser(d, ref) ==
    IF ref.by = "id" THEN GetUserByID(d, ref.id) ELSE GetUserByName(d, ref.name)

(* The joins with the user table: rows left behind by a deleted user are   *)
(* not selected.                                                           *)
GetUserTokens(d, uid) ==
    {o \in fetchUserTokens(d) : o.user = uid /\ HasRow(d, "user", uid)}
GetUserToken(d, uid, n) == {o \in GetUserTokens(d, uid) : o.name = n}
GetUserByTokenValue(d, v) ==
    {u \in fetchUsers(d) : \E t \in d.usertoken : t.value = v /\ t.user = u.id}
GetLinkedAccount(d, id) == {o \in fetchLinkedAccounts(d) : o.id = id}
GetUserLinkedAccounts(d, uid) ==
    {o \in fetchLinkedAccounts(d) : o.user = uid /\ HasRow(d, "user", uid)}
GetUserByLinkedAccount(d, id) ==
    {u \in fetchUsers(d) : \E a \in d.linkedaccount : a.id = id /\ a.user = u.id}
GetLinkedAccountByRemoteUserIDandSource(d, ruser, rs) ==
    {o \in fetchLinkedAccounts(d) : o.ruser = ruser /\ o.rs = rs}

GetOrgByID(d, id) == {o \in fetchOrganizations(d) : o.id = id}
GetOrgByName(d, n) == {o \in fetchOrganizations(d) : o.name = n}
GetOrg(d, ref) ==
    IF ref.by = "id" THEN GetOrgByID(d, ref.id) ELSE GetOrgByName(d, ref.name)
GetOrgMemberByOrgUserID(d, org, uid) ==
    {o \in fetchOrganizationMembers(d) : o.org = org /\ o.user = uid}
GetOrgUsers(d, org) ==
    {[user |-> x[1], role |-> x[2].role] : x \in
        {y \in d.user \X {o \in fetchOrganizationMembers(d) : o.org = org} :
            y[1].id = y[2].user}}
GetUserOrgs(d, uid) ==
    {[org |-> x[1], role |-> x[2].role] : x \in
        {y \in d.org \X {o \in fetchOrganizationMembers(d) : o.user = uid} :
            y[1].id = y[2].org}}

(* A page of a list: the first `limit' rows after the start name, in the   *)
(* order of the names, all of them when the limit is 0.                    *)
NamePos(n) == CHOOSE i \in DOMAIN NameOrder : NameOrder[i] = n

page_slip(rows, start, limit, asc) ==
    LET after(o) == \/ start = ""
                    \/ IF asc THEN NamePos(o.name) >= NamePos(start)
                              ELSE NamePos(o.name) < NamePos(start)
        order(a, b) == IF asc THEN NamePos(a.name) < NamePos(b.name)
                              ELSE NamePos(a.name) > NamePos(b.name)
        s == SetToSortSeq({o \in rows : after(o)}, order)
    IN  IF limit > 0 /\ limit < Len(s) THEN SubSeq(s, 1, limit) ELSE s

page(rows, start, limit, asc) ==
    LET after(o) == \/ start = ""
                    \/ IF asc THEN NamePos(o.name) > NamePos(start)
                              ELSE NamePos(o.name) < NamePos(start)
        order(a, b) == IF asc THEN NamePos(a.name) < NamePos(b.name)
                              ELSE NamePos(a.name) > NamePos(b.name)
        s == SetToSortSeq({o \in rows : after(o)}, order)
    IN  IF limit > 0 /\ limit < Len(s) THEN SubSeq(s, 1, limit) ELSE s

GetRemoteSources(d, start, limit, asc) == page(d.remotesource, start, limit, asc)
GetUsers(d, start, limit, asc) == page(d.user, start, limit, asc)
GetOrgs(d, start, limit, asc) == page(d.org, start, limit, asc)

(***************************************************************************)
(* The project group tree.                                                 *)
(***************************************************************************)
GetProjectGroupByID(d, id) == {o \in fetchProjectGroups(d) : o.id = id}
GetProjectGroupByName(d, pid, n) ==
    {o \in fetchProjectGroups(d) : o.parent.id = pid /\ o.name = n}
GetProjectGroupSubgroups(d, pid) ==
    {o \in fetchProjectGroups(d) : o.parent.id = pid}

(* The group's ancestors and itself, the root group first; <<>> when a     *)
(* parent group is missing.  The loop has no bound in the code: a cycle    *)
(* never ends.                                                             *)
Endless == <<[id |-> 0]>>

below(groups, g) == IF groups \in {<<>>, Endless} THEN groups ELSE Append(groups, g)

GetProjectGroupHierarchy(d, group) ==
    LET up[n \in 0 .. MaxDepth, g \in d.projectgroup] ==
            IF g.parent.kind # "projectgroup" THEN <<g>>
            ELSE IF n = 0 THEN Endless
            ELSE LET p == GetProjectGroupByID(d, g.parent.id)
                 IN  IF p = {} THEN <<>>
                     ELSE below(up[n - 1, The(p)], g)
    IN  up[MaxDepth, group]

(* The user or org the tree of the group belongs to, by its kind and id.   *)
NoOwner == [kind |-> "none", id |-> 0]

ownerOf(groups) == IF groups \in {<<>>, Endless} THEN NoOwner ELSE groups[1].parent
GetProjectGroupOwnerID(d, group) == ownerOf(GetProjectGroupHierarchy(d, group))

(* <<>> stands for an error: the owner or a parent group is missing.  The  *)
(* root group has an empty name, that path.Join drops.                     *)
ownerPath(d, owner) ==
    LET rows == IF owner.kind = "none" THEN {}
                ELSE IF owner.kind = "org" THEN GetOrgByID(d, owner.id)
                ELSE GetUserByID(d, owner.id)
    IN  IF rows = {} THEN <<>> ELSE <<owner.kind, The(rows).name>>

join(p, n) == IF p = <<>> \/ n = "" THEN p ELSE Append(p, n)

pathOf(owner, groups) ==
    IF owner = <<>> THEN <<>> ELSE owner \o SelectSeq([i \in DOMAIN groups |-> groups[i].name],
                                                     LAMBDA n : n # "")
GetProjectGroupPath(d, group) ==
    The({pathOf(ownerPath(d, ownerOf(groups)), groups) :
           groups \in {GetProjectGroupHierarchy(d, group)}})

GetProjectGroupByPath(d, path) ==
    LET owner == IF path[1] = "org" THEN GetOrgByName(d, path[2])
                                    ELSE GetUserByName(d, path[2])
        down(groups, n) == IF ~One(groups) THEN {}
                           ELSE GetProjectGroupByName(d, The(groups).id, n)
    IN  IF Len(path) < 2 \/ path[1] \notin {"org", "user"} \/ ~One(owner) THEN {}
        ELSE fetchProjectGroups(d) \cap
                FoldLeft(down, GetProjectGroupByName(d, The(owner).id, ""),
                         SubSeq(path, 3, Len(path)))

GetProjectGroup(d, ref) ==
    IF ref.by = "id" THEN GetProjectGroupByID(d, ref.id)
                     ELSE GetProjectGroupByPath(d, ref.path)

GetProjectByID(d, id) == {o \in fetchProjects(d) : o.id = id}
GetProjectByName(d, pid, n) ==
    {o \in fetchProjects(d) : o.parent.id = pid /\ o.name = n}
GetProjectGroupProjects(d, pid) == {o \in fetchProjects(d) : o.parent.id = pid}

GetProjectByPath(d, path) ==
    LET group == GetProjectGroupByPath(d, Front(path))
    IN  IF Len(path) < 3 THEN {}
        ELSE IF ~One(group) THEN {}
        ELSE GetProjectByName(d, The(group).id, Last(path))

GetProject(d, ref) ==
    IF ref.by = "id" THEN GetProjectByID(d, ref.id) ELSE GetProjectByPath(d, ref.path)

GetProjectPath(d, project) ==
    The({IF group = {} THEN <<>> ELSE join(GetProjectGroupPath(d, The(group)), project.name) :
           group \in {GetProjectGroupByID(d, project.parent.id)}})

GetProjectOwnerID(d, project) ==
    LET g == GetProjectGroupByID(d, project.parent.id)
    IN  IF g = {} THEN NoOwner ELSE GetProjectGroupOwnerID(d, The(g))

(* The path of what an object hangs from. *)
GetPath(d, parent) ==
    CASE parent.kind = "projectgroup" ->
            LET g == GetProjectGroupByID(d, parent.id)
            IN  IF g = {} THEN <<>> ELSE GetProjectGroupPath(d, The(g))
      [] parent.kind = "project" ->
            LET p == GetProjectByID(d, parent.id)
            IN  IF p = {} THEN <<>> ELSE GetProjectPath(d, The(p))
      [] OTHER -> ownerPath(d, parent)

(***************************************************************************)
(* Secrets and variables: those of an object, and those of the object and  *)
(* all that is above it, the nearest first.                                *)
(***************************************************************************)
GetSecretByName(d, pid, n) == {o \in fetchSecrets(d) : o.parent.id = pid /\ o.name = n}
GetSecrets(d, pid) == {o \in fetchSecrets(d) : o.parent.id = pid}
GetVariableByName(d, pid, n) ==
    {o \in fetchVariables(d) : o.parent.id = pid /\ o.name = n}
GetVariables(d, pid) == {o \in fetchVariables(d) : o.parent.id = pid}

(* The objects from a project or a group up to its root group, <<>> when a *)
(* group in between is missing.                                            *)
idsUp(groups) == Reverse([i \in DOMAIN groups |-> groups[i].id])
groupsUp(d, gid) ==
    The({IF group = {} THEN <<>> ELSE idsUp(GetProjectGroupHierarchy(d, The(group))) :
           group \in {GetProjectGroupByID(d, gid)}})

upwards(d, parent) ==
    IF parent.kind # "project" THEN groupsUp(d, parent.id)
    ELSE The({IF up = <<>> THEN <<>> ELSE <<parent.id>> \o up :
                up \in {groupsUp(d, p.parent.id) : p \in GetProjectByID(d, parent.id)}})

GetSecretsTree(d, parent) ==
    The({[i \in DOMAIN up |-> GetSecrets(d, up[i])] : up \in {upwards(d, parent)}})
GetVariablesTree(d, parent) ==
    The({[i \in DOMAIN up |-> GetVariables(d, up[i])] : up \in {upwards(d, parent)}})
=============================================================================
