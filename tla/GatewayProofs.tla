---------------------------- MODULE GatewayProofs ----------------------------
(***************************************************************************)
(* The configstore's tables under the gateway's sessions: every operation  *)
(* leaves a database whose rows differ in what the queries look them up    *)
(* by, whatever the request and however the sessions interleave, fail and  *)
(* crash.                                                                  *)
(***************************************************************************)
EXTENDS Gateway, TLAPS

-----------------------------------------------------------------------------
(* Tables.                                                                  *)

LEMMA SmallerTable ==
    ASSUME NEW k, NEW n \in Nat, NEW m \in Nat, n <= m, NEW T, NEW S \in SUBSET T, TableOK(n, k, T)
    PROVE  TableOK(m, k, S)
BY DEF TableOK, RowOK

LEMMA FresherRow ==
    ASSUME NEW k, NEW n \in Nat, NEW m \in Nat, n <= m, NEW o, RowOK(n, k, o)
    PROVE  RowOK(m, k, o)
BY DEF RowOK

\* A row that no row of the table shares a key with may be added to it.
LEMMA LargerTable ==
    ASSUME NEW k, NEW n \in Nat, NEW m \in Nat, n <= m, NEW T, TableOK(n, k, T),
           NEW o, RowOK(m, k, o), \A a \in T : ~SameKey(k, a, o)
    PROVE  TableOK(m, k, T \cup {o})
<1>1. \A a \in T \cup {o} : RowOK(m, k, a)
  BY FresherRow DEF TableOK
<1>2. \A a, b : SameKey(k, a, b) <=> SameKey(k, b, a)
  BY DEF SameKey
<1>3. \A a, b \in T \cup {o} : SameKey(k, a, b) => a = b
  BY <1>2 DEF TableOK
<1> QED BY <1>1, <1>3 DEF TableOK

-----------------------------------------------------------------------------
(* The writes of the database.                                              *)

LEMMA InsertedRow ==
    ASSUME NEW d, DatabaseOK(d), NEW k \in CS!Kinds, NEW o, o.id = d.next, RowOK(d.next + 1, k, o),
           \A a \in d[k] : ~SameKey(k, a, o)
    PROVE  /\ DatabaseOK(CS!insert(d, k, o))
           /\ CS!insert(d, k, o).next = d.next + 1
           /\ CS!insert(d, k, o)[k] = d[k] \cup {o}
           /\ \A j \in CS!Kinds \ {k} : CS!insert(d, k, o)[j] = d[j]
<1> DEFINE e == CS!insert(d, k, o)
           c == [d EXCEPT ![k] = d[k] \cup {o}]
           n == IF o.id < d.next THEN d.next ELSE o.id + 1
<1>0. d.next \in Nat /\ "next" \notin CS!Kinds
  BY DEF DatabaseOK, CS!Kinds
<1>1. ~CS!HasRow(d, k, o.id)
  BY <1>0 DEF CS!HasRow, DatabaseOK, TableOK, RowOK
<1>2. e = [c EXCEPT !.next = n]
  BY <1>1, Zenon DEF CS!insert
<1>3. n = d.next + 1
  BY <1>0
<1> HIDE DEF e, n
<1>4. DOMAIN c = CS!Kinds \cup {"next"} /\ c[k] = d[k] \cup {o} /\ \A j \in CS!Kinds \ {k} : c[j] = d[j]
  BY <1>0 DEF DatabaseOK
<1> HIDE DEF c
<1>5. DOMAIN e = CS!Kinds \cup {"next"} /\ e.next = d.next + 1 /\ e[k] = d[k] \cup {o}
      /\ \A j \in CS!Kinds \ {k} : e[j] = d[j]
  BY <1>0, <1>2, <1>3, <1>4
<1>6. TableOK(e.next, k, e[k])
  BY <1>0, <1>5, LargerTable DEF DatabaseOK
<1>7. \A j \in CS!Kinds \ {k} : TableOK(e.next, j, e[j])
  BY <1>0, <1>5, SmallerTable DEF DatabaseOK
<1>8. DatabaseOK(e)
  BY <1>0, <1>5, <1>6, <1>7 DEF DatabaseOK
<1> QED BY <1>5, <1>8 DEF e

LEMMA UpdatedRow ==
    ASSUME NEW d, DatabaseOK(d), NEW k \in CS!Kinds, NEW o, CS!IsOK(CS!update(d, k, o)),
           RowOK(d.next, k, o), \A a \in d[k] : a.id # o.id => ~SameKey(k, a, o)
    PROVE  DatabaseOK(CS!update(d, k, o))
<1> DEFINE e == CS!update(d, k, o)
           S == {r \in d[k] : r.id # o.id}
<1>0. d.next \in Nat /\ "next" \notin CS!Kinds
  BY DEF DatabaseOK, CS!Kinds
<1>1. e = [d EXCEPT ![k] = {r \in @ : r.id # o.id} \cup {o}]
  BY DEF CS!update, CS!IsOK
<1>2. DOMAIN e = CS!Kinds \cup {"next"} /\ e.next = d.next /\ e[k] = S \cup {o}
      /\ \A j \in CS!Kinds \ {k} : e[j] = d[j]
  BY <1>0, <1>1 DEF DatabaseOK
<1>3. TableOK(d.next, k, S)
  BY <1>0, SmallerTable DEF DatabaseOK
<1>4. \A a \in S : ~SameKey(k, a, o)
  OBVIOUS
<1> HIDE DEF e, S
<1>5. TableOK(d.next, k, S \cup {o})
  BY <1>0, <1>3, <1>4, LargerTable
<1>6. DatabaseOK(e)
  BY <1>0, <1>2, <1>5 DEF DatabaseOK
<1> QED BY <1>6 DEF e

LEMMA DeletedRow ==
    ASSUME NEW d, DatabaseOK(d), NEW k \in CS!Kinds, NEW id
    PROVE  DatabaseOK(CS!delete(d, k, id))
<1> DEFINE e == CS!delete(d, k, id)
<1>0. d.next \in Nat /\ "next" \notin CS!Kinds
  BY DEF DatabaseOK, CS!Kinds
<1>1. DOMAIN e = CS!Kinds \cup {"next"} /\ e.next = d.next /\ e[k] = {r \in d[k] : r.id # id}
      /\ \A j \in CS!Kinds \ {k} : e[j] = d[j]
  BY <1>0 DEF DatabaseOK, CS!delete
<1> HIDE DEF e
<1>2. TableOK(d.next, k, e[k])
  BY <1>0, <1>1, SmallerTable DEF DatabaseOK
<1>3. DatabaseOK(e)
  BY <1>0, <1>1, <1>2 DEF DatabaseOK
<1> QED BY <1>3 DEF e

\* what the functions that return one object return is one of the rows
LEMMA TheRow ==
    ASSUME NEW rows, CS!One(rows)
    PROVE  CS!The(rows) \in rows
BY DEF CS!One, CS!The

\* the tables by name, and what their rows are known to be
LEMMA RowsOK ==
    ASSUME NEW d, DatabaseOK(d), NEW k \in CS!Kinds
    PROVE  /\ d.next \in Nat
           /\ \A o \in d[k] : RowOK(d.next, k, o)
           /\ \A a, b \in d[k] : SameKey(k, a, b) => a = b
BY DEF DatabaseOK, TableOK

-----------------------------------------------------------------------------
(* The operations of the configstore.                                       *)

\* A user or an org gets its root group, the only group with its id for a
\* parent: the id was just given out.
LEMMA RootGroupOK ==
    ASSUME NEW d, DatabaseOK(d), NEW kind, NEW owner \in Nat, owner < d.next, NEW vis,
           \A g \in d.projectgroup : g.parent.id # owner
    PROVE  DatabaseOK(CS!InsertProjectGroup(d, CS!rootGroup(d, kind, owner, vis)))
<1> DEFINE g == CS!rootGroup(d, kind, owner, vis)
<1>1. g.id = d.next /\ g.parent.id = owner /\ DOMAIN g = {"id", "name", "parent", "vis"}
  BY DEF CS!rootGroup, CS!Parent
<1> HIDE DEF g
<1>2. "projectgroup" \in CS!Kinds
  BY DEF CS!Kinds
<1>3. d.next \in Nat /\ \A a \in d.projectgroup : a.id \in Nat /\ a.id < d.next
  BY <1>2, RowsOK DEF RowOK
<1>4. RowOK(d.next + 1, "projectgroup", g)
  BY <1>1, <1>3 DEF RowOK
<1>5. \A a \in d["projectgroup"] : ~SameKey("projectgroup", a, g)
  BY <1>1, <1>3 DEF SameKey
<1>6. DatabaseOK(CS!insert(d, "projectgroup", g))
  BY <1>1, <1>2, <1>4, <1>5, InsertedRow
<1> QED BY <1>6 DEF g, CS!InsertProjectGroup

LEMMA CreateUserOK ==
    ASSUME NEW d, DatabaseOK(d), NEW rq, CS!IsOK(CS!CreateUser(d, rq))
    PROVE  DatabaseOK(CS!CreateUser(d, rq))
<1> DEFINE rs == CS!GetRemoteSourceByName(d, rq.la.rsname)
           user == [id |-> d.next, name |-> rq.name, admin |-> FALSE]
           d1 == CS!InsertUser(d, user)
           la == [id |-> d1.next, user |-> user.id, rs |-> CS!The(rs).id,
                  ruser |-> rq.la.ruser, token |-> rq.la.token]
           d2 == IF ~rq.haslinked THEN d1 ELSE CS!InsertLinkedAccount(d1, la)
<1>1. /\ CS!GetUserByName(d, rq.name) = {}
      /\ rq.haslinked =>
            CS!GetLinkedAccountByRemoteUserIDandSource(d, rq.la.ruser, CS!The(rs).id) = {}
      /\ CS!CreateUser(d, rq) =
            CS!InsertProjectGroup(d2, CS!rootGroup(d2, "user", user.id, "public"))
  BY DEF CS!CreateUser, CS!IsOK
<1>2. {"user", "linkedaccount", "projectgroup"} \subseteq CS!Kinds
  BY DEF CS!Kinds
<1>3. /\ d.next \in Nat
      /\ \A a \in d.user : a.id \in Nat /\ a.id < d.next
      /\ \A a \in d.linkedaccount : a.id \in Nat /\ a.id < d.next
      /\ \A a \in d.projectgroup : a.parent.id \in Nat /\ a.parent.id < d.next
  BY <1>2, RowsOK DEF RowOK
<1>4. RowOK(d.next + 1, "user", user) /\ \A a \in d["user"] : ~SameKey("user", a, user)
  BY <1>1, <1>3 DEF RowOK, SameKey, CS!GetUserByName, CS!fetchUsers
<1>5. /\ DatabaseOK(d1) /\ d1.next = d.next + 1
      /\ d1["linkedaccount"] = d["linkedaccount"] /\ d1["projectgroup"] = d["projectgroup"]
  <2>1. user.id = d.next /\ d1 = CS!insert(d, "user", user)
    BY DEF CS!InsertUser
  <2> HIDE DEF user, d1
  <2> QED BY <1>2, <1>4, <2>1, InsertedRow
<1> HIDE DEF d1
<1>6. CASE ~rq.haslinked
  <2>1. d2 = d1
    BY <1>6
  <2> QED BY <1>1, <1>3, <1>5, <2>1, RootGroupOK
<1>7. CASE rq.haslinked
  <2>1. RowOK(d1.next + 1, "linkedaccount", la)
    BY <1>3, <1>5 DEF RowOK
  <2>2. \A a \in d1["linkedaccount"] : ~SameKey("linkedaccount", a, la)
    BY <1>1, <1>3, <1>5, <1>7
       DEF SameKey, CS!GetLinkedAccountByRemoteUserIDandSource, CS!fetchLinkedAccounts
  <2>3. d2 = CS!insert(d1, "linkedaccount", la)
    BY <1>7 DEF CS!InsertLinkedAccount
  <2>4. DatabaseOK(d2) /\ d2.next = d1.next + 1 /\ d2["projectgroup"] = d1["projectgroup"]
    BY <1>2, <1>5, <2>1, <2>2, <2>3, InsertedRow
  <2> HIDE DEF d2
  <2> QED BY <1>1, <1>3, <1>5, <2>4, RootGroupOK
<1> QED BY <1>6, <1>7

LEMMA CreateUserLAOK ==
    ASSUME NEW d, DatabaseOK(d), NEW rq, CS!IsOK(CS!CreateUserLA(d, rq))
    PROVE  DatabaseOK(CS!CreateUserLA(d, rq))
<1> DEFINE rs == CS!The(CS!GetRemoteSourceByName(d, rq.rsname)).id
           o == [id |-> d.next, user |-> CS!The(CS!GetUser(d, rq.user)).id, rs |-> rs,
                 ruser |-> rq.ruser, token |-> rq.token]
<1>1. /\ CS!GetLinkedAccountByRemoteUserIDandSource(d, rq.ruser, rs) = {}
      /\ CS!CreateUserLA(d, rq) = CS!insert(d, "linkedaccount", o)
  BY DEF CS!CreateUserLA, CS!IsOK, CS!InsertLinkedAccount
<1>2. o.id = d.next /\ o.rs = rs /\ o.ruser = rq.ruser
  OBVIOUS
<1> HIDE DEF rs, o
<1>3. "linkedaccount" \in CS!Kinds
  BY DEF CS!Kinds
<1>4. d.next \in Nat /\ \A a \in d["linkedaccount"] : a.id \in Nat /\ a.id < d.next
  BY <1>3, RowsOK DEF RowOK
<1>5. RowOK(d.next + 1, "linkedaccount", o)
  BY <1>2, <1>4 DEF RowOK
<1>6. \A a \in d["linkedaccount"] : ~SameKey("linkedaccount", a, o)
  BY <1>1, <1>2, <1>4 DEF SameKey, CS!GetLinkedAccountByRemoteUserIDandSource,
     CS!fetchLinkedAccounts
<1> QED BY <1>1, <1>2, <1>3, <1>5, <1>6, InsertedRow

\* The query for a token of the same name joins with the user, who was found.
LEMMA CreateUserTokenOK ==
    ASSUME NEW d, DatabaseOK(d), NEW ref, NEW name, CS!IsOK(CS!CreateUserToken(d, ref, name))
    PROVE  DatabaseOK(CS!CreateUserToken(d, ref, name))
<1> DEFINE user == CS!The(CS!GetUser(d, ref))
           o == [id |-> d.next, user |-> user.id, name |-> name, value |-> d.next]
<1>1. /\ CS!One(CS!GetUser(d, ref)) /\ CS!GetUserToken(d, user.id, name) = {}
      /\ CS!CreateUserToken(d, ref, name) = CS!insert(d, "usertoken", o)
  BY Zenon DEF CS!CreateUserToken, CS!IsOK, CS!InsertUserToken
<1>2. o.id = d.next /\ o.user = user.id /\ o.name = name
  OBVIOUS
<1> HIDE DEF o
<1>3. user \in d.user
  BY <1>1, TheRow DEF CS!GetUser, CS!GetUserByID, CS!GetUserByName, CS!fetchUsers
<1> HIDE DEF user
<1>4. "usertoken" \in CS!Kinds
  BY DEF CS!Kinds
<1>5. d.next \in Nat /\ \A a \in d["usertoken"] : a.id \in Nat /\ a.id < d.next
  BY <1>4, RowsOK DEF RowOK
<1>6. RowOK(d.next + 1, "usertoken", o)
  BY <1>2, <1>5 DEF RowOK
<1>7. \A a \in d["usertoken"] : ~SameKey("usertoken", a, o)
  BY <1>1, <1>2, <1>3, <1>5 DEF SameKey, CS!GetUserToken, CS!GetUserTokens, CS!fetchUserTokens,
     CS!HasRow
<1> QED BY <1>1, <1>2, <1>4, <1>6, <1>7, InsertedRow

LEMMA CreateOrgOK ==
    ASSUME NEW d, DatabaseOK(d), NEW rq, CS!IsOK(CS!CreateOrg(d, rq))
    PROVE  DatabaseOK(CS!CreateOrg(d, rq))
<1> DEFINE org == [id |-> d.next, name |-> rq.name, vis |-> rq.vis]
           d1 == CS!InsertOrganization(d, org)
           m == [id |-> d1.next, org |-> org.id, user |-> rq.creator, role |-> "owner"]
           d2 == IF rq.creator = 0 THEN d1 ELSE CS!InsertOrganizationMember(d1, m)
<1>1. /\ CS!GetOrgByName(d, rq.name) = {}
      /\ CS!CreateOrg(d, rq) = CS!InsertProjectGroup(d2, CS!rootGroup(d2, "org", org.id, rq.vis))
  BY DEF CS!CreateOrg, CS!IsOK
<1>2. {"org", "orgmember", "projectgroup"} \subseteq CS!Kinds
  BY DEF CS!Kinds
<1>3. /\ d.next \in Nat
      /\ \A a \in d.org : a.id \in Nat /\ a.id < d.next
      /\ \A a \in d.orgmember : a.id \in Nat /\ a.id < d.next /\ a.org \in Nat /\ a.org < d.next
      /\ \A a \in d.projectgroup : a.parent.id \in Nat /\ a.parent.id < d.next
  BY <1>2, RowsOK DEF RowOK
<1>4. RowOK(d.next + 1, "org", org) /\ \A a \in d["org"] : ~SameKey("org", a, org)
  BY <1>1, <1>3 DEF RowOK, SameKey, CS!GetOrgByName, CS!fetchOrganizations
<1>5. /\ DatabaseOK(d1) /\ d1.next = d.next + 1
      /\ d1["orgmember"] = d["orgmember"] /\ d1["projectgroup"] = d["projectgroup"]
  <2>1. org.id = d.next /\ d1 = CS!insert(d, "org", org)
    BY DEF CS!InsertOrganization
  <2> HIDE DEF org, d1
  <2> QED BY <1>2, <1>4, <2>1, InsertedRow
<1> HIDE DEF d1
<1>6. CASE rq.creator = 0
  <2>1. d2 = d1
    BY <1>6
  <2> QED BY <1>1, <1>3, <1>5, <2>1, RootGroupOK
<1>7. CASE rq.creator # 0
  <2>1. RowOK(d1.next + 1, "orgmember", m)
    BY <1>3, <1>5 DEF RowOK
  <2>2. \A a \in d1["orgmember"] : ~SameKey("orgmember", a, m)
    BY <1>3, <1>5 DEF SameKey
  <2>3. d2 = CS!insert(d1, "orgmember", m)
    BY <1>7 DEF CS!InsertOrganizationMember
  <2>4. DatabaseOK(d2) /\ d2.next = d1.next + 1 /\ d2["projectgroup"] = d1["projectgroup"]
    BY <1>2, <1>5, <2>1, <2>2, <2>3, InsertedRow
  <2> HIDE DEF d2
  <2> QED BY <1>1, <1>3, <1>5, <2>4, RootGroupOK
<1> QED BY <1>6, <1>7

\* A member whose role changes is inserted with the id it has, and refused.
LEMMA AddOrgMemberOK ==
    ASSUME NEW d, DatabaseOK(d), NEW oref, NEW uref, NEW role,
           CS!IsOK(CS!AddOrgMember(d, oref, uref, role))
    PROVE  DatabaseOK(CS!AddOrgMember(d, oref, uref, role))
<1> DEFINE org == CS!The(CS!GetOrg(d, oref))
           user == CS!The(CS!GetUser(d, uref))
           cur == CS!GetOrgMemberByOrgUserID(d, org.id, user.id)
           o == [id |-> d.next, org |-> org.id, user |-> user.id, role |-> role]
           r == [CS!The(cur) EXCEPT !.role = role]
<1>1. /\ CS!One(CS!GetOrg(d, oref))
      /\ \/ cur = {} /\ CS!AddOrgMember(d, oref, uref, role) = CS!insert(d, "orgmember", o)
         \/ CS!AddOrgMember(d, oref, uref, role) = d
         \/ CS!One(cur) /\ CS!AddOrgMember(d, oref, uref, role) = CS!insert(d, "orgmember", r)
  BY DEF CS!AddOrgMember, CS!IsOK, CS!InsertOrganizationMember
<1>2. {"orgmember", "org"} \subseteq CS!Kinds
  BY DEF CS!Kinds
<1>3. org \in d["org"]
  BY <1>1, TheRow DEF CS!GetOrg, CS!GetOrgByID, CS!GetOrgByName, CS!fetchOrganizations
<1>4. d.next \in Nat /\ org.id \in Nat /\ org.id < d.next
  BY <1>2, <1>3, RowsOK DEF RowOK
<1>5. \A a \in d["orgmember"] : a.id \in Nat /\ a.id < d.next /\ "id" \in DOMAIN a
  BY <1>2, RowsOK DEF RowOK
<1>6. CASE cur = {} /\ CS!AddOrgMember(d, oref, uref, role) = CS!insert(d, "orgmember", o)
  <2>1. o.id = d.next /\ o.org = org.id /\ o.user = user.id /\ DOMAIN o = {"id", "org", "user", "role"}
    OBVIOUS
  <2> HIDE DEF o, org, user
  <2>2. RowOK(d.next + 1, "orgmember", o)
    BY <1>4, <2>1 DEF RowOK
  <2>3. \A a \in d["orgmember"] : ~SameKey("orgmember", a, o)
    BY <1>4, <1>5, <1>6, <2>1 DEF SameKey, CS!GetOrgMemberByOrgUserID, CS!fetchOrganizationMembers
  <2> QED BY <1>2, <1>6, <2>1, <2>2, <2>3, InsertedRow
<1>7. CASE CS!One(cur) /\ CS!AddOrgMember(d, oref, uref, role) = CS!insert(d, "orgmember", r)
  <2>1. CS!The(cur) \in d["orgmember"]
    BY <1>7, TheRow DEF CS!GetOrgMemberByOrgUserID, CS!fetchOrganizationMembers
  <2>2. r.id = CS!The(cur).id
    BY <1>5, <2>1
  <2>3. CS!insert(d, "orgmember", r) = CS!Refused
    BY <2>1, <2>2, Zenon DEF CS!insert, CS!HasRow
  <2> QED BY <1>7, <2>3 DEF CS!IsOK
<1> QED BY <1>1, <1>6, <1>7

\* what a reference to a group stands for is one of the rows
LEMMA GroupRows ==
    ASSUME NEW d, NEW ref
    PROVE  CS!GetProjectGroup(d, ref) \subseteq d.projectgroup
<1>1. CS!GetProjectGroupByID(d, ref.id) \subseteq d.projectgroup
  BY DEF CS!GetProjectGroupByID, CS!fetchProjectGroups
<1>2. CS!GetProjectGroupByPath(d, ref.path) \subseteq d.projectgroup
  BY Zenon DEF CS!GetProjectGroupByPath, CS!fetchProjectGroups
<1> QED BY <1>1, <1>2, Zenon DEF CS!GetProjectGroup

LEMMA ProjectRows ==
    ASSUME NEW d, NEW ref
    PROVE  CS!GetProject(d, ref) \subseteq d.project
<1>1. CS!GetProjectByID(d, ref.id) \subseteq d.project
  BY DEF CS!GetProjectByID, CS!fetchProjects
<1>2. \A pid, n : CS!GetProjectByName(d, pid, n) \subseteq d.project
  BY DEF CS!GetProjectByName, CS!fetchProjects
<1>3. CS!GetProjectByPath(d, ref.path) \subseteq d.project
  BY <1>2, Zenon DEF CS!GetProjectByPath
<1> QED BY <1>1, <1>3, Zenon DEF CS!GetProject

LEMMA CreateProjectGroupOK ==
    ASSUME NEW d, DatabaseOK(d), NEW rq, CS!IsOK(CS!CreateProjectGroup(d, rq))
    PROVE  DatabaseOK(CS!CreateProjectGroup(d, rq))
<1> DEFINE parent == CS!The(CS!GetProjectGroup(d, rq.parent))
           o == [id |-> d.next, name |-> rq.name, vis |-> rq.vis,
                 parent |-> CS!Parent("projectgroup", parent.id)]
<1>1. /\ CS!One(CS!GetProjectGroup(d, rq.parent))
      /\ CS!GetProjectGroupByName(d, parent.id, rq.name) = {}
      /\ CS!CreateProjectGroup(d, rq) = CS!insert(d, "projectgroup", o)
  BY DEF CS!CreateProjectGroup, CS!IsOK, CS!InsertProjectGroup
<1>2. /\ o.id = d.next /\ o.name = rq.name /\ o.parent.id = parent.id
      /\ DOMAIN o = {"id", "name", "vis", "parent"}
  BY DEF CS!Parent
<1> HIDE DEF o
<1>3. parent \in d["projectgroup"] /\ "projectgroup" \in CS!Kinds
  BY <1>1, TheRow, GroupRows DEF CS!Kinds
<1> HIDE DEF parent
<1>4. /\ d.next \in Nat /\ parent.id \in Nat /\ parent.id < d.next
      /\ \A a \in d["projectgroup"] : a.id \in Nat /\ a.id < d.next
  BY <1>3, RowsOK DEF RowOK
<1>5. RowOK(d.next + 1, "projectgroup", o)
  BY <1>2, <1>4 DEF RowOK
<1>6. \A a \in d["projectgroup"] : ~SameKey("projectgroup", a, o)
  BY <1>1, <1>2, <1>4 DEF SameKey, CS!GetProjectGroupByName, CS!fetchProjectGroups
<1> QED BY <1>1, <1>2, <1>3, <1>5, <1>6, InsertedRow

\* A group gets a name and a parent that no other group has.
LEMMA UpdateProjectGroupOK ==
    ASSUME NEW d, DatabaseOK(d), NEW ref, NEW rq, CS!IsOK(CS!UpdateProjectGroup(d, ref, rq))
    PROVE  DatabaseOK(CS!UpdateProjectGroup(d, ref, rq))
<1> DEFINE rows == UNION {CS!updatedGroups(d, group, rq) : group \in CS!GetProjectGroup(d, ref)}
           o == CS!The(rows)
<1>1. CS!One(rows) /\ CS!UpdateProjectGroup(d, ref, rq) = CS!update(d, "projectgroup", o)
  <2> DEFINE F(new) == IF CS!ValidateProjectGroupReq(rq) /\ CS!One(new)
                       THEN CS!UpdateProjectGroupRow(d, CS!The(new)) ELSE CS!Refused
  <2>1. CS!UpdateProjectGroup(d, ref, rq) = CS!The({F(new) : new \in {rows}})
    BY DEF CS!UpdateProjectGroup
  <2>2. \A x : CS!The({x}) = x
    BY DEF CS!The
  <2> HIDE DEF rows
  <2>3. {F(new) : new \in {rows}} = {F(rows)}
    <3> HIDE DEF F
    <3> QED OBVIOUS
  <2> QED BY <2>1, <2>2, <2>3 DEF CS!IsOK, CS!UpdateProjectGroupRow
<1>2. o \in rows
  BY <1>1, TheRow
<1>3. PICK group \in d["projectgroup"] : o \in CS!updatedGroups(d, group, rq)
  BY <1>2, GroupRows
<1> HIDE DEF rows, o
<1>4. PICK p \in CS!newGroupParents(d, group, rq) :
        /\ o = [group EXCEPT !.name = rq.name, !.parent = p, !.vis = rq.vis]
        /\ group.name # rq.name \/ group.parent.id # p.id =>
              CS!GetProjectGroupByName(d, p.id, rq.name) = {}
  BY <1>3 DEF CS!updatedGroups, CS!movesGroupOK
<1>5. "projectgroup" \in CS!Kinds
  BY DEF CS!Kinds
<1>6. /\ d.next \in Nat /\ {"id", "name", "parent"} \subseteq DOMAIN group
      /\ group.parent.id \in Nat /\ group.parent.id < d.next
      /\ \A a \in d["projectgroup"] : a.id \in Nat /\ a.id < d.next
  BY <1>5, RowsOK DEF RowOK
<1>7. p.id \in Nat /\ p.id < d.next
  <2>1. p = group.parent \/ \E g \in d["projectgroup"] : p = CS!Parent("projectgroup", g.id)
    BY GroupRows DEF CS!newGroupParents
  <2> QED BY <1>6, <2>1 DEF CS!Parent
<1>8. o.id = group.id /\ o.name = rq.name /\ o.parent = p /\ DOMAIN o = DOMAIN group
  BY <1>4, <1>6
<1>9. RowOK(d.next, "projectgroup", o)
  BY <1>6, <1>7, <1>8 DEF RowOK
<1>10. \A a \in d["projectgroup"] : a.id # o.id => ~SameKey("projectgroup", a, o)
  <2>1. \A a \in d["projectgroup"] : a.name = group.name /\ a.parent.id = group.parent.id => a = group
    BY <1>5, RowsOK DEF SameKey
  <2>2. \A a \in d["projectgroup"] : ~(a.id # o.id /\ a.name = rq.name /\ a.parent.id = p.id)
    BY <1>4, <1>8, <2>1 DEF CS!GetProjectGroupByName, CS!fetchProjectGroups
  <2> QED BY <1>8, <2>2 DEF SameKey
<1> QED BY <1>1, <1>5, <1>9, <1>10, UpdatedRow

LEMMA CreateProjectOK ==
    ASSUME NEW d, DatabaseOK(d), NEW rq, CS!IsOK(CS!CreateProject(d, rq))
    PROVE  DatabaseOK(CS!CreateProject(d, rq))
<1> DEFINE pid == CS!The(CS!GetProjectGroup(d, rq.parent)).id
           o == CS!projectRow(d.next, rq, pid)
<1>1. CS!GetProjectByName(d, pid, rq.name) = {} /\ CS!CreateProject(d, rq) = CS!insert(d, "project", o)
  BY DEF CS!CreateProject, CS!IsOK, CS!InsertProject
<1>2. o.id = d.next /\ o.name = rq.name /\ o.parent.id = pid
  BY DEF CS!projectRow, CS!Parent
<1> HIDE DEF o, pid
<1>3. "project" \in CS!Kinds
  BY DEF CS!Kinds
<1>4. d.next \in Nat /\ \A a \in d["project"] : a.id \in Nat /\ a.id < d.next
  BY <1>3, RowsOK DEF RowOK
<1>5. RowOK(d.next + 1, "project", o)
  BY <1>2, <1>4 DEF RowOK
<1>6. \A a \in d["project"] : ~SameKey("project", a, o)
  BY <1>1, <1>2, <1>4 DEF SameKey, CS!GetProjectByName, CS!fetchProjects
<1> QED BY <1>1, <1>2, <1>3, <1>5, <1>6, InsertedRow

LEMMA UpdateProjectOK ==
    ASSUME NEW d, DatabaseOK(d), NEW ref, NEW rq, CS!IsOK(CS!UpdateProject(d, ref, rq))
    PROVE  DatabaseOK(CS!UpdateProject(d, ref, rq))
<1> DEFINE project == CS!The(CS!GetProject(d, ref))
           pid == CS!The(CS!GetProjectGroup(d, rq.parent)).id
           o == CS!projectRow(project.id, rq, pid)
<1>1. /\ CS!One(CS!GetProject(d, ref))
      /\ project.name # rq.name \/ project.parent.id # pid => CS!GetProjectByName(d, pid, rq.name) = {}
      /\ CS!UpdateProject(d, ref, rq) = CS!update(d, "project", o)
  BY DEF CS!UpdateProject, CS!IsOK, CS!UpdateProjectRow
<1>2. o.id = project.id /\ o.name = rq.name /\ o.parent.id = pid
  BY DEF CS!projectRow, CS!Parent
<1>3. project \in d["project"] /\ "project" \in CS!Kinds
  BY <1>1, TheRow, ProjectRows DEF CS!Kinds
<1> HIDE DEF o, pid, project
<1>4. RowOK(d.next, "project", o)
  BY <1>2, <1>3, RowsOK DEF RowOK
<1>5. \A a \in d["project"] : a.id # o.id => ~SameKey("project", a, o)
  <2>1. \A a \in d["project"] : a.name = project.name /\ a.parent.id = project.parent.id => a = project
    BY <1>3, RowsOK DEF SameKey
  <2>2. \A a \in d["project"] : ~(a.id # o.id /\ a.name = rq.name /\ a.parent.id = pid)
    BY <1>1, <1>2, <2>1 DEF CS!GetProjectByName, CS!fetchProjects
  <2> QED BY <1>2, <2>2 DEF SameKey
<1> QED BY <1>1, <1>3, <1>4, <1>5, UpdatedRow

LEMMA CreateSecretOK ==
    ASSUME NEW d, DatabaseOK(d), NEW rq, CS!IsOK(CS!CreateSecret(d, rq))
    PROVE  DatabaseOK(CS!CreateSecret(d, rq))
<1> DEFINE pid == CS!ResolveObjectID(d, rq.kind, rq.parent)
           o == [id |-> d.next, name |-> rq.name, data |-> rq.data,
                 parent |-> CS!Parent(rq.kind, pid)]
<1>1. /\ CS!GetSecretByName(d, pid, rq.name) = {}
      /\ CS!CreateSecret(d, rq) = CS!insert(d, "secret", o)
  BY DEF CS!CreateSecret, CS!IsOK, CS!InsertSecret
<1>2. /\ o.id = d.next /\ o.name = rq.name /\ o.parent.id = pid
      /\ DOMAIN o = {"id", "name", "data", "parent"}
  BY DEF CS!Parent
<1> HIDE DEF o, pid
<1>3. "secret" \in CS!Kinds
  BY DEF CS!Kinds
<1>4. d.next \in Nat /\ \A a \in d["secret"] : a.id \in Nat /\ a.id < d.next
  BY <1>3, RowsOK DEF RowOK
<1>5. RowOK(d.next + 1, "secret", o)
  BY <1>2, <1>4 DEF RowOK
<1>6. \A a \in d["secret"] : ~SameKey("secret", a, o)
  BY <1>1, <1>2, <1>4 DEF SameKey, CS!GetSecretByName, CS!fetchSecrets
<1> QED BY <1>1, <1>2, <1>3, <1>5, <1>6, InsertedRow

LEMMA UpdateSecretOK ==
    ASSUME NEW d, DatabaseOK(d), NEW cur, NEW rq, CS!IsOK(CS!UpdateSecret(d, cur, rq))
    PROVE  DatabaseOK(CS!UpdateSecret(d, cur, rq))
<1> DEFINE pid == CS!ResolveObjectID(d, rq.kind, rq.parent)
           old == CS!The(CS!GetSecretByName(d, pid, cur))
           o == [old EXCEPT !.name = rq.name, !.data = rq.data]
<1>1. /\ CS!One(CS!GetSecretByName(d, pid, cur))
      /\ cur # rq.name => CS!GetSecretByName(d, pid, rq.name) = {}
      /\ CS!UpdateSecret(d, cur, rq) = CS!update(d, "secret", o)
  BY DEF CS!UpdateSecret, CS!IsOK, CS!UpdateSecretRow
<1>2. old \in d["secret"] /\ old.name = cur /\ old.parent.id = pid
  BY <1>1, TheRow DEF CS!GetSecretByName, CS!fetchSecrets
<1>3. "secret" \in CS!Kinds
  BY DEF CS!Kinds
<1>4. {"id", "name", "parent"} \subseteq DOMAIN old
  BY <1>2, <1>3, RowsOK DEF RowOK
<1>5. o.id = old.id /\ o.name = rq.name /\ o.parent = old.parent /\ DOMAIN o = DOMAIN old
  <2> HIDE DEF old
  <2> QED BY <1>4
<1> HIDE DEF o, old, pid
<1>6. RowOK(d.next, "secret", o)
  BY <1>2, <1>3, <1>4, <1>5, RowsOK DEF RowOK
<1>7. \A a \in d["secret"] : a.id # o.id => ~SameKey("secret", a, o)
  <2>1. \A a \in d["secret"] : a.name = old.name /\ a.parent.id = old.parent.id => a = old
    BY <1>2, <1>3, RowsOK DEF SameKey
  <2>2. \A a \in d["secret"] : ~(a.id # o.id /\ a.name = rq.name /\ a.parent.id = pid)
    BY <1>1, <1>2, <1>5, <2>1 DEF CS!GetSecretByName, CS!fetchSecrets
  <2> QED BY <1>2, <1>5, <2>2 DEF SameKey
<1> QED BY <1>1, <1>3, <1>6, <1>7, UpdatedRow

LEMMA CreateVariableOK ==
    ASSUME NEW d, DatabaseOK(d), NEW rq, CS!IsOK(CS!CreateVariable(d, rq))
    PROVE  DatabaseOK(CS!CreateVariable(d, rq))
<1> DEFINE pid == CS!ResolveObjectID(d, rq.kind, rq.parent)
           o == [id |-> d.next, name |-> rq.name, values |-> rq.values,
                 parent |-> CS!Parent(rq.kind, pid)]
<1>1. /\ CS!GetVariableByName(d, pid, rq.name) = {}
      /\ CS!CreateVariable(d, rq) = CS!insert(d, "variable", o)
  BY DEF CS!CreateVariable, CS!IsOK, CS!InsertVariable
<1>2. /\ o.id = d.next /\ o.name = rq.name /\ o.parent.id = pid
      /\ DOMAIN o = {"id", "name", "values", "parent"}
  BY DEF CS!Parent
<1> HIDE DEF o, pid
<1>3. "variable" \in CS!Kinds
  BY DEF CS!Kinds
<1>4. d.next \in Nat /\ \A a \in d["variable"] : a.id \in Nat /\ a.id < d.next
  BY <1>3, RowsOK DEF RowOK
<1>5. RowOK(d.next + 1, "variable", o)
  BY <1>2, <1>4 DEF RowOK
<1>6. \A a \in d["variable"] : ~SameKey("variable", a, o)
  BY <1>1, <1>2, <1>4 DEF SameKey, CS!GetVariableByName, CS!fetchVariables
<1> QED BY <1>1, <1>2, <1>3, <1>5, <1>6, InsertedRow

LEMMA UpdateVariableOK ==
    ASSUME NEW d, DatabaseOK(d), NEW cur, NEW rq, CS!IsOK(CS!UpdateVariable(d, cur, rq))
    PROVE  DatabaseOK(CS!UpdateVariable(d, cur, rq))
<1> DEFINE pid == CS!ResolveObjectID(d, rq.kind, rq.parent)
           old == CS!The(CS!GetVariableByName(d, pid, cur))
           o == [old EXCEPT !.name = rq.name, !.values = rq.values]
<1>1. /\ CS!One(CS!GetVariableByName(d, pid, cur))
      /\ cur # rq.name => CS!GetVariableByName(d, pid, rq.name) = {}
      /\ CS!UpdateVariable(d, cur, rq) = CS!update(d, "variable", o)
  BY DEF CS!UpdateVariable, CS!IsOK, CS!UpdateVariableRow
<1>2. old \in d["variable"] /\ old.name = cur /\ old.parent.id = pid
  BY <1>1, TheRow DEF CS!GetVariableByName, CS!fetchVariables
<1>3. "variable" \in CS!Kinds
  BY DEF CS!Kinds
<1>4. {"id", "name", "parent"} \subseteq DOMAIN old
  BY <1>2, <1>3, RowsOK DEF RowOK
<1>5. o.id = old.id /\ o.name = rq.name /\ o.parent = old.parent /\ DOMAIN o = DOMAIN old
  <2> HIDE DEF old
  <2> QED BY <1>4
<1> HIDE DEF o, old, pid
<1>6. RowOK(d.next, "variable", o)
  BY <1>2, <1>3, <1>4, <1>5, RowsOK DEF RowOK
<1>7. \A a \in d["variable"] : a.id # o.id => ~SameKey("variable", a, o)
  <2>1. \A a \in d["variable"] : a.name = old.name /\ a.parent.id = old.parent.id => a = old
    BY <1>2, <1>3, RowsOK DEF SameKey
  <2>2. \A a \in d["variable"] : ~(a.id # o.id /\ a.name = rq.name /\ a.parent.id = pid)
    BY <1>1, <1>2, <1>5, <2>1 DEF CS!GetVariableByName, CS!fetchVariables
  <2> QED BY <1>2, <1>5, <2>2 DEF SameKey
<1> QED BY <1>1, <1>3, <1>6, <1>7, UpdatedRow

LEMMA CreateRemoteSourceOK ==
    ASSUME NEW d, DatabaseOK(d), NEW rq, CS!IsOK(CS!CreateRemoteSource(d, rq))
    PROVE  DatabaseOK(CS!CreateRemoteSource(d, rq))
<1> DEFINE o == CS!remoteSourceRow(d.next, rq)
<1>1. /\ CS!GetRemoteSourceByName(d, rq.name) = {}
      /\ CS!CreateRemoteSource(d, rq) = CS!insert(d, "remotesource", o)
  BY DEF CS!CreateRemoteSource, CS!IsOK, CS!InsertRemoteSource
<1>2. o.id = d.next /\ o.name = rq.name
  BY DEF CS!remoteSourceRow
<1> HIDE DEF o
<1>3. "remotesource" \in CS!Kinds
  BY DEF CS!Kinds
<1>4. d.next \in Nat /\ \A a \in d["remotesource"] : a.id \in Nat /\ a.id < d.next
  BY <1>3, RowsOK DEF RowOK
<1>5. RowOK(d.next + 1, "remotesource", o)
  BY <1>2, <1>4 DEF RowOK
<1>6. \A a \in d["remotesource"] : ~SameKey("remotesource", a, o)
  BY <1>1, <1>2, <1>4 DEF SameKey, CS!GetRemoteSourceByName, CS!fetchRemoteSources
<1> QED BY <1>1, <1>2, <1>3, <1>5, <1>6, InsertedRow

LEMMA UpdateRemoteSourceOK ==
    ASSUME NEW d, DatabaseOK(d), NEW ref, NEW rq, CS!IsOK(CS!UpdateRemoteSource(d, ref, rq))
    PROVE  DatabaseOK(CS!UpdateRemoteSource(d, ref, rq))
<1> DEFINE rows == IF ref.by = "name" THEN CS!GetRemoteSourceByName(d, ref.name) ELSE {}
           old == CS!The(rows)
           o == CS!remoteSourceRow(old.id, rq)
<1>1. /\ CS!One(rows) /\ (old.name # rq.name => CS!GetRemoteSourceByName(d, rq.name) = {})
      /\ CS!UpdateRemoteSource(d, ref, rq) = CS!update(d, "remotesource", o)
  BY DEF CS!UpdateRemoteSource, CS!IsOK, CS!UpdateRemoteSourceRow
<1>2. old \in rows
  BY <1>1, TheRow
<1>3. old \in d["remotesource"] /\ "remotesource" \in CS!Kinds
  BY <1>2 DEF CS!GetRemoteSourceByName, CS!fetchRemoteSources, CS!Kinds
<1>4. o.id = old.id /\ o.name = rq.name
  BY DEF CS!remoteSourceRow
<1> HIDE DEF o, old, rows
<1>5. RowOK(d.next, "remotesource", o)
  BY <1>3, <1>4, RowsOK DEF RowOK
<1>6. \A a \in d["remotesource"] : a.id # o.id => ~SameKey("remotesource", a, o)
  <2>1. \A a \in d["remotesource"] : a.name = old.name => a = old
    BY <1>3, RowsOK DEF SameKey
  <2>2. \A a \in d["remotesource"] : ~(a.id # o.id /\ a.name = rq.name)
    BY <1>1, <1>4, <2>1 DEF CS!GetRemoteSourceByName, CS!fetchRemoteSources
  <2> QED BY <1>4, <2>2 DEF SameKey
<1> QED BY <1>1, <1>3, <1>5, <1>6, UpdatedRow

\* The user is saved as it was read.
LEMMA UpdateUserLAOK ==
    ASSUME NEW d, DatabaseOK(d), NEW rq, CS!IsOK(CS!UpdateUserLA(d, rq))
    PROVE  DatabaseOK(CS!UpdateUserLA(d, rq))
<1> DEFINE o == CS!The(CS!GetUser(d, rq.user))
<1>1. CS!One(CS!GetUser(d, rq.user)) /\ CS!UpdateUserLA(d, rq) = CS!update(d, "user", o)
  BY DEF CS!UpdateUserLA, CS!IsOK, CS!UpdateUserRow
<1>2. o \in d["user"] /\ "user" \in CS!Kinds
  BY <1>1, TheRow DEF CS!GetUser, CS!GetUserByID, CS!GetUserByName, CS!fetchUsers, CS!Kinds
<1> HIDE DEF o
<1>3. RowOK(d.next, "user", o) /\ \A a \in d["user"] : SameKey("user", a, o) => a = o
  BY <1>2, RowsOK
<1> QED BY <1>1, <1>2, <1>3, UpdatedRow

\* A deletion takes rows away from one table, and leaves those that refer to
\* them.
LEMMA DeletesOK ==
    ASSUME NEW d, DatabaseOK(d), NEW ref, NEW name, NEW kind, NEW e, CS!IsOK(e),
           \/ e = CS!DeleteUser(d, ref) \/ e = CS!DeleteUserLA(d, ref, name)
           \/ e = CS!DeleteUserToken(d, ref, name) \/ e = CS!DeleteOrg(d, ref)
           \/ e = CS!RemoveOrgMember(d, ref, name) \/ e = CS!DeleteProjectGroup(d, ref)
           \/ e = CS!DeleteProject(d, ref) \/ e = CS!DeleteRemoteSource(d, ref)
           \/ e = CS!DeleteSecret(d, kind, ref, name) \/ e = CS!DeleteVariable(d, kind, ref, name)
    PROVE  DatabaseOK(e)
<1>1. {"user", "linkedaccount", "usertoken", "org", "orgmember", "projectgroup", "project",
       "remotesource", "secret", "variable"} \subseteq CS!Kinds
  BY DEF CS!Kinds
<1>2. e = CS!DeleteUser(d, ref) => \E id : e = CS!delete(d, "user", id)
  BY Zenon DEF CS!DeleteUser, CS!DeleteUserRow, CS!IsOK
<1>3. e = CS!DeleteUserLA(d, ref, name) => \E id : e = CS!delete(d, "linkedaccount", id)
  BY Zenon DEF CS!DeleteUserLA, CS!DeleteLinkedAccountRow, CS!IsOK
<1>4. e = CS!DeleteUserToken(d, ref, name) => \E id : e = CS!delete(d, "usertoken", id)
  BY Zenon DEF CS!DeleteUserToken, CS!DeleteUserTokenRow, CS!IsOK
<1>5. e = CS!DeleteOrg(d, ref) => \E id : e = CS!delete(d, "org", id)
  BY Zenon DEF CS!DeleteOrg, CS!DeleteOrganizationRow, CS!IsOK
<1>6. e = CS!RemoveOrgMember(d, ref, name) => \E id : e = CS!delete(d, "orgmember", id)
  BY Zenon DEF CS!RemoveOrgMember, CS!DeleteOrganizationMemberRow, CS!IsOK
<1>7. e = CS!DeleteProjectGroup(d, ref) => \E id : e = CS!delete(d, "projectgroup", id)
  BY Zenon DEF CS!DeleteProjectGroup, CS!DeleteProjectGroupRow, CS!IsOK
<1>8. e = CS!DeleteProject(d, ref) => \E id : e = CS!delete(d, "project", id)
  BY Zenon DEF CS!DeleteProject, CS!DeleteProjectRow, CS!IsOK
<1>9. e = CS!DeleteRemoteSource(d, ref) => \E id : e = CS!delete(d, "remotesource", id)
  BY Zenon DEF CS!DeleteRemoteSource, CS!DeleteRemoteSourceRow, CS!IsOK
<1>10. e = CS!DeleteSecret(d, kind, ref, name) => \E id : e = CS!delete(d, "secret", id)
  BY Zenon DEF CS!DeleteSecret, CS!DeleteSecretRow, CS!IsOK
<1>11. e = CS!DeleteVariable(d, kind, ref, name) => \E id : e = CS!delete(d, "variable", id)
  BY Zenon DEF CS!DeleteVariable, CS!DeleteVariableRow, CS!IsOK
<1>12. \E k \in CS!Kinds : \E id : e = CS!delete(d, k, id)
  BY <1>1, <1>2, <1>3, <1>4, <1>5, <1>6, <1>7, <1>8, <1>9, <1>10, <1>11
<1> QED BY <1>12, DeletedRow

-----------------------------------------------------------------------------
(* The sessions.                                                            *)

\* The call of a plan, whatever plan it is.
LEMMA ApplyOK ==
    ASSUME NEW d, DatabaseOK(d), NEW p, CS!IsOK(apply(d, p))
    PROVE  DatabaseOK(apply(d, p))
<1> DEFINE e == apply(d, p)
<1>1. \/ e = CS!CreateOrg(d, p.rq) \/ e = CS!AddOrgMember(d, p.ref, p.rq.user, p.rq.role)
      \/ e = CS!CreateProjectGroup(d, p.rq) \/ e = CS!UpdateProjectGroup(d, p.ref, p.rq)
      \/ e = CS!CreateProject(d, p.rq) \/ e = CS!UpdateProject(d, p.ref, p.rq)
      \/ e = CS!CreateSecret(d, p.rq) \/ e = CS!UpdateSecret(d, p.ref.name, p.rq)
      \/ e = CS!CreateVariable(d, p.rq) \/ e = CS!UpdateVariable(d, p.ref.name, p.rq)
      \/ e = CS!CreateRemoteSource(d, p.rq) \/ e = CS!UpdateRemoteSource(d, p.ref, p.rq)
      \/ e = CS!CreateUser(d, p.rq) \/ e = CS!CreateUserToken(d, p.ref, p.rq.name)
      \/ \E rq : e = CS!CreateUserLA(d, rq) \/ e = CS!UpdateUserLA(d, rq)
      \/ e = CS!DeleteUser(d, p.ref) \/ e = CS!DeleteUserLA(d, p.ref, p.rq.laid)
      \/ e = CS!DeleteUserToken(d, p.ref, p.rq.name) \/ e = CS!DeleteOrg(d, p.ref)
      \/ e = CS!RemoveOrgMember(d, p.ref, p.rq.user) \/ e = CS!DeleteProjectGroup(d, p.ref)
      \/ e = CS!DeleteProject(d, p.ref) \/ e = CS!DeleteRemoteSource(d, p.ref)
      \/ e = CS!DeleteSecret(d, p.rq.kind, p.ref, p.rq.name)
      \/ e = CS!DeleteVariable(d, p.rq.kind, p.ref, p.rq.name)
      \/ e = CS!Refused
  BY Zenon DEF apply, CS!CreateOrgHandler, CS!DeleteOrgHandler, CS!AddOrgMemberHandler,
     CS!RemoveOrgMemberHandler, CS!CreateProjectGroupHandler, CS!UpdateProjectGroupHandler,
     CS!DeleteProjectGroupHandler, CS!CreateProjectHandler, CS!UpdateProjectHandler,
     CS!DeleteProjectHandler, CS!CreateSecretHandler, CS!UpdateSecretHandler,
     CS!DeleteSecretHandler, CS!CreateVariableHandler, CS!UpdateVariableHandler,
     CS!DeleteVariableHandler, CS!CreateRemoteSourceHandler, CS!UpdateRemoteSourceHandler,
     CS!DeleteRemoteSourceHandler, CS!CreateUserHandler, CS!DeleteUserHandler,
     CS!CreateUserTokenHandler, CS!DeleteUserTokenHandler, CS!CreateUserLAHandler,
     CS!UpdateUserLAHandler, CS!DeleteUserLAHandler
<1>2. CS!IsOK(e) /\ e # CS!Refused
  BY DEF CS!IsOK
<1> HIDE DEF e
<1>3. DatabaseOK(e)
  BY <1>1, <1>2, CreateOrgOK, AddOrgMemberOK, CreateProjectGroupOK, UpdateProjectGroupOK, CreateProjectOK,
     UpdateProjectOK, CreateSecretOK, UpdateSecretOK, CreateVariableOK, UpdateVariableOK,
     CreateRemoteSourceOK, UpdateRemoteSourceOK, CreateUserOK, CreateUserTokenOK, CreateUserLAOK,
     UpdateUserLAOK, DeletesOK
<1> QED BY <1>3 DEF e

DatabaseInv == DatabaseOK(db)

LEMMA DatabaseNext == DatabaseInv /\ [Next]_vars => DatabaseInv'
<1> SUFFICES ASSUME DatabaseOK(db), [Next]_vars PROVE DatabaseOK(db')
  BY DEF DatabaseInv
<1>1. ASSUME NEW c \in Clients, Call(c) PROVE DatabaseOK(db')
  BY <1>1, ApplyOK DEF Call
<1>2. ASSUME NEW c \in Clients, CallLost(c) PROVE DatabaseOK(db')
  BY <1>2, ApplyOK DEF CallLost, CS!IsOK
<1>3. ASSUME NEW c \in Clients, UpdateUserLA(c) PROVE DatabaseOK(db')
  <2>1. db' = db \/ \E rq : db' = CS!UpdateUserLA(db, rq) /\ CS!IsOK(db')
    BY <1>3 DEF UpdateUserLA, CS!UpdateUserLAHandler
  <2> QED BY <2>1, UpdateUserLAOK
<1>4. ASSUME NEW c \in Clients, UndoCreate(c) PROVE DatabaseOK(db')
  <2>1. db' = db \/ \E ref : db' = CS!DeleteProject(db, ref) /\ CS!IsOK(db')
    BY <1>4 DEF UndoCreate, CS!DeleteProjectHandler
  <2> QED BY <2>1, DeletesOK
<1>5. db' = db \/ \E c \in Clients : Call(c) \/ CallLost(c) \/ UpdateUserLA(c) \/ UndoCreate(c)
  BY DEF Next, Arrive, RefreshLinkedAccount, GetRepoInfo, UpdateDeployKey, DeleteDeployKey,
     DeleteRepoWebhook, CreateRepoWebhook, GitFailed, Oauth2Callback, Crash, Expire, vars
<1> QED BY <1>1, <1>2, <1>3, <1>4, <1>5

LEMMA DatabaseUnique == DatabaseInv => UniqueRows
<1> SUFFICES ASSUME DatabaseOK(db) PROVE UniqueRows
  BY DEF DatabaseInv
<1>1. \A k \in CS!Kinds : \A a, b \in db[k] : SameKey(k, a, b) => a = b
  BY RowsOK
<1>2. {"user", "org", "remotesource", "projectgroup", "project", "secret", "variable",
       "linkedaccount", "usertoken", "orgmember"} \subseteq CS!Kinds
  BY DEF CS!Kinds
<1> QED BY <1>1, <1>2 DEF UniqueRows, SameKey

\* Whatever requests the clients send and however the sessions interleave,
\* lose answers and crash, a query by name of the configstore finds at most one
\* row: the names are checked by the transaction that writes them, not by the
\* session that looked at them before.
THEOREM RowsAlwaysUnique == Spec => []UniqueRows
<1>1. Init => DatabaseInv
  BY ScenariosAssumption DEF Init, DatabaseInv
<1> QED BY <1>1, DatabaseNext, DatabaseUnique, PTL DEF Spec
=============================================================================
