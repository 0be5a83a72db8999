-------------------------------- MODULE RunDB --------------------------------
(***************************************************************************)
(* The database of the runservice: its tables and its queries              *)
(* (internal/services/runservice/db).  As in ConfigDB a database is a      *)
(* record of tables, a table a set of rows with an id, and an operator a   *)
(* function of the database `d' that a serializable transaction works on.  *)
(*                                                                         *)
(* A group is the sequence of the names of its path.  Paths end with a     *)
(* slash in the table and in the queries, which ask for LIKE 'group/%'     *)
(* with the group as it is: a '_' in it, a '%' of an escaped name and, in  *)
(* sqlite, the case of letters match more than themselves.  The first      *)
(* three names of a group are a type, a uuid and a type and match only     *)
(* themselves; names are escaped and hold no slash, so that a path is      *)
(* matched name by name.                                                   *)
(***************************************************************************)
EXTENDS Integers, Sequences, FiniteSets, SequencesExt

CONSTANT Like    \* the <<p, n>> where the reference's name n is LIKE another one, p

Tables == {"sequence", "changegroup", "run", "runconfig", "runcounter",
           "runevent", "executortask"}
EmptyRunDB == [k \in Tables |-> {}] @@ [next |-> 1]

(* What a transaction that returns an error leaves behind: nothing. *)
Refused == <<>>
IsOK(d) == d # Refused

(***************************************************************************)
(* Writes.  Each maps the database to the one after it, or is Refused when *)
(* it fails; what follows a failed write is refused too, as the whole      *)
(* transaction is rolled back.  The keys of sequences, change groups and   *)
(* run counters are what they are looked up by.  The writes that the code  *)
(* makes in a loop take the set of their rows.                             *)
(***************************************************************************)
HasID(d, k, id) == \E o \in d[k] : o.id = id
without(d, k, ids) == [d EXCEPT ![k] = {o \in d[k] : o.id \notin ids}]
write(d, k, rows) ==
    [d EXCEPT ![k] = {o \in d[k] : \A new \in rows : o.id # new.id} \cup rows]

(* The database after n new ids (uuids in the code) were given out. *)
Fresh(d, n) == [d EXCEPT !.next = d.next + n]

insert(d, k, o) == IF ~IsOK(d) \/ HasID(d, k, o.id) THEN Refused ELSE write(d, k, {o})
update(d, k, rows) ==
    IF ~IsOK(d) \/ (\E o \in rows : ~HasID(d, k, o.id)) THEN Refused ELSE write(d, k, rows)
delete(d, k, ids) == IF ~IsOK(d) THEN Refused ELSE without(d, k, ids)
insertOrUpdate(d, k, rows) == IF ~IsOK(d) THEN Refused ELSE write(d, k, rows)

InsertOrUpdateSequence(d, o) == insertOrUpdate(d, "sequence", {o})
InsertOrUpdateRunCounter(d, o) == insertOrUpdate(d, "runcounter", {o})
InsertOrUpdateChangeGroup(d, rows) == insertOrUpdate(d, "changegroup", rows)
DeleteChangeGroup(d, ids) == delete(d, "changegroup", ids)
InsertRun(d, o) == insert(d, "run", o)
UpdateRun(d, o) == update(d, "run", {o})
InsertRunConfig(d, o) == insert(d, "runconfig", o)
InsertRunEvent(d, o) == insert(d, "runevent", o)
InsertExecutorTask(d, o) == insert(d, "executortask", o)
UpdateExecutorTask(d, rows) == update(d, "executortask", rows)
DeleteExecutorTask(d, id) == delete(d, "executortask", {id})

(***************************************************************************)
(* Reads.  A query returns the set of the rows it selects; the functions   *)
(* that return one object fail when there are several (too many rows), and *)
(* return nil for {}.                                                      *)
(***************************************************************************)
One(rows) == Cardinality(rows) = 1
The(rows) == CHOOSE r \in rows : TRUE

(* The rows of a table as a query scans and unmarshals them; what the      *)
(* query selects of them is the condition of its caller.                   *)
fetchSequences(d) == d.sequence
fetchChangeGroups(d) == d.changegroup
fetchRuns(d) == d.run
fetchRunConfigs(d) == d.runconfig
fetchRunCounters(d) == d.runcounter
fetchRunEvents(d) == d.runevent
fetchExecutorTasks(d) == d.executortask

GetSequence(d, t) == {o \in fetchSequences(d) : o.id = t}
GetRunCounter(d, g) == {o \in fetchRunCounters(d) : o.id = g}
valueOf(rows) == IF rows = {} THEN 0 ELSE The(rows).value

(* The next value of a sequence or counter, and the row that holds it. *)
nextValue(rows, id) == [id |-> id, value |-> valueOf(rows) + 1]
NextSequence(d, t) == nextValue(GetSequence(d, t), t)
(* slip: the counter is read and not kept *)
NextRunCounter_slip(d, g) == [id |-> g, value |-> 1]
NextRunCounter(d, g) == nextValue(GetRunCounter(d, g), g)

GetChangeGroupsByNames(d, names) == {o \in fetchChangeGroups(d) : o.id \in names}

below(g, o) ==
    /\ Len(g) <= Len(o.group)
    /\ \A i \in DOMAIN g : g[i] = o.group[i] \/ (i = 4 /\ <<g[i], o.group[i]>> \in Like)
GetRun(d, id) == {o \in fetchRuns(d) : o.id = id}
GetRunByGroup(d, g, n) == {o \in fetchRuns(d) : below(g, o) /\ o.counter = n}
GetUnarchivedRuns(d) == {o \in fetchRuns(d) : ~o.archived}
GetRunConfig(d, id) == {o \in fetchRunConfigs(d) : o.id = id}

(* A page: what comes after `start' in the order of the column `key',      *)
(* `limit' at most (0: everything).  An empty filter lets everything pass. *)
page(rows, key, start, limit, asc) ==
    LET rest == {o \in rows : start > 0 => IF asc THEN o[key] > start ELSE o[key] < start}
        before(o) == {x \in rest : IF asc THEN x[key] < o[key] ELSE x[key] > o[key]}
    IN  {o \in rest : limit = 0 \/ Cardinality(before(o)) < limit}
passes(filter, v) == filter = {} \/ v \in filter

GetRuns(d, groups, phases, results, start, limit, asc) ==
    page({o \in fetchRuns(d) : /\ passes(phases, o.phase) /\ passes(results, o.result)
                               /\ groups = {} \/ \E g \in groups : below(g, o)},
         "seq", start, limit, asc)
GetGroupRuns(d, g, phases, results, start, limit, asc) ==
    page({o \in fetchRuns(d) : /\ below(g, o) /\ passes(phases, o.phase)
                               /\ passes(results, o.result)},
         "counter", start, limit, asc)

GetRunEventsFromSequence(d, start, limit) ==
    page({o \in fetchRunEvents(d) : o.id > start}, "id", 0, limit, TRUE)
GetLastRunEvent(d) == page(fetchRunEvents(d), "id", 0, 1, FALSE)

GetExecutorTask(d, id) == {o \in fetchExecutorTasks(d) : o.id = id}
GetExecutorTasksByRun(d, r) == {o \in fetchExecutorTasks(d) : o.run = r}
GetExecutorTaskByRunTask(d, r, t) == {o \in fetchExecutorTasks(d) : o.run = r /\ o.id = t}
=============================================================================
