------------------------------ MODULE RunConfig ------------------------------
(***************************************************************************)
(* The configuration of runs: the checks of a parsed configuration         *)
(* (internal/config), the conditions of runs and tasks (services/types)    *)
(* and the graph of a run's tasks (internal/runconfig).                    *)
(*                                                                         *)
(* A configuration is [parses, runs], runs a sequence of [name, when,      *)
(* tasks], tasks a function from names to [depends, when, approval, save,  *)
(* ignore]; depends is a function from the names of the parents to sets of *)
(* conditions.  What the containers and the steps do is left out, except   *)
(* whether a task saves to the workspace.  The tasks of a run config       *)
(* (rcts) are the same with ids in the place of names.                     *)
(***************************************************************************)
EXTENDS Integers, Sequences, FiniteSets, SequencesExt

(***************************************************************************)
(* Conditions.  A simple or regexp condition is the set of names it        *)
(* matches.                                                                *)
(***************************************************************************)
NoConditions == [include |-> {}, exclude |-> {}]
Always == [set |-> FALSE, branch |-> NoConditions, tag |-> NoConditions, ref |-> NoConditions]

matchCondition(conds, n) == n \in conds
(* First the includes, then the excludes. *)
overrides(include, conds, n) ==
    (include \/ matchCondition(conds.include, n)) /\ ~matchCondition(conds.exclude, n)

MatchWhen(when, refType, name, ref) ==
    \/ ~when.set
    \/ LET b == IF refType = "branch" THEN overrides(FALSE, when.branch, name) ELSE FALSE
           t == IF refType = "tag" THEN overrides(b, when.tag, name) ELSE b
       IN  overrides(t, when.ref, ref)

(***************************************************************************)
(* Graphs of tasks.  The worklist of GetAllParents ends when it meets only *)
(* tasks it has already seen: at the latest after as many rounds as there  *)
(* are tasks.                                                              *)
(***************************************************************************)
GetParents(rcts, t) == {p \in DOMAIN rcts : p \in DOMAIN rcts[t].depends}

(* slip: the parents of the last round take the place of the earlier ones *)
GetAllParents_slip(rcts, t) ==
    LET R[n \in 0 .. Cardinality(DOMAIN rcts)] ==
            IF n = 0 THEN GetParents(rcts, t)
            ELSE UNION {GetParents(rcts, p) : p \in R[n - 1]}
    IN  R[Cardinality(DOMAIN rcts)]
GetAllParents(rcts, t) ==
    LET R[n \in 0 .. Cardinality(DOMAIN rcts)] ==
            IF n = 0 THEN GetParents(rcts, t)
            ELSE R[n - 1] \cup UNION {GetParents(rcts, p) : p \in R[n - 1]}
    IN  R[Cardinality(DOMAIN rcts)]

GetParentDependConditions(rcts, t, p) ==
    IF p \in DOMAIN rcts[t].depends THEN rcts[t].depends[p] ELSE {}

circular(rcts) == \E t \in DOMAIN rcts : t \in GetAllParents(rcts, t)

(* A task and one of its parents depend on the same task. *)
commonDependency(rcts) ==
    \E t \in DOMAIN rcts : \E p, q \in GetParents(rcts, t) : q \in GetAllParents(rcts, p)

CheckRunConfigTasks(rcts) == ~circular(rcts) /\ ~commonDependency(rcts)

(* Round n gives level n to the tasks whose parents have a lower one.  A   *)
(* task of a cycle never gets one.                                         *)
NoLevel == -1
GenTasksLevels(rcts) ==
    LET leveled[n \in 0 .. Cardinality(DOMAIN rcts)] ==
            {t \in DOMAIN rcts : IF n = 0 THEN GetParents(rcts, t) = {}
                                 ELSE GetParents(rcts, t) \subseteq leveled[n - 1]}
        rounds(t) == {n \in 0 .. Cardinality(DOMAIN rcts) : t \in leveled[n]}
    IN  [t \in DOMAIN rcts |-> IF rounds(t) = {} THEN NoLevel
                               ELSE CHOOSE n \in rounds(t) : \A m \in rounds(t) : n <= m]
levelsOK(levels) == \A t \in DOMAIN levels : levels[t] # NoLevel

(***************************************************************************)
(* The checks of a configuration: names and references, then the same two  *)
(* checks of its graphs, by name.                                          *)
(***************************************************************************)
getTaskParents(run, t) == GetParents(run.tasks, t)
getAllTaskParents(run, t) == GetAllParents(run.tasks, t)

checkConfig(config) ==
    /\ config.runs # <<>>
    /\ \A i, j \in DOMAIN config.runs : config.runs[i].name = config.runs[j].name => i = j
    /\ \A i \in DOMAIN config.runs :
         LET run == config.runs[i]
         IN  /\ \A t \in DOMAIN run.tasks : DOMAIN run.tasks[t].depends \subseteq DOMAIN run.tasks
             /\ \A t \in DOMAIN run.tasks : t \notin getAllTaskParents(run, t)
             /\ \A t \in DOMAIN run.tasks : \A p, q \in getTaskParents(run, t) :
                    q \notin getAllTaskParents(run, p)

ParseConfig(config) == config.parses /\ checkConfig(config)

(***************************************************************************)
(* From a configuration to the tasks of a run config, whose ids are new:   *)
(* first the tasks, then their dependencies, with on_success for none.     *)
(***************************************************************************)
taskID(run, id, name) == id + (CHOOSE i \in 1 .. Cardinality(DOMAIN run.tasks) :
                                  SetToSeq(DOMAIN run.tasks)[i] = name) - 1
nameOf(run, id, t) == SetToSeq(DOMAIN run.tasks)[t - id + 1]
dependConditions(conds) == IF conds = {} THEN {"on_success"} ELSE conds

GenRunConfigTasks(run, id, refType, name, ref) ==
    [t \in id .. id + Cardinality(DOMAIN run.tasks) - 1 |->
        LET n == nameOf(run, id, t) ct == run.tasks[n]
        IN  [name |-> n, skip |-> ~MatchWhen(ct.when, refType, name, ref),
             approval |-> ct.approval, save |-> ct.save, ignore |-> ct.ignore,
             depends |-> [d \in {taskID(run, id, p) : p \in DOMAIN ct.depends} |->
                            dependConditions(ct.depends[nameOf(run, id, d)])]]]
=============================================================================
