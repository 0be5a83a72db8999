------------------------------- MODULE MCRuns -------------------------------
(***************************************************************************)
(* An instance of Runs for TLC: eight situations, each with the parts of   *)
(* the system that matter to it at work.                                   *)
(***************************************************************************)
EXTENDS Runs, TLC

CONSTANTS c1, c2, n1, n2
Sessions == {c1, c2}
Services == {n1, n2}
Swaps == Permutations(Sessions) \cup Permutations(Services)

(* A branch whose name, as a pattern, matches that of another one. *)
Patterns == {<<"m_ster", "master">>}

project == <<"project", "p">>
task(depends) == [depends |-> depends, when |-> RS!Always, approval |-> FALSE, save |-> FALSE,
                  ignore |-> FALSE]
on(names) == [n \in names |-> {"on_success"}]
run(name, when, tasks) == [name |-> name, when |-> when, tasks |-> tasks]
config(runs) == [parses |-> TRUE, runs |-> runs]
none == config(<<>>)
onMaster == [RS!Always EXCEPT !.set = TRUE, !.branch.include = {"master"}]
onTags == [RS!Always EXCEPT !.set = TRUE, !.tag.include = {"v1", "v2"}, !.tag.exclude = {"v2"}]

(* 1. Deliveries: a run without conditions between two with conditions.    *)
Deliveries == config(<<run("m", onMaster, "t" :> task(<<>>)), run("a", RS!Always, "t" :> task(<<>>)),
                       run("v", onTags, "t" :> task(<<>>))>>)
hook(event, name, sha, message) ==
    [op |-> "webhook", event |-> event, base |-> project, name |-> name, ref |-> name, sha |-> sha,
     message |-> message]
manual(op, base, user, type, name, sha) ==
    [op |-> op, base |-> base, user |-> user, branch |-> IF type = "branch" THEN name ELSE "",
     tag |-> IF type = "tag" THEN name ELSE "", ref |-> IF type = "pr" THEN name ELSE "",
     type |-> type, name |-> name, refName |-> name, sha |-> sha, message |-> "m"]
expected(names, base, type, name) == [names |-> names, group |-> base \o <<type, name>>]
DeliveryRequests ==
    {hook("push", "master", "s1", "m"), hook("push", "m_ster", "s2", "m"),
     hook("push", "master", "s3", "[ci skip]"), hook("tag", "v1", "s4", "m"),
     hook("tag", "v2", "s5", "m"), hook("pull_request", "1", "s6", "m"), hook("", "", "s6", ""),
     manual("projectrun", project, "u", "branch", "master", "s7"),
     manual("projectrun", project, "x", "branch", "master", "s8"),
     manual("projectrun", project, "u", "pr", "1", "s8"),
     manual("userrun", <<"user", "u">>, "u", "pr", "1", "s9")}
DeliveryExpect ==
    "s1" :> expected({"m", "a"}, project, "branch", "master")
    @@ "s2" :> expected({"a"}, project, "branch", "m_ster")
    @@ "s3" :> expected({}, project, "branch", "master")
    @@ "s4" :> expected({"a", "v"}, project, "tag", "v1")
    @@ "s5" :> expected({"a"}, project, "tag", "v2")
    @@ "s6" :> expected({"a"}, project, "pr", "1")
    @@ "s7" :> expected({"m", "a"}, project, "branch", "master")
    @@ "s8" :> expected({}, project, "branch", "master")
    @@ "s9" :> expected({"a"}, <<"user", "u">>, "pr", "1")

(* 2. Approvals: two tasks that wait for one, the second of which may fail. *)
(* The tasks are 1 and 2.                                                  *)
Approvals == config(<<run("r", RS!Always, [t \in {"a", "b"} |->
                 [task(<<>>) EXCEPT !.approval = TRUE, !.ignore = (t = "b")]])>>)
act(action, number) == [op |-> "runaction", base |-> project, user |-> "u", number |-> number,
                        action |-> action]
approve(user, t) == [op |-> "taskaction", base |-> project, user |-> user, number |-> 1, task |-> t]
ApprovalRequests == {approve("u", 1), approve("w", 1), approve("u", 2), approve("x", 2), act("stop", 1)}

(* 3. Restarts: a saves to the workspace, b follows whatever a's result.   *)
Restarts == config(<<run("r", RS!Always, "a" :> [task(<<>>) EXCEPT !.save = TRUE]
                     @@ "b" :> task("a" :> {"on_success", "on_failure"}))>>)
restart(number, scratch) == act("restart", number) @@ [fromStart |-> scratch]
logs(op, number, t, part) == [op |-> op, base |-> project, user |-> "u", number |-> number,
                              task |-> t, part |-> part]
RestartRequests == <<{restart(1, TRUE), restart(1, FALSE)},
                     {logs("deletelogs", 1, 1, "setup"), logs("deletelogs", 2, 1, "step")}>>

(* 4. Events: a run and a second one of its branch, two notifiers.         *)
Events == config(<<run("r", RS!Always, "t" :> task(<<>>))>>)
EventRequests == {hook("push", "master", "s1", "m"), restart(1, TRUE), act("cancel", 1)}

(* 5. Graphs: every graph of three tasks, and a configuration that doesn't *)
(* parse.                                                                  *)
Graphs == {config(<<run("r", RS!Always, [t \in {"a", "b", "c"} |-> task(on(g[t]))])>>) :
             g \in [{"a", "b", "c"} -> SUBSET {"a", "b", "c"}]}
          \cup {[none EXCEPT !.parses = FALSE]}
GraphExpect == "s1" :> expected({"r"}, project, "branch", "master")

(* 6. Logs: read while the task runs, is fetched, deleted or lost.         *)
LogRequests == <<{logs("logs", 1, 1, part) : part \in {"setup", "step", "step2"}},
                 {logs("deletelogs", 1, 1, "step"), act("stop", 1)}>>

(* 7. Losses: a restart of a run whose logs and archives may be lost.      *)
LossRequests == <<{restart(1, FALSE)}>>

(* 8. Patterns: a branch with a run, and one LIKE it with a later run.     *)
PatternRequests == <<{hook("push", "m_ster", "s1", "m")}, {hook("push", "master", "s2", "m")}>>
PatternExpect == "s1" :> expected({"r"}, project, "branch", "m_ster")
                 @@ "s2" :> expected({"r"}, project, "branch", "master")

Work ==
    <<[start |-> none, configs |-> {Deliveries}, requests |-> <<DeliveryRequests, DeliveryRequests>>,
       expect |-> DeliveryExpect, active |-> {}],
      [start |-> Approvals, configs |-> {none}, requests |-> <<ApprovalRequests, ApprovalRequests, ApprovalRequests>>,
       expect |-> <<>>, active |-> {"schedule", "approve"}],
      [start |-> Restarts, configs |-> {none}, requests |-> RestartRequests,
       expect |-> <<>>, active |-> {"schedule", "fetch"}],
      [start |-> Events, configs |-> {Events}, requests |-> <<EventRequests>>,
       expect |-> "s1" :> expected({"r"}, project, "branch", "master"),
       active |-> {"schedule", "notify", "fetch"}],
      [start |-> none, configs |-> Graphs, requests |-> <<{hook("push", "master", "s1", "m")}>>,
       expect |-> GraphExpect, active |-> {}],
      [start |-> Events, configs |-> {none}, requests |-> LogRequests,
       expect |-> <<>>, active |-> {"schedule", "fetch", "lose"}],
      [start |-> Restarts, configs |-> {none}, requests |-> LossRequests,
       expect |-> <<>>, active |-> {"schedule", "fetch", "lose"}],
      [start |-> none, configs |-> {Events}, requests |-> PatternRequests,
       expect |-> PatternExpect, active |-> {"schedule"}]>>
=============================================================================
