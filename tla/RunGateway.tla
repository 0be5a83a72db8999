----------------------------- MODULE RunGateway -----------------------------
(***************************************************************************)
(* What the gateway does with runs (internal/services/gateway/action/      *)
(* run.go and badge.go, the run handlers and the webhook handler): each    *)
(* operation reads the runservice and decides on a plan, the calls it will *)
(* make.  The set of plans is empty when the request is refused.           *)
(*                                                                         *)
(* Who may act on a project's runs is worked out in GatewayOps             *)
(* (CanGetRun, CanDoRunActions); here it is a constant.                    *)
(***************************************************************************)
EXTENDS Integers, Sequences, FiniteSets, SequencesExt

CONSTANTS DefaultRunsLimit, MaxRunsLimit, MaxRunEventsLimit, Like,
          Owners       \* the users who may act on the project's runs

RS == INSTANCE RunAPI

CanDoRunActions(user) == user \in Owners

(* A plan: the run, task and arguments of a call, or runs to create. *)
NoPlan == [call |-> "none", run |-> 0, task |-> 0, arg |-> {}, token |-> {}, rq |-> <<>>,
           todo |-> {}, rb |-> <<>>]
Plan(call, run, task, arg) ==
    [NoPlan EXCEPT !.call = call, !.run = run, !.task = task, !.arg = arg]

(***************************************************************************)
(* Groups of runs.                                                         *)
(***************************************************************************)
GenBaseRunGroup(type, id) == <<type, id>>
GenRunGroup(type, id, refType, name) == GenBaseRunGroup(type, id) \o <<refType, name>>
GroupTypeIDFromRunGroup(g) == SubSeq(g, 1, 2)
WebHookEventToRunRefType(ev) ==
    CASE ev = "push" -> "branch" [] ev = "tag" -> "tag" [] ev = "pull_request" -> "pr"

(***************************************************************************)
(* Reads, and actions on an existing run, found by its number.             *)
(***************************************************************************)
byNumber(d, rq) == RS!RunByGroupHandler(d, rq.base, rq.number, {})

GetRun(d, rq) == byNumber(d, rq)
GetRuns(d, rq) ==
    RS!RunsByGroupHandler(d, [group |-> rq.base \o rq.subgroup, phases |-> rq.phases,
        results |-> rq.results, cgroups |-> {}, start |-> rq.start, limit |-> rq.limit,
        asc |-> rq.asc])

createRunResponse(a) ==
    [number |-> a.run.counter, name |-> a.run.name, phase |-> a.run.phase,
     result |-> a.run.result, stopping |-> a.run.stop, errors |-> a.rc.errors,
     waiting |-> RS!TasksWaitingApproval(a.run),
     scratch |-> RS!CanRestartFromScratch(a.run),
     failed |-> RS!CanRestartFromFailedTasks(a.run)]
RunHandler(d, rq) == {createRunResponse(a) : a \in GetRun(d, rq)}

createRunTaskResponse(rt, rct) ==
    [name |-> rct.name, status |-> rt.status, waiting |-> rt.wait, approved |-> rt.appr,
     approvers |-> rt.approvers]
RuntaskHandler(d, rq) ==
    {createRunTaskResponse(a.run.tasks[rq.task], a.rc.tasks[rq.task]) :
        a \in {x \in GetRun(d, rq) : rq.task \in DOMAIN x.run.tasks}}

createRunsResponse(run) ==
    [number |-> run.counter, name |-> run.name, phase |-> run.phase, result |-> run.result]
RunsHandler(d, rq) ==
    UNION {{createRunsResponse(r) : r \in a.runs} : a \in GetRuns(d, rq)}

GetLogs(d, rq) == {Plan("logs", a.run.id, rq.task, rq.part) : a \in byNumber(d, rq)}

DeleteLogs(d, rq) ==
    {Plan("deletelogs", a.run.id, rq.task, rq.part) :
        a \in {x \in byNumber(d, rq) : CanDoRunActions(rq.user)}}

RunAction(d, rq) ==
    {CASE rq.action = "restart" -> Plan("restart", a.run.id, 0, rq.fromStart)
       [] rq.action = "cancel" -> Plan("cancel", a.run.id, 0, {})
       [] rq.action = "stop" -> Plan("stop", a.run.id, 0, {}) :
        a \in {x \in byNumber(d, rq) : /\ CanDoRunActions(rq.user)
                                       /\ rq.action \in {"restart", "cancel", "stop"}}}

(* The annotation to store is made from the one that was read; the token   *)
(* comes from a read without change groups, and protects nothing.          *)
RunTaskAction(d, rq) ==
    {[Plan("approve", a.run.id, rq.task, a.run.tasks[rq.task].approvers \cup {rq.user})
        EXCEPT !.token = a.token] :
        a \in {x \in byNumber(d, rq) : /\ CanDoRunActions(rq.user)
                                       /\ rq.task \in DOMAIN x.run.tasks
                                       /\ rq.user \notin x.run.tasks[rq.task].approvers}}

(***************************************************************************)
(* New runs.  rq is [base, refType, name, ref, sha, message, config]: the  *)
(* reference is a branch, a tag or a pull request, and config what the     *)
(* repository holds at the commit.  The plan's todo are the positions of   *)
(* the runs to create, in ascending order, 0 for the one that reports a    *)
(* wrong configuration.                                                    *)
(***************************************************************************)
SkipRunMessage(message) == message = "[ci skip]"

(* slip: the first run that doesn't match ends the loop *)
toCreate_slip(rq) ==
    {i \in DOMAIN rq.config.runs : \A j \in 1 .. i :
        /\ ~SkipRunMessage(rq.message)
        /\ RS!MatchWhen(rq.config.runs[j].when, rq.refType, rq.name, rq.ref)}
toCreate(rq) ==
    {i \in DOMAIN rq.config.runs :
        /\ ~SkipRunMessage(rq.message)
        /\ RS!MatchWhen(rq.config.runs[i].when, rq.refType, rq.name, rq.ref)}
nextOf(todo) == {i \in todo : \A j \in todo : i <= j}

CreateRuns(rq) ==
    IF rq.sha = "" \/ rq.message = "" THEN {}
    ELSE {[NoPlan EXCEPT !.call = "create", !.rq = rq,
                         !.todo = IF RS!ParseConfig(rq.config) THEN toCreate(rq) ELSE {0}]}

(* The request of one turn of the loop, with the tasks' ids from `id' on.  *)
genCreateRequest(rq, i, id) ==
    [group |-> GenRunGroup(rq.base[1], rq.base[2], rq.refType, rq.name), sha |-> rq.sha,
     token |-> {}, errors |-> i = 0,
     name |-> IF i = 0 THEN "Setup Error" ELSE rq.config.runs[i].name,
     tasks |-> IF i = 0 THEN RS!NoTasks
               ELSE RS!GenRunConfigTasks(rq.config.runs[i], id, rq.refType, rq.name, rq.ref)]

(* A webhook: what it means to the git source's parser, or nothing.  *)
handleWebhook(rq, config) ==
    IF rq.event = "" THEN {}
    ELSE CreateRuns([base |-> rq.base, refType |-> WebHookEventToRunRefType(rq.event),
                     name |-> rq.name, ref |-> rq.ref, sha |-> rq.sha, message |-> rq.message,
                     config |-> config])

(* A run on request, for one branch, tag or reference.  The git source     *)
(* makes the reference's full name of it (rq.refName) and says what it is  *)
(* (rq.type, rq.name); the pull requests of a project are not supported,   *)
(* those of a user's repository are.                                       *)
given(rq) == {k \in {"branch", "tag", "ref"} : rq[k] # ""}
manualRequest(rq, config) ==
    [base |-> rq.base, refType |-> rq.type, name |-> rq.name, ref |-> rq.refName,
     sha |-> rq.sha, message |-> IF rq.type = "tag" THEN "Tag" ELSE rq.message,
     config |-> config]
ProjectCreateRun(rq, config) ==
    IF CanDoRunActions(rq.user) /\ Cardinality(given(rq)) = 1 /\ rq.type \in {"branch", "tag"}
    THEN CreateRuns(manualRequest(rq, config)) ELSE {}
UserCreateRun(rq, config) ==
    IF rq.base = GenBaseRunGroup("user", rq.user) /\ Cardinality(given(rq)) = 1
    THEN CreateRuns([manualRequest(rq, config) EXCEPT !.message = rq.message]) ELSE {}

(* The badge of a branch: its last run's. *)
badge(run) ==
    CASE run.result # "unknown" -> IF run.result = "success" THEN "success" ELSE "failed"
      [] run.phase = "setuperror" -> "error"
      [] run.phase = "cancelled" -> "failed"
      [] OTHER -> "inprogress"
GetBadge(d, id, branch) ==
    UNION {IF a.runs = {} THEN {"unknown"} ELSE {badge(r) : r \in a.runs} :
             a \in RS!RunsHandler(d, [groups |-> {GenRunGroup("project", id, "branch", branch)},
                 phases |-> {}, results |-> {}, cgroups |-> {}, start |-> 0, limit |-> 1,
                 asc |-> FALSE])}

(* The operation a request is routed to; config is what the repository     *)
(* holds.                                                                  *)
Route(d, rq, config) ==
    CASE rq.op = "webhook" -> handleWebhook(rq, config)
      [] rq.op = "projectrun" -> ProjectCreateRun(rq, config)
      [] rq.op = "userrun" -> UserCreateRun(rq, config)
      [] rq.op = "runaction" -> RunAction(d, rq)
      [] rq.op = "taskaction" -> RunTaskAction(d, rq)
      [] rq.op = "logs" -> GetLogs(d, rq)
      [] rq.op = "deletelogs" -> DeleteLogs(d, rq)
      [] OTHER -> {}
=============================================================================
