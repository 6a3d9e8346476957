--------------------------- MODULE MCHostServices ---------------------------
(* The requests the extension's own call sites send, and the scenarios TLC *)
(* explores with them.                                                     *)
EXTENDS HostServices

Req(method, params, reads) ==
    [method |-> method, params |-> params, by |-> "view",
     reads |-> {reads}, means |-> None]
Meant(r, means) == [r EXCEPT !.means = means]

Task  == [taskId |-> "t1"]
Model == [id |-> "m1"]
Boot(by, id) ==
    [method |-> "model/activate", params |-> [id |-> id, role |-> "primary_coder"],
     by |-> by, reads |-> {"Ack"}, means |-> None]
Again(id) == [Boot("models", id) EXCEPT !.method = "model/restartServer"]

Scoped(allow, scope, means) ==
    Meant(Req("permission/resolveScoped",
              [taskId |-> "t1", allow |-> allow, scope |-> scope], "Ack"), means)
Plain(allow, means) ==
    Meant(Req("permission/resolve", [taskId |-> "t1", allow |-> allow], "Ack"), means)

Install == Meant(Req("model/install", [id |-> "m1", acceptLicense |-> TRUE], "Ack"),
                 TRUE)

\* The call sites of the wired surfaces: dispatch.ts, commands.ts, resume.ts,
\* editorPanels.ts, ownership.ts, models.ts, modelChat.ts, modelInstall.ts,
\* modelEndpoints.ts, extension.ts.
CallSites ==
    {Req("task/create", [objective |-> "o"], "TaskCreate"),
     Req("task/pause", Task, "Ack"), Req("task/resume", Task, "Ack"),
     Req("task/cancel", Task, "Ack"),
     Req("task/rollback", [taskId |-> "t1", checkpointId |-> "c1"], "TaskRollback"),
     Req("task/report", Task, "TaskReport"),
     Req("ledger/changes", Task, "LedgerChanges"),
     Scoped(TRUE, "once", "once"), Scoped(TRUE, "task", "task"),
     Scoped(FALSE, "once", "deny"), Scoped(FALSE, "task", "deny"),
     Plain(TRUE, "once"), Plain(FALSE, "deny"),
     Req("model/list", <<>>, "ModelList"),
     Req("model/recommend", [role |-> "primary_coder"], "ModelRecommend"),
     Req("model/inspect", Model, "ModelInspect"), Install,
     Req("model/cancelInstall", Model, "Ack"),
     Req("model/remove", Model, "ModelRemove"),
     Boot("models", "m1"), Boot("picker", "m1"), Again("m1"),
     Req("model/endpointAdd", [id |-> "m1", baseUrl |-> "u"], "Ack"),
     Req("model/endpointRemove", Model, "Ack"),
     Req("model/endpointList", <<>>, "ModelEndpointList"),
     Req("catalog/refresh", [catalogUrl |-> "u", signatureUrl |-> "s"],
         "CatalogRefresh"),
     Req("doctor/run", <<>>, "DoctorRun")}

Status == [Req("session/status", <<>>, "SessionInfo")
              EXCEPT !.reads = {"SessionInfo", "null"}]

\* What protocol.ts declares besides, with the parameters its types insist on:
\* for views that no panel shows today, and for the bridge's tests.
Declared ==
    {Req("task/list", <<>>, "TaskList"), Req("task/status", Task, "TaskStatus"),
     Req("task/plan", Task, "TaskPlan"),
     Req("task/children", Task, "TaskChildren"),
     Req("task/artifacts", Task, "TaskArtifacts"),
     Req("plan/revisions", Task, "PlanRevisions"),
     Req("config/show", <<>>, "ConfigShow"),
     Req("config/set", [key |-> "k", value |-> "v"], "ConfigShow"),
     Req("workspace/status", <<>>, "WorkspaceStatus"),
     Req("search/query", [query |-> "q"], "SearchQuery"),
     Req("index/status", <<>>, "IndexStatus"), Req("index/build", <<>>, "IndexBuild"),
     Req("git/status", <<>>, "GitStatus"), Req("git/diff", <<>>, "GitDiff"),
     Req("git/log", <<>>, "GitLog"), Req("git/branches", <<>>, "GitBranches"),
     Req("hardware/probe", <<>>, "HardwareProbe"),
     Status, Req("about/info", <<>>, "About")}

Open    == Req("session/open", [workspaceRoot |-> "w", permissionMode |-> "manual"],
               "SessionInfo")
Restart == Req("session/restart", [permissionMode |-> "manual"], "SessionInfo")
Close   == Req("session/close", <<>>, "null")
Create  == Req("task/create", [objective |-> "o"], "TaskCreate")
Write(scope) ==
    Req("config/write", [key |-> <<"a", "b">>, value |-> "v", scope |-> scope],
        "ConfigShow")

Quiet == [asks |-> {}, max |-> 1, notes |-> 0, exits |-> FALSE, live |-> "owned",
          ready |-> FALSE, cuts |-> FALSE, theirs |-> <<>>, doc |-> {<<"a", "c">>, <<"d">>}]

\* Every call site once; two requests over every cut of the stream, with a
\* notification and a dying host; sessions; boots; the configuration.
EveryCall == [Quiet EXCEPT !.asks = CallSites \cup Declared]
Chunks    == [Quiet EXCEPT !.asks = {Create}, !.max = 2, !.notes = 1, !.exits = TRUE,
                      !.cuts = TRUE]
Sessions  == [Quiet EXCEPT !.asks = {Open, Restart, Close, Status, Create}, !.max = 2,
                           !.live = "none"]
Boots     == [Quiet EXCEPT !.asks = {Boot("models", "m1"), Boot("picker", "m1")},
                           !.max = 2, !.ready = TRUE]
Reboots   == [Quiet EXCEPT !.asks = {Boot("models", "m1"), Again("m1"),
                                     Boot("models", "m2")}, !.max = 2]
Writes    == [Quiet EXCEPT !.asks = {Write("user"), Write("workspace")},
                           !.exits = TRUE, !.theirs = <<"a", "e">>]

MCScenarios == {EveryCall, Chunks, Sessions, Boots, Reboots, Writes}
=============================================================================
