------------------------------ MODULE ViewModels ------------------------------
(***************************************************************************)
(* extension/src/store/models.ts: from the store, the focused task and     *)
(* what the views have fetched, the model each surface renders.  Labels,   *)
(* units and capability flags that are only passed through are left out;   *)
(* a task is shown by its id.                                              *)
(***************************************************************************)
EXTENDS Projection

\* An explicit pick the store knows, else the most recent task.
resolveFocus(state, pinned) ==
    IF pinned # Null /\ pinned \in DOMAIN state.tasks THEN pinned
    ELSE currentTask(state)

FocusedTask(state, pinned) ==
    IF resolveFocus(state, pinned) = Null THEN Null
    ELSE taskById(state, resolveFocus(state, pinned))

TRANSCRIPT_KINDS ==
    {"plan_created", "tool_started", "tool_completed", "file_changed",
     "test_started", "test_passed", "test_failed", "verification_evidence",
     "approval_requested", "task_paused", "task_completed", "task_failed",
     "progress_stalled"}

chatModel(state, pinned, connection) ==
    LET id   == resolveFocus(state, pinned)
        task == FocusedTask(state, pinned)
        blocked == task # Null /\ task.state = "waiting_for_permission"
        working == /\ task # Null
                   /\ ~task.terminal
                   /\ task.state \notin {"waiting_for_permission", "paused"}
        told == SelectSeq(eventsForTask(state, id),
                          LAMBDA e : e.kind \in TRANSCRIPT_KINDS)
        said == IF task = Null \/ task.objective = Null THEN <<>>
                ELSE <<[seq |-> task.firstSeenSeq, role |-> "you"]>>
    IN  [taskId |-> id,
         state |-> IF task = Null THEN Null ELSE task.state,
         terminal |-> task # Null /\ task.terminal,
         working |-> working, blocked |-> blocked,
         transcript |->
             IF task = Null THEN <<>>
             ELSE said \o [i \in DOMAIN told |->
                              [seq |-> told[i].seq, role |-> "agent",
                               text |-> activityLine(told[i])]],
         canSubmit |-> connection = "ready" /\ ~working /\ ~blocked]

\* The ask of the focused task, while it is blocked on it.
AskShown(state, pinned) ==
    IF FocusedTask(state, pinned) = Null THEN Null
    ELSE pendingApprovalFor(state, resolveFocus(state, pinned))

approvalsModel(state, pinned) ==
    LET ap == AskShown(state, pinned)
    IN  [taskId |-> resolveFocus(state, pinned),
         approval |-> IF ap = Null THEN Null
                      ELSE [seq |-> ap.seq, risk |-> Field(ap, "risk")]]

\* A boundary can be rolled back to with Core's checkpoint id, the capability
\* and a task that still runs.
taskModel(state, pinned, rollbackCapable) ==
    LET id   == resolveFocus(state, pinned)
        task == FocusedTask(state, pinned)
        ids  == checkpointIdsForTask(state, id)
        declared == checkpointsForTask(state, id)
        Boundary(c) ==
            LET known == IF c.stepId = Null THEN Null ELSE Get(ids, c.stepId)
            IN  [stepId |-> c.stepId, checkpointId |-> known,
                 rollbackReady |-> rollbackCapable /\ known # Null
                                   /\ ~task.terminal]
    IN  IF id \notin DOMAIN state.tasks
        THEN [taskId |-> Null, checkpoints |-> <<>>, files |-> <<>>,
              tests |-> <<>>, approval |-> Null, agentCommandCount |-> 0]
        ELSE [taskId |-> id,
              checkpoints |-> [i \in DOMAIN declared |-> Boundary(declared[i])],
              files |-> changedFilesForTask(state, id),
              tests |-> testResultsForTask(state, id),
              approval |-> AskShown(state, pinned),
              agentCommandCount |-> Len(agentCommandsForTask(state, id))]

agentCommandsModel(state, pinned) ==
    IF FocusedTask(state, pinned) = Null THEN <<>>
    ELSE agentCommandsForTask(state, resolveFocus(state, pinned))

timelineModel(state) ==
    LET rows == timelineRows(state)
    IN  [i \in DOMAIN rows |-> [seq |-> rows[i].seq,
                                degraded |-> rows[i].degraded,
                                summary |-> activityLine(rows[i])]]

historyModel(state, pinned) ==
    LET recent == tasksByRecency(state)
    IN  [i \in DOMAIN recent |->
            LET t == recent[i]
            IN  [id |-> t, terminal |-> state.tasks[t].terminal,
                 blocked |-> state.tasks[t].state = "waiting_for_permission",
                 focused |-> t = resolveFocus(state, pinned)]]

(***************************************************************************)
(* The status bar's ticker.  A phase is a verb and its object.             *)
(***************************************************************************)
TOOL_VERB ==
    [read_file |-> "Reading", list_dir |-> "Reading", search |-> "Searching",
     grep |-> "Searching", write_file |-> "Editing", edit_file |-> "Editing",
     apply_patch |-> "Editing", run_command |-> "Running"]

PhaseKinds ==
    [test_started |-> "Running tests", test_failed |-> "Tests failing",
     test_passed |-> "Tests passing", verification_evidence |-> "Verifying",
     plan_created |-> "Planning"]

\* The phase one event tells, Null when it tells none.
PhaseOf(e, filesTouched) ==
    LET tool == Field(e, "tool")
        input == Field(e, "input")
        prog == IF input = Null THEN Null ELSE Get(input, "program")
        verb == IF tool = Null THEN Null ELSE Get(TOOL_VERB, tool)
        Edits == <<"Editing", filesTouched>>
    IN  CASE e.kind \in DOMAIN PhaseKinds -> <<PhaseKinds[e.kind], Null>>
          [] e.kind = "tool_started" /\ tool = "run_command" /\ prog # Null ->
                 <<"Running", prog>>
          [] e.kind = "tool_started" /\ verb = "Editing" /\ filesTouched > 0 ->
                 Edits
          [] e.kind = "tool_started" /\ verb # Null -> <<verb, Null>>
          [] e.kind = "file_changed" /\ filesTouched > 0 -> Edits
          [] OTHER -> Null

TickerTail == 16

tickerModel(state, pinned) ==
    LET id   == resolveFocus(state, pinned)
        task == FocusedTask(state, pinned)
        touched == Len(changedFilesForTask(state, id))
        evs  == eventsForTask(state, id)
        Tells(i) == PhaseOf(evs[i], touched) # Null
        telling == {i \in DOMAIN evs : i > Len(evs) - TickerTail /\ Tells(i)}
        Show(tone, phase) == [taskId |-> id, tone |-> tone, phase |-> phase]
    IN  CASE task = Null -> Show("idle", Null)
          [] task # Null /\ task.state = "waiting_for_permission" ->
                 Show("blocked", <<"Blocked: approval", Null>>)
          [] task # Null /\ task.state = "paused" ->
                 Show("paused", <<"Paused", Null>>)
          [] task # Null /\ task.terminal
                /\ task.state \notin {"waiting_for_permission", "paused"} ->
                 IF task.state = "failed"
                 THEN Show("failed", <<"Task failed", Null>>)
                 ELSE Show("done", <<"Task done", Null>>)
          [] OTHER ->
                 Show("working",
                      IF telling = {} THEN <<task.state, Null>>
                      ELSE PhaseOf(evs[CHOOSE i \in telling :
                                           \A j \in telling : j <= i], touched))

(***************************************************************************)
(* Home, workspace and review.                                             *)
(***************************************************************************)
homeTask(state, t) ==
    [id |-> t, terminal |-> state.tasks[t].terminal,
     blocked |-> state.tasks[t].state = "waiting_for_permission",
     filesTouched |-> Len(changedFilesForTask(state, t))]

RecentMax == 8

\* Mutant: only the most recent active task counts.
NewestWorks(state) ==
    LET active == activeTasks(state)
    IN  active # <<>> /\ state.tasks[Head(active)].state
                             \notin {"paused", "waiting_for_permission"}

\* Some active task works; in which order they are asked makes no difference.
Busy(state) ==
    \E t \in DOMAIN state.tasks :
        /\ ~state.tasks[t].terminal
        /\ state.tasks[t].state \notin {"paused", "waiting_for_permission"}

homeModel(state, connection) ==
    LET active == activeTasks(state)
        ended  == SelectSeq(tasksByRecency(state),
                            LAMBDA t : state.tasks[t].terminal)
        recent == IF Len(ended) <= RecentMax THEN ended
                  ELSE SubSeq(ended, 1, RecentMax)
        Rows(ts) == [i \in DOMAIN ts |-> homeTask(state, ts[i])]
    IN  [canSubmit |-> connection = "ready" /\ ~Busy(state),
         active |-> Rows(active), recent |-> Rows(recent)]

\* A changed file with the owner the last fetched ledger gives its path.
OwnedFiles(files, ownership) ==
    [i \in DOMAIN files |-> [path |-> files[i].path,
                             ownership |-> Get(ownership, files[i].path)]]

workspaceModel(state, pinned, connection, data, rollbackCapable) ==
    LET chat == chatModel(state, pinned, connection)
        task == taskModel(state, pinned, rollbackCapable)
    IN  [taskId |-> chat.taskId, state |-> chat.state,
         terminal |-> chat.terminal, working |-> chat.working,
         blocked |-> chat.blocked, canSubmit |-> chat.canSubmit,
         transcript |-> chat.transcript,
         files |-> OwnedFiles(task.files, data.ownership), tests |-> task.tests,
         verified |-> data.report, approval |-> task.approval]

reviewModel(state, pinned, data) ==
    LET id == resolveFocus(state, pinned)
    IN  [taskId |-> id,
         files |-> IF id = Null THEN <<>>
                   ELSE OwnedFiles(changedFilesForTask(state, id),
                                   data.ownership),
         verified |-> data.report, approval |-> AskShown(state, pinned)]

(***************************************************************************)
(* The model manager and the model picker.  models is the last model/list  *)
(* answer: Null, or a sequence of                                          *)
(*   [id, chatCapable, installed, active];                                 *)
(* recommend is Null or [recommended, fit], fit a function on the scored   *)
(* ids to <<fit, suitability>>.                                            *)
(***************************************************************************)
DEFAULT_MODEL_ROLE == "primary_coder"

\* The bar of an install: a fraction once the total is known.
installRow(m) ==
    [status |-> m.status, code |-> m.code,
     done |-> IF m.status = "completed" THEN m.totalBytes
              ELSE IF m.totalBytes <= 0 THEN Null
              ELSE IF m.downloadedBytes < 0 THEN 0
              ELSE IF m.downloadedBytes > m.totalBytes THEN m.totalBytes
              ELSE m.downloadedBytes]

\* Recommended first, then by fit; a model nobody scored stands before one
\* that will not fit.
RankOf(row) ==
    CASE row.recommended -> 0
      [] ~row.recommended /\ row.fit = "comfortable" -> 1
      [] ~row.recommended /\ row.fit = "tight" -> 2
      [] ~row.recommended /\ row.fit = "will_not_fit" -> 4
      [] OTHER -> 3

\* Mutant: a finished install's row stays after the model was removed.
TrustsInstallRecord(state, m) == modelInstall(state, m.id)

\* The install the row of a model shows: removing a model has no event, so a
\* completed record is dropped when the list says the model is not installed.
InstallShown(state, m) ==
    LET install == modelInstall(state, m.id)
    IN  IF install # Null /\ ~m.installed
        THEN IF install.status = "completed" THEN Null ELSE install
        ELSE install

modelsModel(state, models, recommend, pendingActionIds) ==
    LET fit == IF recommend = Null THEN <<>> ELSE recommend.fit
        Row(m) ==
            [id |-> m.id, installed |-> m.installed, active |-> m.active,
             recommended |-> recommend # Null /\ m.id = recommend.recommended,
             fit |-> IF m.id \in DOMAIN fit THEN fit[m.id][1] ELSE Null,
             suitability |-> IF m.id \in DOMAIN fit THEN fit[m.id][2] ELSE -1,
             install |-> IF InstallShown(state, m) = Null THEN Null
                         ELSE installRow(InstallShown(state, m)),
             chatCapable |-> m.chatCapable,
             servers |-> {state.modelServers[r].state :
                             r \in {DEFAULT_MODEL_ROLE} \cap
                                   Range(modelServersForModel(state, m.id))},
             actionPending |-> m.id \in pendingActionIds]
        Before(a, b) == \/ RankOf(a) < RankOf(b)
                        \/ RankOf(a) = RankOf(b) /\ a.suitability > b.suitability
    IN  [hasList |-> models # Null,
         models |-> IF models = Null THEN <<>>
                    ELSE SortSeq([i \in DOMAIN models |-> Row(models[i])],
                                 Before)]

modelChatModel(state, pinned, connection, models, recommend, activating) ==
    LET chat   == chatModel(state, pinned, connection)
        known  == Or(models, <<>>)
        picker == SelectSeq(known, LAMBDA m : m.installed /\ m.chatCapable)
        active == SelectInSeq(known, LAMBDA m : m.active)
    IN  [taskId |-> chat.taskId, state |-> chat.state,
         terminal |-> chat.terminal, working |-> chat.working,
         blocked |-> chat.blocked, canSubmit |-> chat.canSubmit,
         transcript |-> chat.transcript,
         models |-> [i \in DOMAIN picker |->
                        [id |-> picker[i].id,
                         unratedForCoding |->
                             /\ recommend # Null
                             /\ picker[i].id \notin DOMAIN recommend.fit]],
         activeModelId |-> IF active = 0 THEN Null ELSE known[active].id,
         activating |-> activating, approval |-> AskShown(state, pinned)]

=============================================================================
