------------------------------ MODULE Projection ------------------------------
(***************************************************************************)
(* packages/state: what the event stream means to the window.  A wire      *)
(* event is decoded (packages/protocol/src/events/registry.ts), folded     *)
(* into the store (reducer.ts) and read back by the selectors              *)
(* (selectors.ts).  Everything here is a pure operator; TaskWindow applies *)
(* them to the batches a session delivers.                                 *)
(*                                                                         *)
(* A payload is a record.  A field that is absent, null, empty or of a     *)
(* type the code's typeof tests refuse is Null to its reader; Bad is a     *)
(* value the payload's decoder refuses.  Timestamps are only rendered and  *)
(* left out.                                                               *)
(***************************************************************************)
EXTENDS Integers, Sequences, FiniteSets, SequencesExt

CONSTANTS Null,   \* undefined, null, or not of the type the reader wants
          Bad     \* a value the decoder of its field refuses

(***************************************************************************)
(* registry.ts: the kinds, and the fields of each kind that must have      *)
(* their type when they are present.  All are optional, any other field    *)
(* passes through.                                                         *)
(***************************************************************************)
TaskPayloads ==
    [task_started |-> {"objective"}, state_changed |-> {"from", "to"},
     task_paused |-> {}, task_completed |-> {}, task_failed |-> {"reason"},
     subtask_started |-> {"child_task_id", "objective"},
     subtask_completed |-> {"child_task_id", "final_state"},
     artifact_published |-> {"role", "kind"},
     progress_stalled |-> {"reason"}, memory_written |-> {},
     resource_pressure |-> {}, external_change_detected |-> {"paths"},
     plan_created |-> {"revision", "steps"},
     plan_checkpoint |-> {"checkpoint_id", "step_id"},
     approval_requested |-> {"request_id", "prompt", "tool", "category",
                             "target", "risk"},
     context_retrieved |-> {"items", "budget_used", "budget_total"}]

ModelPayloads ==
    [model_install_progress |-> {"id", "phase", "downloaded_bytes",
                                 "total_bytes"},
     model_install_completed |-> {"id", "size_bytes"},
     model_install_failed |-> {"id", "code", "message"},
     engine_install_progress |-> {"component", "version", "phase",
                                  "downloaded_bytes", "total_bytes"},
     engine_install_completed |-> {"component", "version"},
     engine_install_failed |-> {"component", "version", "code", "message"},
     model_server_starting |-> {"role", "id"},
     model_server_ready |-> {"role", "id", "port"},
     model_server_failed |-> {"role", "id", "code", "message"},
     model_server_stopped |-> {"role", "id", "reason"},
     model_loaded |-> {"id", "footprint_bytes"},
     model_evicted |-> {"id", "reason"},
     model_started |-> {"turn_index"},
     model_completed |-> {"finish_reason", "text"}]

Verdict == {"command", "passed", "outcome", "exit_code", "failure_count",
            "run_id", "digest"}

ToolPayloads ==
    [file_changed |-> {"path", "change", "checkpoint_id", "reverted"},
     tool_started |-> {"tool", "tool_invocation_id"},
     tool_completed |-> {"tool", "success", "tool_invocation_id",
                         "tool_record_id", "exit_code", "stdout", "stderr",
                         "duration_ms", "rendered"},
     test_started |-> {"command", "kind", "tier", "rationale"},
     test_passed |-> Verdict,
     test_failed |-> Verdict \cup {"failures", "summary"},
     verification_evidence |-> Verdict \cup {"kind", "failures"}]

PAYLOAD_DECODERS == TaskPayloads @@ ModelPayloads @@ ToolPayloads

KNOWN_EVENT_KINDS == DOMAIN PAYLOAD_DECODERS

\* An event off the wire: valid says whether the envelope parses, a payload
\* that is no object is Null, and nothing is read from a refused envelope.
decodeEvent(raw) ==
    LET readable == /\ raw.valid
                    /\ raw.kind \in KNOWN_EVENT_KINDS
                    /\ raw.payload # Null
                    /\ \A f \in PAYLOAD_DECODERS[raw.kind] :
                           f \in DOMAIN raw.payload => raw.payload[f] # Bad
    IN  [ok |-> readable, kind |-> raw.kind, seq |-> raw.seq,
         taskId |-> IF raw.valid THEN raw.taskId ELSE Null,
         payload |-> IF raw.valid THEN raw.payload ELSE Null]

(***************************************************************************)
(* reducer.ts.  A Record keyed by id is a function on the ids it has.      *)
(***************************************************************************)
Get(f, k) == IF k \in DOMAIN f THEN f[k] ELSE Null
Put(f, k, v) == [x \in DOMAIN f \cup {k} |-> IF x = k THEN v ELSE f[x]]
Or(x, y) == IF x = Null THEN y ELSE x
Field(e, f) == IF e.payload = Null THEN Null ELSE Get(e.payload, f)

emptyStore ==
    [connection |-> "starting", lastSeq |-> 0, gapDetected |-> FALSE,
     tasks |-> <<>>, plans |-> <<>>, approvals |-> <<>>, files |-> <<>>,
     tests |-> <<>>, modelInstalls |-> <<>>, engineInstalls |-> <<>>,
     modelServers |-> <<>>, events |-> <<>>]

setConnection(state, c) == [state EXCEPT !.connection = c]

TERMINAL_STATES == {"completed", "failed", "cancelled"}
TaskStates == TERMINAL_STATES \cup
    {"idle", "understanding", "discovery", "planning", "implementing",
     "verifying", "repairing", "waiting_for_permission", "paused"}

\* The wire's state name, lowercased; one the store does not know is unknown.
normalizeState(wire) == IF wire \in TaskStates THEN wire ELSE "unknown"

\* Mutant: only the dedicated event kinds end a task, so a cancelled one,
\* which has none, runs for ever.
OnlyKindsAreTerminal(prev, e) ==
    LET base == IF prev = Null
                THEN [state |-> "unknown", objective |-> Null,
                      firstSeenSeq |-> e.seq, lastSeq |-> e.seq,
                      terminal |-> FALSE]
                ELSE prev
        touched == [base EXCEPT !.lastSeq = e.seq]
    IN  CASE ~e.ok -> touched
          [] e.kind = "task_started" ->
                 [touched EXCEPT !.objective = Or(Field(e, "objective"), @)]
          [] e.kind = "state_changed" /\ Field(e, "to") # Null ->
                 [touched EXCEPT !.state = normalizeState(Field(e, "to"))]
          [] e.kind = "task_completed" ->
                 [touched EXCEPT !.state = "completed", !.terminal = TRUE]
          [] e.kind = "task_failed" ->
                 [touched EXCEPT !.state = "failed", !.terminal = TRUE]
          [] OTHER -> touched

advanceTask(prev, e) ==
    LET base == IF prev = Null
                THEN [state |-> "unknown", objective |-> Null,
                      firstSeenSeq |-> e.seq, lastSeq |-> e.seq,
                      terminal |-> FALSE]
                ELSE prev
        touched == [base EXCEPT !.lastSeq = e.seq]
        Enter(s) == [touched EXCEPT !.state = s,
                                    !.terminal = @ \/ s \in TERMINAL_STATES]
    IN  CASE ~e.ok -> touched
          [] e.kind = "task_started" ->
                 [touched EXCEPT !.objective = Or(Field(e, "objective"), @)]
          [] e.kind = "state_changed" /\ Field(e, "to") # Null ->
                 Enter(normalizeState(Field(e, "to")))
          [] e.kind = "task_completed" -> Enter("completed")
          [] e.kind = "task_failed" -> Enter("failed")
          [] OTHER -> touched

\* An install's entry after one more event: what the event does not say is
\* kept from before, except the failure's code, which is the event's alone.
InstallEntry(prev, e, status, phase, done, total) ==
    LET cur == IF prev = Null
               THEN [phase |-> Null, downloadedBytes |-> 0, totalBytes |-> 0]
               ELSE prev
    IN  [phase |-> Or(phase, cur.phase), status |-> status,
         downloadedBytes |-> Or(done, cur.downloadedBytes),
         totalBytes |-> Or(total, cur.totalBytes),
         code |-> IF status = "failed" THEN Field(e, "code") ELSE Null,
         lastSeq |-> e.seq]

ProgressEntry(prev, e) ==
    InstallEntry(prev, e, "running", Field(e, "phase"),
                 Field(e, "downloaded_bytes"), Field(e, "total_bytes"))

\* By model id, the latest event wins.
foldModelInstall(prev, e) ==
    LET id  == Field(e, "id")
        cur == Get(prev, id)
    IN  CASE id = Null -> prev
          [] e.kind = "model_install_progress" ->
                 Put(prev, id, ProgressEntry(cur, e))
          [] e.kind = "model_install_completed" ->
                 LET size == Field(e, "size_bytes")
                 IN  Put(prev, id,
                         InstallEntry(cur, e, "completed", Null, size, size))
          [] e.kind = "model_install_failed" ->
                 Put(prev, id, InstallEntry(cur, e, "failed", Null, Null, Null))
          [] OTHER -> prev

\* By component name; a completed engine does not tell its size.
foldEngineInstall(prev, e) ==
    LET id  == Field(e, "component")
        cur == Get(prev, id)
        Ended(status) ==
            Put(prev, id, InstallEntry(cur, e, status, Null, Null, Null))
    IN  CASE id = Null -> prev
          [] e.kind = "engine_install_progress" ->
                 Put(prev, id, ProgressEntry(cur, e))
          [] e.kind = "engine_install_completed" -> Ended("completed")
          [] e.kind = "engine_install_failed" -> Ended("failed")
          [] OTHER -> prev

ServerState ==
    [model_server_starting |-> "starting", model_server_ready |-> "ready",
     model_server_failed |-> "failed", model_server_stopped |-> "stopped"]

\* By role: Core serves one model per role.
foldModelServer(prev, e) ==
    LET role == Field(e, "role")
        cur  == Get(prev, role)
        state == ServerState[e.kind]
    IN  IF e.kind \notin DOMAIN ServerState \/ role = Null THEN prev
        ELSE Put(prev, role,
                 [modelId |-> Or(Field(e, "id"),
                                 IF cur = Null THEN "" ELSE cur.modelId),
                  state |-> state,
                  port |-> IF state = "ready" THEN Field(e, "port") ELSE Null,
                  code |-> IF state = "failed" THEN Field(e, "code") ELSE Null,
                  lastSeq |-> e.seq])

\* The tools whose name matches /write|edit|patch/.
EditTools == {"write_file", "edit_file", "apply_patch"}

\* The path an event touches, by file_changed or by an editing tool's input.
TouchedPath(e) ==
    CASE e.kind = "file_changed" -> Field(e, "path")
      [] e.kind = "tool_started" /\ Field(e, "tool") \in EditTools ->
             IF Field(e, "input") = Null THEN Null
             ELSE Get(Field(e, "input"), "path")
      [] OTHER -> Null

\* The changed-file rail: one row per path, in the order of first touch.
foldFileChange(prev, e) ==
    LET list == Or(prev, <<>>)
        path == TouchedPath(e)
        at   == SelectInSeq(list, LAMBDA f : f.path = path)
        change == IF e.kind = "file_changed" THEN Field(e, "change") ELSE Null
    IN  CASE path = Null -> list
          [] at = 0 -> Append(list, [path |-> path, change |-> change,
                                     firstSeq |-> e.seq, lastSeq |-> e.seq])
          [] OTHER -> [list EXCEPT ![at].change = Or(change, @),
                                   ![at].lastSeq = e.seq]

\* Of the failures list only entries that are objects survive, of their
\* locations only those with a path.
parseFailures(raw) ==
    IF raw = Null THEN <<>>
    ELSE LET objects == SelectSeq(raw, LAMBDA f : f # Null)
             Placed(f) == SelectSeq(Or(Get(f, "location"), <<>>),
                                    LAMBDA l : Get(l, "path") # Null)
         IN  [i \in DOMAIN objects |->
                 [kind |-> Get(objects[i], "kind"),
                  locations |-> Placed(objects[i])]]

TestOutcome == [test_started |-> "started", test_passed |-> "passed",
                test_failed |-> "failed"]

\* One row per command; the outcome takes the place of the start.
foldTestRun(prev, e) ==
    LET command == Or(Field(e, "command"), "(unnamed run)")
        run == [command |-> command, outcome |-> TestOutcome[e.kind],
                failureCount |-> Field(e, "failure_count"),
                failures |-> parseFailures(Field(e, "failures")),
                seq |-> e.seq]
        runs == Or(prev, <<>>)
        at   == SelectInSeq(runs, LAMBDA r : r.command = command)
    IN  CASE e.kind \notin DOMAIN TestOutcome -> prev
          [] at = 0 -> Append(runs, run)
          [] OTHER -> [runs EXCEPT ![at] = run]

\* Installs and servers belong to no task.
FoldGlobal(state, e) ==
    IF ~e.ok THEN state
    ELSE [state EXCEPT !.modelInstalls  = foldModelInstall(@, e),
                       !.engineInstalls = foldEngineInstall(@, e),
                       !.modelServers   = foldModelServer(@, e)]

\* What one event does to the task it names.
FoldTask(state, e) ==
    LET t     == e.taskId
        Tell(f, kind) == IF e.ok /\ e.kind = kind
                         THEN Put(f, t, [seq |-> e.seq, payload |-> e.payload])
                         ELSE f
        files == foldFileChange(Get(state.files, t), e)
        runs  == foldTestRun(Get(state.tests, t), e)
    IN  IF t = Null THEN state
        ELSE [state EXCEPT
                 !.tasks = Put(@, t, advanceTask(Get(@, t), e)),
                 !.plans = Tell(@, "plan_created"),
                 !.approvals = Tell(@, "approval_requested"),
                 !.files = IF e.ok THEN Put(@, t, files) ELSE @,
                 !.tests = IF e.ok /\ runs # Null THEN Put(@, t, runs) ELSE @]

\* Mutant: the cursor counts events instead of taking their seq.
CountsEvents(state, raw) ==
    LET e == decodeEvent(raw)
        next == FoldTask(FoldGlobal(state, e), e)
    IN  [next EXCEPT !.lastSeq = @ + 1,
                     !.events = Append(@, [seq |-> e.seq, kind |-> e.kind,
                                           taskId |-> e.taskId,
                                           payload |-> e.payload,
                                           degraded |-> ~e.ok])]

\* Mutant: the event at the cursor is taken for a new one.
ReappliesLast(state, raw) ==
    LET e == decodeEvent(raw)
        next == FoldTask(FoldGlobal(state, e), e)
    IN  IF e.seq < state.lastSeq THEN state
        ELSE [next EXCEPT !.lastSeq = e.seq,
                          !.gapDetected = @ \/ e.seq > state.lastSeq + 1,
                          !.events = Append(@, [seq |-> e.seq, kind |-> e.kind,
                                                taskId |-> e.taskId,
                                                payload |-> e.payload,
                                                degraded |-> ~e.ok])]

\* applyDecodedNoAppend and the append: an event at or below the cursor is
\* ignored, one beyond the next leaves a gap on record.
applyDecoded(state, raw) ==
    LET e == decodeEvent(raw)
        next == FoldTask(FoldGlobal(state, e), e)
    IN  IF e.seq < state.lastSeq + 1 THEN state
        ELSE [next EXCEPT !.lastSeq = e.seq,
                          !.gapDetected = @ \/ e.seq > state.lastSeq + 1,
                          !.events = Append(@, [seq |-> e.seq, kind |-> e.kind,
                                                taskId |-> e.taskId,
                                                payload |-> e.payload,
                                                degraded |-> ~e.ok])]

\* The events of a batch, first to last.
applyBatch(state, raws) ==
    LET after[n \in 0 .. Len(raws)] ==
            IF n = 0 THEN state ELSE applyDecoded(after[n - 1], raws[n])
    IN  after[Len(raws)]

\* Everything anew, from the empty store.
replay(raws) == applyBatch(emptyStore, raws)

(***************************************************************************)
(* selectors.ts: every surface reads the store through these.              *)
(***************************************************************************)
SHELL_TOOL_NAMES == {"run_command", "bash", "shell", "sh"}

\* The keys of a projection, the most recently touched first.
ByRecency(f) ==
    SetToSortSeq(DOMAIN f, LAMBDA a, b : f[a].lastSeq > f[b].lastSeq)

tasksByRecency(state) == ByRecency(state.tasks)
activeTasks(state) ==
    SelectSeq(tasksByRecency(state), LAMBDA t : ~state.tasks[t].terminal)
taskById(state, t) == Get(state.tasks, t)
needsResubscribe(state) == state.gapDetected

\* The first of those ByRecency would give of some of the keys.
MostRecent(f, keys) ==
    IF keys = {} THEN Null
    ELSE CHOOSE k \in keys : \A j \in keys : f[j].lastSeq <= f[k].lastSeq

currentTask(state) == MostRecent(state.tasks, DOMAIN state.tasks)
eventsForTask(state, t) ==
    SelectSeq(state.events, LAMBDA e : e.taskId = t)
timelineRows(state) == SortSeq(state.events, LAMBDA a, b : a.seq > b.seq)

\* The field whose value an activity line shows beside its fixed words.
\* model_completed.text and tool_completed.rendered are in no line.
LineField ==
    [plan_created |-> "revision", tool_completed |-> "tool",
     file_changed |-> "path", test_failed |-> "summary",
     verification_evidence |-> "command", approval_requested |-> "prompt",
     state_changed |-> "to", task_failed |-> "reason",
     progress_stalled |-> "reason"]

activityLine(e) ==
    LET input  == Field(e, "input")
        target == IF input = Null THEN Null ELSE Get(input, "path")
        shown  == CASE e.kind = "tool_started" -> Or(target, Field(e, "tool"))
                    [] e.kind \in DOMAIN LineField ->
                           Field(e, LineField[e.kind])
                    [] OTHER -> Null
    IN  [kind |-> e.kind, shown |-> shown,
         failed |-> e.kind = "tool_completed" /\ Field(e, "success") = FALSE]

planFor(state, t) == Get(state.plans, t)
changedFilesForTask(state, t) ==
    SortSeq(Or(Get(state.files, t), <<>>),
            LAMBDA a, b : a.firstSeq < b.firstSeq)
testResultsForTask(state, t) ==
    SortSeq(Or(Get(state.tests, t), <<>>), LAMBDA a, b : a.seq > b.seq)

\* The steps of the plan that are declared boundaries.
checkpointsForTask(state, t) ==
    LET plan  == planFor(state, t)
        steps == IF plan = Null THEN <<>> ELSE Or(Field(plan, "steps"), <<>>)
        Boundary(s) == /\ s # Null
                       /\ TRUE \in {Get(s, "checkpoint"),
                                    Get(s, "rollback_boundary")}
    IN  [i \in DOMAIN SelectSeq(steps, Boundary) |->
            LET s == SelectSeq(steps, Boundary)[i]
            IN  [stepId |-> Get(s, "id"),
                 rollbackBoundary |-> Get(s, "rollback_boundary") = TRUE]]

\* The ids live plan_checkpoint events told, by step; a later one wins.
checkpointIdsForTask(state, t) ==
    LET Tells(e) == /\ e.taskId = t /\ e.kind = "plan_checkpoint"
                    /\ Null \notin {Field(e, "step_id"),
                                    Field(e, "checkpoint_id")}
    IN  FoldLeft(LAMBDA out, e : Put(out, Field(e, "step_id"),
                                     Field(e, "checkpoint_id")),
                 <<>>, SelectSeq(state.events, Tells))

\* The rendered envelope of run_command: a record of its parts when both
\* markers are found in order, any other blob is kept whole as raw.
parseRenderedCommand(rendered) ==
    IF rendered = Null \/ ~rendered.marked THEN Null
    ELSE [exit_code |-> rendered.exit_code, stdout |-> rendered.stdout,
          stderr |-> rendered.stderr]

\* What a command shows of its completion: the structured fields whenever any
\* of them is present (an explicit null too), else what rendered parses to.
CommandOutput(done) ==
    LET fields == {"exit_code", "stdout", "stderr"}
        structured == done.payload # Null
                      /\ fields \cap DOMAIN done.payload # {}
        parsed == parseRenderedCommand(Field(done, "rendered"))
    IN  [f \in fields |-> CASE structured -> Field(done, f)
                            [] ~structured /\ parsed # Null -> parsed[f]
                            [] OTHER -> Null]
        @@ [raw |-> IF structured \/ parsed # Null THEN Null
                    ELSE Field(done, "rendered")]

\* Mutant: a start always takes the completion after it, id or no id.
NextCompletion(rows, i) ==
    LET later(k) == {j \in i + 1 .. Len(rows) : rows[j].kind = k}
        done == {j \in later("tool_completed") :
                     \A s \in later("tool_started") : j < s}
    IN  IF done = {} THEN Null
        ELSE rows[CHOOSE j \in done : \A k \in done : j <= k]

\* The completion of the tool_started at row i: with an id the first one that
\* carries the id, wherever it stands; without, the next completion before
\* the next start.
CompletionOf(rows, i) ==
    LET id == Field(rows[i], "tool_invocation_id")
        later(k) == {j \in i + 1 .. Len(rows) : rows[j].kind = k}
        done == IF id # Null
                THEN {j \in DOMAIN rows :
                          /\ rows[j].kind = "tool_completed"
                          /\ Field(rows[j], "tool_invocation_id") = id}
                ELSE {j \in later("tool_completed") :
                          \A s \in later("tool_started") : j < s}
    IN  IF done = {} THEN Null
        ELSE rows[CHOOSE j \in done : \A k \in done : j <= k]

\* The shell commands the agent ran for a task, in order.
agentCommandsForTask(state, t) ==
    LET rows == SortSeq(eventsForTask(state, t), LAMBDA a, b : a.seq < b.seq)
        Shell(i) == /\ rows[i].kind = "tool_started"
                    /\ Field(rows[i], "tool") \in SHELL_TOOL_NAMES
        Command(i) ==
            LET done == CompletionOf(rows, i)
            IN  [seq |-> rows[i].seq,
                 invocationId |-> Field(rows[i], "tool_invocation_id"),
                 pending |-> done = Null,
                 succeeded |-> IF done = Null THEN Null
                               ELSE Field(done, "success"),
                 output |-> IF done = Null THEN Null ELSE CommandOutput(done)]
        starts == SetToSortSeq({i \in DOMAIN rows : Shell(i)}, <)
    IN  [k \in DOMAIN starts |-> Command(starts[k])]

\* Shown only while the task is blocked on it.
pendingApprovalFor(state, t) ==
    LET task == taskById(state, t)
    IN  IF task = Null THEN Null
        ELSE IF task.state # "waiting_for_permission" THEN Null
        ELSE Get(state.approvals, t)

modelInstall(state, id) == Get(state.modelInstalls, id)
modelServers(state) == ByRecency(state.modelServers)
modelServerForRole(state, role) == Get(state.modelServers, role)
modelServersForModel(state, id) ==
    SelectSeq(modelServers(state),
              LAMBDA r : state.modelServers[r].modelId = id)
=============================================================================
