------------------------------ MODULE TaskWindow ------------------------------
(***************************************************************************)
(* One extension window on a running Core: batches of the journal are      *)
(* folded into the store, every change of store, connection or focus runs  *)
(* its listeners, and the views that hold more than the store (the editor  *)
(* panels, the ownership badges, the model lists and the runtime marker)   *)
(* fetch the rest from Core.  The host answers one request at a time, so   *)
(* answers come in request order; while one is on its way everything else  *)
(* goes on.                                                                *)
(*                                                                         *)
(* A scenario fixes what Core has to tell (one script per source, merged   *)
(* in any order) and which views are there: the views do not read each     *)
(* other's state, so their state spaces are explored one after another.    *)
(* How batches come to the window is EventPump's and SessionStream's       *)
(* matter; here any run of the journal's events may come: what the window  *)
(* has already, the next ones, and also later ones.  Those come when the   *)
(* store starts again while the old session's batches still arrive, and    *)
(* when a restarted pump overtakes the one before it.                      *)
(***************************************************************************)
EXTENDS Surfaces

CONSTANTS Scenarios,   \* the records [scripts, uses, caps, creates] described below
          MaxBatch,    \* events in a batch
          MaxSent,     \* requests on their way before the user waits
          MaxPrompts   \* resume prompts

ASSUME BoundsAssumption == {MaxBatch, MaxSent, MaxPrompts} \subseteq Nat \ {0}

CatalogIds == {"m1", "m2"}

\* Core tells of its own tasks and installs what is in its catalog.
\* Opening a workspace again lets the old session's batches leave a hole.
ASSUME ScenariosAssumption ==
    \A s \in Scenarios :
        /\ s.creates \subseteq DOMAIN s.scripts
        /\ \A source \in DOMAIN s.scripts :
               /\ s.scripts[source] \in Seq(Range(s.scripts[source]))
               /\ \A e \in Range(s.scripts[source]) :
                      /\ e.taskId \in DOMAIN s.scripts \cup {Null}
                      /\ e.kind = "model_install_completed" =>
                             e.payload.id \in CatalogIds
        /\ "reopen" \in s.uses => "holes" \in s.uses

VARIABLES
    scn,      \* scripts: source |-> sequence of raw events without their seq;
              \* uses: the views and disturbances; caps: Core's capabilities;
              \* creates: the sources that are tasks this window creates
    journal,  \* what Core has told
    core,     \* what Core holds besides: see CoreStart
    win       \* the extension host: see WindowStart

vars == <<scn, journal, core, win>>

Uses(f) == f \in scn.uses

(***************************************************************************)
(* The window.  Listeners are functions of the window, composed in the     *)
(* order the emitters run them.                                            *)
(***************************************************************************)
Readers == {"models", "picker", "marker"}

NoData(t) == [taskId |-> t, report |-> Null, ownership |-> <<>>]

WindowStart ==
    [store |-> emptyStore, conn |-> "starting", pinned |-> Null,
     caps |-> {},         \* what the last session/open said Core can do
     alive |-> TRUE,      \* the bridge host's process
     sent |-> <<>>,       \* requests on their way, oldest first
     panels |-> [open |-> FALSE, data |-> NoData(Null),
                 fetching |-> FALSE, next |-> NoData(Null),
                 missed |-> FALSE, cold |-> FALSE, failed |-> FALSE],
     badges |-> [lastTaskId |-> Null, byPath |-> <<>>,
                 overtaken |-> FALSE, failed |-> FALSE],
     lists |-> [r \in Readers |->
                   [wired |-> r = "marker", models |-> Null, at |-> 0,
                    recommend |-> Null, seen |-> 0,
                    skipped |-> FALSE, failed |-> FALSE]],
     prompted |-> FALSE, dialogs |-> <<>>]

Focus(w) == resolveFocus(w.store, w.pinned)

\* A request joins the queue; about is its task or model, kept what its
\* sender holds on to until the answer.
Send(w, from, method, about, kept) ==
    [w EXCEPT !.sent = Append(@, [from |-> from, method |-> method,
                                  about |-> about, kept |-> kept,
                                  answer |-> Null])]

Waiting(w, from) == \E i \in DOMAIN w.sent : w.sent[i].from = from

\* EditorPanelManager.maybeRefreshData.  missed, cold and failed record why
\* the data may not be the focused task's.
RefreshPanels(w, force) ==
    LET t == Focus(w)
        p == w.panels
    IN  IF ~p.open THEN w
        ELSE IF p.fetching
        THEN [w EXCEPT !.panels.missed = @ \/ t # p.next.taskId]
        ELSE IF ~force /\ t = p.data.taskId THEN w
        ELSE IF w.conn # "ready" \/ t = Null
        THEN [w EXCEPT !.panels.data = NoData(t), !.panels.cold = TRUE,
                       !.panels.missed = FALSE, !.panels.failed = FALSE]
        ELSE Send([w EXCEPT !.panels.fetching = TRUE, !.panels.next = NoData(t),
                            !.panels.cold = FALSE, !.panels.missed = FALSE,
                            !.panels.failed = FALSE],
                  "panels", "task/report", t, Null)

\* FileOwnershipDecorations.maybeRefresh.
RefreshBadges(w) ==
    LET t == Focus(w)
    IN  IF ~Uses("badges") \/ t = w.badges.lastTaskId THEN w
        ELSE IF t = Null \/ "ledger" \notin w.caps \/ w.conn # "ready"
        THEN [w EXCEPT !.badges.lastTaskId = t, !.badges.byPath = <<>>,
                       !.badges.overtaken = @ \/ Waiting(w, "badges")]
        ELSE Send([w EXCEPT !.badges.lastTaskId = t,
                            !.badges.overtaken = FALSE,
                            !.badges.failed = FALSE],
                  "badges", "ledger/changes", t, Null)

\* refresh / refreshModels / refreshRuntimeMarker: dropped unless ready.
RefreshList(w, r) ==
    IF w.conn # "ready" THEN [w EXCEPT !.lists[r].skipped = TRUE]
    ELSE Send([w EXCEPT !.lists[r].failed = FALSE, !.lists[r].skipped = FALSE],
              r, "model/list", Null, Null)

\* The last event after which model/list may tell something new; the picker
\* only looks at servers.
LastTerminal(state, r) ==
    LET installs == IF r = "picker" THEN <<>> ELSE state.modelInstalls
        ended == {installs[m].lastSeq : m \in
                      {k \in DOMAIN installs : installs[k].status # "running"}}
        settled == {state.modelServers[s].lastSeq : s \in
                       {k \in DOMAIN state.modelServers :
                            state.modelServers[k].state # "starting"}}
    IN  CHOOSE n \in {0} \cup ended \cup settled :
            \A m \in ended \cup settled : m <= n

\* Mutant: the watcher too takes note before it looks at the connection.
NotesFirst(w, r) ==
    LET latest == LastTerminal(w.store, r)
    IN  IF ~Uses(r) \/ ~w.lists[r].wired \/ latest <= w.lists[r].seen
        THEN w
        ELSE RefreshList([w EXCEPT !.lists[r].seen = latest], r)

\* onStoreChange of a model view, and extension.ts's watcher, which alone
\* looks at the connection before it takes note of the event.
ListChange(w, r) ==
    LET latest == LastTerminal(w.store, r)
    IN  IF ~Uses(r) \/ ~w.lists[r].wired \/ latest <= w.lists[r].seen
           \/ (r = "marker" /\ w.conn # "ready")
        THEN w
        ELSE RefreshList([w EXCEPT !.lists[r].seen = latest], r)

\* The first store change of a ready session offers to resume the most
\* recent unfinished task.
PromptResume(w) ==
    LET tasks == w.store.tasks
        unfinished == {t \in DOMAIN tasks : ~tasks[t].terminal}
    IN  IF ~Uses("resume") \/ w.prompted \/ w.conn # "ready" THEN w
        ELSE [w EXCEPT !.prompted = TRUE,
                       !.dialogs =
                           IF unfinished = {} THEN @
                           ELSE Append(@, [task |-> MostRecent(tasks, unfinished),
                                           stage |-> "ask"])]

StoreChanged(w) ==
    ListChange(ListChange(RefreshBadges(ListChange(PromptResume(
        RefreshPanels(w, FALSE)), "marker")), "models"), "picker")

FocusChanged(w) == RefreshBadges(RefreshPanels(w, FALSE))
SupervisorChanged(w) == RefreshBadges(RefreshPanels(w, FALSE))

\* core/connectionState: the store hears of it before the supervisor.
Connected(w, s) ==
    LET told == StoreChanged([w EXCEPT !.store = setConnection(@, s)])
    IN  IF told.conn = s THEN told
        ELSE SupervisorChanged([told EXCEPT !.conn = s])

\* supervisor.open: connecting until session/open is answered.
Open(w) ==
    Send(SupervisorChanged([w EXCEPT !.conn = "connecting"]),
         "session", "session/open", Null, Null)

CoreStart ==
    [pos |-> [s \in DOMAIN scn.scripts |-> 0],
     born |-> DOMAIN scn.scripts \ scn.creates,
     weights |-> {}, active |-> Null,
     driver |-> [s \in DOMAIN scn.scripts |-> "none"],
     revived |-> {}]

Init ==
    /\ scn \in Scenarios
    /\ journal = <<>>
    /\ core = CoreStart
    /\ win = Open(WindowStart)

(***************************************************************************)
(* Core (external).  It tells the next event of a source; an install puts  *)
(* the weights there, a ready server makes its model the active one.       *)
(***************************************************************************)
Tells(e) ==
    journal' = Append(journal, [valid |-> e.valid, kind |-> e.kind,
                                taskId |-> e.taskId, payload |-> e.payload,
                                seq |-> Len(journal) + 1])

Emit(s) ==
    LET e  == scn.scripts[s][core.pos[s] + 1]
        id == IF e.kind \in {"model_install_completed", "model_server_ready"}
              THEN e.payload.id ELSE Null
    IN  /\ core.pos[s] < Len(scn.scripts[s])
        /\ s \in core.born
        /\ core.driver[s] = "none"
        /\ Tells(e)
        /\ core' = [core EXCEPT
               !.pos[s] = @ + 1,
               !.weights = IF e.kind = "model_install_completed"
                           THEN @ \cup {id} ELSE @,
               !.active = IF e.kind = "model_server_ready" THEN id ELSE @]
        /\ UNCHANGED <<scn, win>>

\* The driver found the flag: the task is cancelled.
Cancels(t) ==
    /\ core.driver[t] = "ended"
    /\ Tells([valid |-> TRUE, kind |-> "state_changed", taskId |-> t,
              payload |-> [to |-> "cancelled"]])
    /\ core' = [core EXCEPT !.driver[t] = "cancelled"]
    /\ UNCHANGED <<scn, win>>

\* model/list: the catalog as it is now.
CatalogNow ==
    [at |-> Len(journal),
     models |-> [i \in 1 .. 2 |->
        LET id == <<"m1", "m2">>[i]
        IN  [id |-> id, chatCapable |-> TRUE, installed |-> id \in core.weights,
             active |-> id = core.active]]]

\* ledger/changes: the paths the task touched, each tagged with its owner.
LedgerOf(t) ==
    LET mine == {i \in DOMAIN journal : /\ journal[i].taskId = t
                                        /\ journal[i].kind = "file_changed"}
    IN  [p \in {journal[i].payload.path : i \in mine} |-> t]

Result(q) ==
    CASE q.method = "task/report" -> q.about
      [] q.method = "ledger/changes" -> LedgerOf(q.about)
      [] q.method = "model/list" -> CatalogNow
      [] q.method = "model/recommend" ->
             [recommended |-> "m1", fit |-> [m1 |-> <<"tight", 1>>]]
      [] OTHER -> "ok"

\* Core has the task a cancel or a resume is about.
Has(q) == q.method \in {"task/cancel", "task/resume"} =>
              q.about \in DOMAIN core.driver

\* What answering does to Core.  A cancel is a flag the task's driver acts
\* on; a resume starts a driver, which looks at the flag first.  revived are
\* the tasks a discard's resume set running.
Effect(q) ==
    LET d == core.driver
    IN  CASE q.method = "model/remove" ->
                 [core EXCEPT !.weights = @ \ {q.about},
                              !.active = IF @ = q.about THEN Null ELSE @]
          [] q.method = "task/create" -> [core EXCEPT !.born = @ \cup {q.about}]
          [] q.method = "task/cancel" /\ Has(q) ->
                 [core EXCEPT !.driver[q.about] =
                     IF d[q.about] = "none" THEN "flagged"
                     ELSE IF d[q.about] = "running" THEN "ended" ELSE @]
          [] q.method = "task/resume" /\ Has(q) ->
                 [core EXCEPT
                     !.driver[q.about] = IF d[q.about] = "flagged" THEN "ended"
                         ELSE IF d[q.about] = "none" THEN "running" ELSE @,
                     !.revived = IF q.from = "discard" /\ d[q.about] = "none"
                                 THEN @ \cup {q.about} ELSE @]
          [] OTHER -> core

Failure == [ok |-> FALSE, result |-> Null]
Reply(q) == IF Has(q) THEN [ok |-> TRUE, result |-> Result(q)] ELSE Failure

\* The oldest request that has no answer yet.
Asked == SelectInSeq(win.sent, LAMBDA q : q.answer = Null)

Answer ==
    /\ win.alive /\ Asked # 0
    /\ core' = Effect(win.sent[Asked])
    /\ win' = [win EXCEPT !.sent[Asked].answer = Reply(win.sent[Asked])]
    /\ UNCHANGED <<scn, journal>>

\* Core or the host refuses, or the host does not live to answer.
Fail ==
    /\ Asked # 0
    /\ Uses("failures") \/ ~win.alive
    /\ win' = [win EXCEPT !.sent[Asked].answer = Failure]
    /\ UNCHANGED <<scn, journal, core>>

(***************************************************************************)
(* The window takes the oldest answer; its awaiter goes on.                *)
(***************************************************************************)
\* Mutant: answers are taken by whoever is ready first.
AnyAnswered(w) == {i \in DOMAIN w.sent : w.sent[i].answer # Null}

NextAnswered(w) == {i \in DOMAIN w.sent : i = 1 /\ w.sent[i].answer # Null}

\* Mutant: what was fetched is taken to be about the task shown by now.
ShownForFocus(w) ==
    [w EXCEPT !.panels.data = [w.panels.next EXCEPT !.taskId = Focus(w)],
              !.panels.fetching = FALSE, !.panels.next = NoData(Null)]

FetchShown(w) ==
    [w EXCEPT !.panels.data = w.panels.next,
              !.panels.fetching = FALSE, !.panels.next = NoData(Null)]

\* The report, then the ledger if Core has one, then the data is shown.
PanelsTake(w, q) ==
    LET got  == IF q.method = "task/report"
                THEN [w EXCEPT !.panels.next.report = q.answer.result]
                ELSE [w EXCEPT !.panels.next.ownership =
                                   Or(q.answer.result, <<>>)]
        told == [got EXCEPT !.panels.failed = @ \/ ~q.answer.ok]
    IN  IF q.method = "task/report" /\ "ledger" \in w.caps
        THEN Send(told, "panels", "ledger/changes", q.about, Null)
        ELSE FetchShown(told)

\* The whole map is replaced; a failure leaves the old one.
BadgesTake(w, q) ==
    IF q.answer.ok THEN [w EXCEPT !.badges.byPath = q.answer.result]
    ELSE [w EXCEPT !.badges.failed = TRUE]

\* A model view takes the list, or none, at once and then asks for the
\* recommendation if Core scores hardware.
ViewTakes(w, q, r) ==
    LET listed == [w EXCEPT
            !.lists[r].models = IF q.answer.ok THEN q.answer.result.models
                                ELSE Null,
            !.lists[r].at = IF q.answer.ok THEN q.answer.result.at ELSE @,
            !.lists[r].failed = ~q.answer.ok]
    IN  CASE q.method = "model/list" /\ "hardware" \in w.caps ->
                 Send(listed, r, "model/recommend", Null, Null)
          [] q.method = "model/list" /\ "hardware" \notin w.caps ->
                 [listed EXCEPT !.lists[r].recommend = Null]
          [] OTHER -> [w EXCEPT !.lists[r].recommend = q.answer.result]

\* The marker waits for the doctor before it shows what the list said, and
\* shows neither when the doctor fails; without a list it shows no model.
MarkerTakes(w, q) ==
    CASE q.method = "model/list" ->
             Send([w EXCEPT !.lists["marker"].failed = ~q.answer.ok],
                  "marker", "doctor/run", Null, q.answer)
      [] q.method = "doctor/run" /\ q.answer.ok ->
             [w EXCEPT
                 !.lists["marker"].models = IF q.kept.ok THEN q.kept.result.models
                                            ELSE Null,
                 !.lists["marker"].at = IF q.kept.ok THEN q.kept.result.at
                                        ELSE @]
      [] OTHER -> [w EXCEPT !.lists["marker"].failed = TRUE]

\* A removal has no event: the model manager asks again itself.
RemovalTakes(w, q) ==
    IF q.answer.ok THEN RefreshList(w, "models") ELSE w

\* The session is open, or its opening failed; then the marker is refreshed.
SessionTakes(w, q) ==
    IF ~q.answer.ok
    THEN SupervisorChanged([w EXCEPT !.conn = "failed", !.caps = {}])
    ELSE LET ready == SupervisorChanged([w EXCEPT !.conn = "ready",
                                                  !.caps = scn.caps])
         IN  IF Uses("marker") THEN RefreshList(ready, "marker") ELSE ready

\* Mutant: the resume follows whatever became of the cancel.
ResumesAnyway(w, q) ==
    IF q.method = "task/cancel"
    THEN Send(w, "discard", "task/resume", q.about, q.kept)
    ELSE [w EXCEPT !.dialogs[q.kept].stage =
                       IF q.answer.ok THEN "discarded" ELSE "failed"]

\* A discard cancels first and resumes once that is answered, so that a fresh
\* driver finds the flag; a failed cancel ends it there.
DiscardTakes(w, q) ==
    IF q.answer.ok /\ q.method = "task/cancel"
    THEN Send(w, "discard", "task/resume", q.about, q.kept)
    ELSE [w EXCEPT !.dialogs[q.kept].stage =
                       IF q.answer.ok THEN "discarded" ELSE "failed"]

\* A created task is pinned at once, before any event of it was read.
CreateTakes(w, q) ==
    IF ~q.answer.ok \/ w.pinned = q.about THEN w
    ELSE FocusChanged([w EXCEPT !.pinned = q.about])

Taken(w, q) ==
    CASE q.from = "panels" -> PanelsTake(w, q)
      [] q.from = "badges" -> BadgesTake(w, q)
      [] q.from \in {"models", "picker"} -> ViewTakes(w, q, q.from)
      [] q.from = "marker" -> MarkerTakes(w, q)
      [] q.from = "removal" -> RemovalTakes(w, q)
      [] q.from = "session" -> SessionTakes(w, q)
      [] q.from = "discard" -> DiscardTakes(w, q)
      [] q.from = "create" -> CreateTakes(w, q)
      [] OTHER -> w

Take ==
    \E i \in NextAnswered(win) :
        /\ win' = Taken([win EXCEPT !.sent = RemoveAt(@, i)], win.sent[i])
        /\ UNCHANGED <<scn, journal, core>>

(***************************************************************************)
(* What reaches the window.                                                *)
(***************************************************************************)
\* core/eventBatch: a run of events, wherever it begins; only a scenario with
\* holes has one that begins beyond the next event.
Deliver(first, last) ==
    /\ Uses("holes") \/ first <= win.store.lastSeq + 1
    /\ last - first < MaxBatch
    /\ win.alive
    /\ win' = StoreChanged([win EXCEPT
                 !.store = applyBatch(@, SubSeq(journal, first, last))])
    /\ UNCHANGED <<scn, journal, core>>

ConnectionState(s) ==
    /\ Uses("connection") /\ win.alive
    /\ win' = Connected(win, s)
    /\ UNCHANGED <<scn, journal, core>>

\* The host dies: every request is rejected.  It is respawned after that, and
\* the session reopened from the last event the window has.
HostExits ==
    /\ Uses("exits") /\ win.alive
    /\ win' = [win EXCEPT !.alive = FALSE,
                          !.sent = [i \in DOMAIN @ |->
                              [@[i] EXCEPT !.answer = Failure]]]
    /\ UNCHANGED <<scn, journal, core>>

Respawn ==
    /\ ~win.alive /\ win.sent = <<>>
    /\ win' = Open([win EXCEPT !.alive = TRUE])
    /\ UNCHANGED <<scn, journal, core>>

(***************************************************************************)
(* The user.                                                               *)
(***************************************************************************)
Acts(w) == /\ Len(win.sent) < MaxSent
           /\ win' = w
           /\ UNCHANGED <<scn, journal, core>>

\* valyria.openWorkspace: everything is dropped and read again.
OpenWorkspace ==
    /\ Uses("reopen") /\ win.alive /\ ~Waiting(win, "session")
    /\ Len(win.dialogs) < MaxPrompts
    /\ LET dropped == StoreChanged([win EXCEPT !.store = emptyStore])
           cleared == IF dropped.pinned = Null THEN dropped
                      ELSE FocusChanged([dropped EXCEPT !.pinned = Null])
       IN  Acts(Open([cleared EXCEPT !.prompted = FALSE]))

Pin(t) == /\ Uses("pins") /\ t \in DOMAIN win.store.tasks /\ t # win.pinned
          /\ Acts(FocusChanged([win EXCEPT !.pinned = t]))

CreateTask(t) == /\ t \notin core.born /\ ~Waiting(win, "create")
                 /\ Acts(Send(win, "create", "task/create", t, Null))

OpenPanel == /\ Uses("panels") /\ ~win.panels.open
             /\ Acts(RefreshPanels([win EXCEPT !.panels.open = TRUE], TRUE))

ClosePanel == /\ win.panels.open
              /\ Acts([win EXCEPT !.panels.open = FALSE])

\* The panel comes to the front, or its refresh is asked for.
RefreshSurface == win.panels.open /\ Acts(RefreshPanels(win, TRUE))

\* A model view is shown for the first time.
ResolveView(r) ==
    /\ Uses(r) /\ ~win.lists[r].wired
    /\ Acts(RefreshList([win EXCEPT !.lists[r].wired = TRUE], r))

RemoveModel(id) ==
    /\ Uses("models") /\ ~Waiting(win, "removal")
    /\ LET listed == Or(win.lists["models"].models, <<>>)
       IN  \E i \in DOMAIN listed : listed[i].id = id /\ listed[i].installed
    /\ Acts(Send(win, "removal", "model/remove", id, Null))

RefreshModels == /\ Uses("models") /\ win.lists["models"].wired
                 /\ Acts(RefreshList(win, "models"))

\* The three answers to a resume prompt; Discard asks once more.
Pick(i, choice) ==
    LET t == win.dialogs[i].task
        Becomes(stage) == [win EXCEPT !.dialogs[i].stage = stage]
    IN  /\ win.dialogs[i].stage = "ask"
        /\ CASE choice = "Resume" ->
                    Acts(Send(Becomes("resumed"), "prompt", "task/resume",
                              t, Null))
             [] choice = "Inspect" ->
                    Acts(FocusChanged([Becomes("closed") EXCEPT !.pinned = t]))
             [] choice = "Discard" -> Acts(Becomes("sure"))
             [] OTHER -> Acts(Becomes("closed"))

ConfirmDiscard(i) ==
    /\ win.dialogs[i].stage = "sure"
    /\ Acts(Send([win EXCEPT !.dialogs[i].stage = "discarding"], "discard",
                 "task/cancel", win.dialogs[i].task, i))

Next ==
    \/ \E s \in DOMAIN scn.scripts : Emit(s) \/ Cancels(s)
    \/ Answer
    \/ Fail
    \/ Take
    \/ \E last \in DOMAIN journal : \E first \in 1 .. last :
           Deliver(first, last)
    \/ \E s \in {"ready", "degraded"} : ConnectionState(s)
    \/ HostExits
    \/ Respawn
    \/ OpenWorkspace
    \/ \E t \in DOMAIN win.store.tasks : Pin(t)
    \/ \E t \in scn.creates : CreateTask(t)
    \/ OpenPanel
    \/ ClosePanel
    \/ RefreshSurface
    \/ \E r \in {"models", "picker"} : ResolveView(r)
    \/ \E id \in CatalogIds : RemoveModel(id)
    \/ RefreshModels
    \/ \E i \in DOMAIN win.dialogs :
           \/ \E c \in {"Resume", "Inspect", "Discard", "dismiss"} : Pick(i, c)
           \/ ConfirmDiscard(i)

Spec == Init /\ [][Next]_vars

(***************************************************************************)
(* What the views make of the window: buildModel of each.                  *)
(***************************************************************************)
\* The manager's rows, each with its card.
modelsView(w) ==
    LET rows == modelsModel(w.store, w.lists["models"].models,
                            w.lists["models"].recommend, {}).models
    IN  [i \in DOMAIN rows |-> rows[i] @@ [card |-> modelCard(rows[i], w.caps)]]

homeView(w) == homeModel(w.store, w.conn)

workspaceView(w) ==
    workspaceModel(w.store, w.pinned, w.conn, w.panels.data,
                   "diagnostics_v2" \in w.caps)

reviewView(w) == reviewModel(w.store, w.pinned, w.panels.data)

chatView(w) ==
    modelChatModel(w.store, w.pinned, w.conn, w.lists["picker"].models,
                   w.lists["picker"].recommend, FALSE)

(***************************************************************************)
(* Properties.                                                             *)
(***************************************************************************)
Stages == {"ask", "sure", "resumed", "closed", "discarding", "discarded",
           "failed"}

\* The window's own state is of the types the views rely on; the store's is
\* ReadsTheJournal's matter.
TypeOK ==
    /\ win.conn \in {"starting", "connecting", "ready", "degraded", "failed"}
    /\ win.pinned \in DOMAIN scn.scripts \cup {Null}
    /\ win.caps \in SUBSET scn.caps
    /\ win.store.lastSeq \in 0 .. Len(journal)
    /\ \A i \in DOMAIN win.dialogs : win.dialogs[i].stage \in Stages
    /\ \A r \in Readers : win.lists[r].seen \in 0 .. Len(journal)
    /\ core.weights \in SUBSET CatalogIds

\* What the selectors make of the store, in the words of JournalReading.
Shown(state) ==
    [tasks |-> [t \in DOMAIN state.tasks |->
        LET ask == pendingApprovalFor(state, t)
            files == changedFilesForTask(state, t)
            runs == testResultsForTask(state, t)
            kind(o) == CHOOSE k \in DOMAIN TestOutcome : TestOutcome[k] = o
        IN  [state |-> state.tasks[t].state,
             terminal |-> state.tasks[t].terminal,
             objective |-> state.tasks[t].objective,
             ask |-> IF ask = Null THEN Null ELSE ask.seq,
             files |-> {<<files[i].path, files[i].firstSeq, files[i].change>> :
                           i \in DOMAIN files},
             tests |-> {<<runs[i].command, kind(runs[i].outcome)>> :
                           i \in DOMAIN runs}]],
     current |-> currentTask(state),
     missing |-> needsResubscribe(state),
     installs |-> [id \in DOMAIN state.modelInstalls |->
                      <<modelInstall(state, id).status,
                        modelInstall(state, id).downloadedBytes>>],
     engines |-> [c \in DOMAIN state.engineInstalls |->
                     <<state.engineInstalls[c].status,
                       state.engineInstalls[c].downloadedBytes>>],
     servers |-> [r \in DOMAIN state.modelServers |->
                     <<modelServerForRole(state, r).state,
                       modelServerForRole(state, r).modelId>>]]

\* The seqs of the events the store holds, in its order.
HeldSeqs(state) == [i \in DOMAIN state.events |-> state.events[i].seq]

Reader == INSTANCE JournalReading
    WITH journal <- journal, held <- HeldSeqs(win.store), shown <- Shown(win.store)

\* The abstract specification holds: whatever batches come, cut anywhere,
\* overlapping what came before or leaving events out, each event is read once
\* and in order, the surfaces show exactly what the events read say, and the
\* store knows whether some are missing (reducer.ts, selectors.ts).
ReadsTheJournal == Reader!Spec

\* The store, whatever it was told of the connection.
Unconnected(state) == setConnection(state, emptyStore.connection)

Rebuilds == INSTANCE RebuiltStore
    WITH replay <- replay, journal <- journal, held <- HeldSeqs(win.store),
         store <- Unconnected(win.store)

\* However batches are cut, overlap or leave events out, replaying the events
\* the store holds rebuilds it, its cursor and the gap on its record included;
\* and what it holds only grows by later events or starts again (store.ts,
\* applyBatch, replay).
StoreIsDisposable == Rebuilds!Spec

\* The row of the event with this seq.
EventRow(state, seq) == CHOOSE row \in Range(state.events) : row.seq = seq

\* An agent command shows the output of its own invocation: no other's, none
\* before it ends, and its own as soon as it was read.  In the scripts a call
\* with an id may overlap others, one without ends before the next starts; that
\* one may take another's end for its own when events are missing, one with an
\* id never does.  stdout names the call (agentCommandsForTask).
CommandShowsItsOwn ==
    \A t \in DOMAIN win.store.tasks :
        LET rows == eventsForTask(win.store, t)
            shown == agentCommandsModel(win.store, t)
            ended(call) == \E i \in DOMAIN rows :
                /\ rows[i].kind = "tool_completed"
                /\ rows[i].payload.call = call
            call(c) == EventRow(win.store, c.seq).payload.input.program
        IN  \A i \in DOMAIN shown :
                LET c == shown[i]
                IN  \/ needsResubscribe(win.store) /\ c.invocationId = Null
                    \/ /\ c.pending <=> ~ended(call(c))
                       /\ ~c.pending =>
                              call(c) \in {c.output.stdout, c.output.raw}

\* What the user is offered on each surface, were all of them open.
Offers(w) ==
    [home |-> homeOffers(homeView(w)),
     workspace |-> workspaceOffers(workspaceView(w)),
     review |-> reviewOffers(reviewView(w)),
     chat |-> modelChatOffers(chatView(w), w.caps)]

OneStory(offers) ==
    LET Offered(surface, name) == {o \in offers[surface] : o[1] = name}
        Answered(surface) == Offered(surface, "resolveApproval")
    IN  /\ \A surface \in DOMAIN offers :
               /\ Answered(surface) = {} \/ Offered(surface, "createTask") = {}
               /\ Answered(surface) \subseteq Answered("workspace")
        /\ \A o \in Answered("workspace") :
               o[2].seq = pendingApprovalFor(win.store, Focus(win)).seq
        /\ Offered("review", "openDiff") = Offered("workspace", "openDiff")
        /\ Offered("chat", "cancelTask") = {}
              \/ Offered("workspace", "cancelTask") # {}

\* The ticker and the chat call a task working or blocked alike, an ask is shown
\* only by what calls its task blocked, and Home takes no new task meanwhile.
SameTone(pin, chat, home) ==
    LET tone == tickerModel(win.store, pin).tone
    IN  /\ chat.working <=> tone = "working"
        /\ chat.blocked <=> tone = "blocked"
        /\ approvalsModel(win.store, pin).approval # Null => chat.blocked
        /\ home.canSubmit => ~chat.working

\* A command that names no task goes to the one that is shown.
TargetIsShown ==
    \/ targetTask(win.store, win.pinned, Null) = Focus(win)
    \/ win.pinned \notin DOMAIN win.store.tasks \cup {Null}

\* The surfaces tell one story of the same store.  Ticker, chat and Home call
\* a task working or blocked alike; an ask is shown only by what calls its
\* task blocked; Home takes a new task only while no task is working; every
\* task stands once on Home and in the history; a transcript is of its own
\* task; no line shows the model's text (models.ts).  No surface offers a new
\* task beside an ask; every surface answers the one ask that is shown; the
\* chat stops only what the workspace can cancel; and a command that names no
\* task goes to the task shown, unless the pinned one is still unknown to the
\* store (webviews/*/main.ts, targetTask).
SurfacesAgree ==
    LET st   == win.store
        home == homeView(win)
        past == historyModel(st, win.pinned)
        Listed(rows) == {rows[i].id : i \in DOMAIN rows}
        AgreeOn(pin) ==
            LET chat == chatModel(st, pin, win.conn)
            IN  /\ SameTone(pin, chat, home)
                /\ \A i \in DOMAIN chat.transcript :
                       EventRow(st, chat.transcript[i].seq).taskId = chat.taskId
                /\ chat.canSubmit /\ ~home.canSubmit =>
                       \E t \in DOMAIN st.tasks \ {chat.taskId} :
                           chatModel(st, t, win.conn).working
    IN  /\ \A pin \in DOMAIN st.tasks \cup {Null} : AgreeOn(pin)
        /\ Listed(home.active) \cap Listed(home.recent) = {}
        /\ Listed(home.active) \cup Listed(home.recent) = DOMAIN st.tasks
        /\ Listed(past) = DOMAIN st.tasks
        /\ \A i \in DOMAIN past :
               past[i].focused <=> past[i].id = Focus(win)
        /\ \A offers \in {Offers(win)} : OneStory(offers)
        /\ TargetIsShown
        /\ \A i \in DOMAIN timelineModel(st) :
               LET line == timelineModel(st)[i].summary
               IN  line.kind = "model_completed" => line.shown = Null

\* The report and the owners a panel holds are of the task they are kept for;
\* that is the focused one unless the focus moved while a fetch was on its way,
\* and they are complete unless a request failed or they were asked for while not
\* ready (EditorPanelManager.maybeRefreshData).
DataOfFocus ==
    LET p == win.panels
        t == Focus(win)
    IN  /\ p.data.report \in {Null, p.data.taskId}
        /\ \A path \in DOMAIN p.data.ownership :
               p.data.ownership[path] = p.data.taskId
        /\ p.open /\ ~p.fetching =>
               /\ p.data.taskId = t \/ p.missed
               /\ t # Null /\ p.data.taskId = t =>
                      p.data.report = t \/ p.cold \/ p.failed

\* What a panel shows beside the store is the focused task's: DataOfFocus, and
\* then the workspace and the review show it for the focused task, and the same
\* files with the same owners (workspaceModel, reviewModel).
PanelOfFocus ==
    LET p == win.panels
        t == Focus(win)
        work == workspaceView(win)
        review == reviewView(win)
    IN  /\ DataOfFocus
        /\ p.open /\ ~p.fetching /\ ~p.missed =>
               /\ {work.taskId, review.taskId} = {t}
               /\ {work.verified, review.verified} \subseteq {t, Null}
               /\ \A i \in DOMAIN review.files :
                      /\ review.files[i] = work.files[i]
                      /\ review.files[i].ownership \in {t, Null}

\* With no fetch on its way the badges are those of the task they were last
\* asked for, unless that fetch failed or an older answer came after they
\* were cleared (FileOwnershipDecorations).
BadgesOfFocus ==
    LET b == win.badges
    IN  Waiting(win, "badges") \/ b.failed \/ b.overtaken \/
        \A path \in DOMAIN b.byPath : b.byPath[path] = b.lastTaskId

\* Once its requests are answered a reader's list is no older than the last
\* event it took note of, unless the request failed; for the two views also
\* unless it was dropped because the session was not ready, which the marker,
\* looking at the connection before it takes note, never suffers
\* (onStoreChange, refreshRuntimeMarker).
ListNotBehind ==
    \A r \in Readers :
        LET l == win.lists[r]
        IN  \/ Waiting(win, r) \/ l.failed
            \/ (r # "marker" /\ l.skipped)
            \/ l.at >= l.seen

\* When everything told is read, none of it missing, and everything asked is
\* answered, the model manager says of each model what is so: installed, active,
\* and no finished install of a model that is gone.  Its card offers to install exactly the
\* models that are neither there nor coming, to remove exactly those that are
\* there and to activate or restart the right one; the picker names the active
\* model (modelsModel, modelCard, modelChatModel, remove).
ManagerTellsTheTruth ==
    LET l == win.lists["models"]
        rows == modelsView(win)
        k == win.lists["picker"]
        Stale(list) == \/ ~list.wired \/ list.models = Null
                       \/ list.failed \/ list.skipped
        SaysSo(row) ==
            LET there == row.id \in core.weights
                bound == row.id = core.active
            IN  /\ row.installed <=> there
                /\ row.active <=> bound
                /\ row.install # Null =>
                       (row.install.status = "completed" => row.installed)
                /\ "model_manage" \in win.caps =>
                       /\ "install" \in row.card.offers <=>
                              ~there /\ "cancel" \notin row.card.offers
                       /\ "remove" \in row.card.offers <=> there
                       /\ "activate" \in row.card.offers <=> there /\ ~bound
                       /\ "restart" \in row.card.offers => there /\ bound
    IN  \/ win.sent # <<>>
        \/ win.store.lastSeq < Len(journal) \/ needsResubscribe(win.store)
        \/ /\ Stale(k) \/ chatView(win).activeModelId = core.active
           /\ Stale(l) \/ \A i \in DOMAIN rows : SaysSo(rows[i])

\* Discarding a task never sets it running again, and a discard that went
\* through ended it (maybePromptResume).
DiscardEndsTask ==
    /\ core.revived = {}
    /\ \A i \in DOMAIN win.dialogs : win.dialogs[i].stage = "discarded" =>
           core.driver[win.dialogs[i].task] \in {"ended", "cancelled"}
=============================================================================
