--------------------------- MODULE SessionStream ---------------------------
(***************************************************************************)
(* One window's event stream, end to end: Core's journal, the bridge       *)
(* host's sessions and supervise tasks                                     *)
(* (crates/valyria-bridge-host/src/main.rs), the ordered stdout pipe, and  *)
(* the extension's event store (extension/src/store/store.ts with          *)
(* packages/state/src/reducer.ts), under everything that starts, replaces  *)
(* or ends a stream: activation, Reconnect, a change of autonomy, a lost   *)
(* daemon, a crashed and respawned bridge host.                            *)
(*                                                                         *)
(* A supervise task and the event pump it owns are one thread of this      *)
(* model; the pump is what EventPump shows it to be (OrderedDelivery): it  *)
(* hands over the journal's events past its cursor, in order.              *)
(***************************************************************************)
EXTENDS Naturals, Sequences

CONSTANTS MaxSeq,       \* bound on the journal
          Tasks,        \* names for the supervise tasks alive at once
          None,         \* no task
          MaxRequests,  \* bound on the session requests of one run
          MaxOut,       \* bound on the batches in the stdout pipe
          MaxFailures,  \* bound on lost streams and host crashes together
          FreshReopen   \* may the user open the workspace again from seq 0?

ASSUME SessionConstants ==
    /\ MaxSeq \in Nat
    /\ None \notin Tasks
    /\ MaxRequests \in Nat
    /\ MaxOut \in Nat
    /\ MaxFailures \in Nat
    /\ FreshReopen \in BOOLEAN

VARIABLES journal,     \* Core's journal holds 1..journal
          hostUp,      \* the bridge-host process runs
          task,        \* supervise: what it is doing
          aborted,     \* supervise: its JoinHandle was aborted
          cursor,      \* supervise: what it has put on the host's stdout
          unsent,      \* supervise: last seq of the batch its pump has handed it
                       \* and it has not put there yet; 0: none
          last_seq,    \* Live.last_seq, shared with its supervise task
          live,        \* Host.live: the task of the current session
          op,          \* where the host's main loop is
          reqs,        \* requests written to the host's stdin
          out,         \* batches on the host's stdout
          lastSeq,     \* Store.lastSeq
          rows,        \* the seqs of the store's events
          gapDetected, \* StoreState.gapDetected
          overtaken,   \* history: a pump resumed at a batch that another task
                       \* still held had its own first batch sent before it
          requests, failures  \* what MaxRequests and MaxFailures bound

taskVars  == <<task, aborted, cursor, unsent, last_seq>>
hostVars  == <<hostUp, taskVars, live, op>>
storeVars == <<lastSeq, rows, gapDetected>>
vars == <<journal, hostVars, reqs, out, storeVars, overtaken, requests, failures>>

Requests == [method : {"session/open"}, from : 0..MaxSeq]
                \cup [method : {"session/restart"}, from : {0}]
Batches  == [first : 1..MaxSeq, last : 1..MaxSeq]
Ops      == [at : {"idle", "opening", "started", "stopping"},
             from : 0..MaxSeq, task : Tasks \cup {None}]
Idle     == [at |-> "idle", from |-> 0, task |-> None]

TypeOK ==
    /\ journal \in 0..MaxSeq
    /\ hostUp \in BOOLEAN
    /\ task \in [Tasks -> {"ended", "streaming", "restarting"}]
    /\ aborted \in [Tasks -> BOOLEAN]
    /\ cursor \in [Tasks -> 0..MaxSeq]
    /\ unsent \in [Tasks -> 0..MaxSeq]
    /\ last_seq \in [Tasks -> 0..MaxSeq]
    /\ live \in Tasks \cup {None}
    /\ op \in Ops
    /\ reqs \in Seq(Requests)
    /\ out \in Seq(Batches)
    /\ lastSeq \in 0..MaxSeq
    /\ rows \in SUBSET (1..MaxSeq)
    /\ gapDetected \in BOOLEAN
    /\ overtaken \in BOOLEAN
    /\ requests \in 0..MaxRequests
    /\ failures \in 0..MaxFailures

\* The extension is activated and its host started; no session yet.
Init ==
    /\ journal \in 0..MaxSeq
    /\ hostUp = TRUE
    /\ task = [t \in Tasks |-> "ended"]
    /\ aborted = [t \in Tasks |-> FALSE]
    /\ cursor = [t \in Tasks |-> 0]
    /\ unsent = [t \in Tasks |-> 0]
    /\ last_seq = [t \in Tasks |-> 0]
    /\ live = None
    /\ op = Idle
    /\ reqs = <<>>
    /\ out = <<>>
    /\ lastSeq = 0
    /\ rows = {}
    /\ gapDetected = FALSE
    /\ overtaken = FALSE
    /\ requests = 0
    /\ failures = 0

Larger(a, b) == IF a < b THEN b ELSE a

CommitEvent ==
    /\ journal < MaxSeq
    /\ journal' = journal + 1
    /\ UNCHANGED <<hostVars, reqs, out, storeVars, overtaken, requests, failures>>

(***************************************************************************)
(* The extension.                                                          *)
(***************************************************************************)
Request(method, from) ==
    /\ hostUp
    /\ requests < MaxRequests
    /\ requests' = requests + 1
    /\ reqs' = Append(reqs, [method |-> method, from |-> from])

\* reopen(root, 0): drop the store, then ask for a session that replays from
\* the start.  activate does it once; "Open Repository for Agent" and the
\* first-run page do it again whenever the user likes.
OpenFresh ==
    /\ requests = 0 \/ FreshReopen
    /\ Request("session/open", 0)
    /\ lastSeq' = 0
    /\ rows' = {}
    /\ gapDetected' = FALSE
    /\ UNCHANGED <<journal, hostVars, out, overtaken, failures>>

\* Mutant: ask for the first event wanted instead of the last one applied.
ReconnectAtNext ==
    /\ requests > 0
    /\ Request("session/open", lastSeq + 1)
    /\ UNCHANGED <<journal, hostVars, out, storeVars, overtaken, failures>>

\* valyria.reconnect: reopen(root, store.lastSeq).
Reconnect ==
    /\ requests > 0
    /\ Request("session/open", lastSeq)
    /\ UNCHANGED <<journal, hostVars, out, storeVars, overtaken, failures>>

\* setAutonomy in the Security view; the host knows the resume cursor.
SetAutonomy ==
    /\ requests > 0
    /\ Request("session/restart", 0)
    /\ UNCHANGED <<journal, hostVars, out, storeVars, overtaken, failures>>

\* Mutant: an event equal to the expected one counts as already applied.
FreshOffByOne(b) == {s \in b.first..b.last : lastSeq + 1 < s}

\* The events of a batch the reducer does not ignore.
Fresh(b) == {s \in b.first..b.last : lastSeq + 1 <= s}

\* Store.ingestBatch and, for each event in turn, the reducer: an event below
\* lastSeq + 1 is ignored, one beyond it marks a gap and is applied.
Ingest ==
    /\ out # <<>>
    /\ LET b == Head(out)
       IN /\ lastSeq' = Larger(lastSeq, b.last)
          /\ rows' = rows \cup Fresh(b)
          /\ gapDetected' = (gapDetected \/ (Fresh(b) # {} /\ lastSeq + 1 \notin Fresh(b)))
    /\ out' = Tail(out)
    /\ UNCHANGED <<journal, hostVars, reqs, overtaken, requests, failures>>

(***************************************************************************)
(* The host's main loop: one request at a time.                            *)
(***************************************************************************)
TakeOpen ==
    /\ hostUp /\ op.at = "idle"
    /\ reqs # <<>> /\ Head(reqs).method = "session/open"
    /\ op' = [at |-> "opening", from |-> Head(reqs).from, task |-> None]
    /\ reqs' = Tail(reqs)
    /\ UNCHANGED <<journal, hostUp, taskVars, live, out, storeVars, overtaken,
                   requests, failures>>

\* build_supervisor_config or spawn_or_adopt fails: an error response, and the
\* session that was live stays so.
OpenFails ==
    /\ op.at = "opening"
    /\ op' = Idle
    /\ UNCHANGED <<journal, hostUp, taskVars, live, reqs, out, storeVars,
                   overtaken, requests, failures>>

\* The daemon answers: start a pump at the requested cursor and a supervise
\* task for it.  The old session's task, if any, still runs.
StartPump(t) ==
    /\ op.at = "opening"
    /\ task[t] = "ended" /\ t # live
    /\ task' = [task EXCEPT ![t] = "streaming"]
    /\ aborted' = [aborted EXCEPT ![t] = FALSE]
    /\ cursor' = [cursor EXCEPT ![t] = op.from]
    /\ last_seq' = [last_seq EXCEPT ![t] = op.from]
    /\ op' = [op EXCEPT !.at = "started", !.task = t]
    /\ UNCHANGED <<journal, hostUp, unsent, live, reqs, out, storeVars, overtaken,
                   requests, failures>>

\* Dropping a Live aborts its supervise task.
AbortTask(t) == aborted' = IF t = None THEN aborted ELSE [aborted EXCEPT ![t] = TRUE]

\* Mutant: Live has no Drop; the replaced session's task runs on.
SwapLiveNoDrop ==
    /\ op.at = "started"
    /\ live' = op.task
    /\ op' = Idle
    /\ UNCHANGED <<journal, hostUp, taskVars, reqs, out, storeVars, overtaken,
                   requests, failures>>

\* *host.live.lock() = Some(Live { .. }): the old Live is dropped.
SwapLive ==
    /\ op.at = "started"
    /\ live' = op.task
    /\ AbortTask(live)
    /\ op' = Idle
    /\ UNCHANGED <<journal, hostUp, task, cursor, unsent, last_seq, reqs, out,
                   storeVars, overtaken, requests, failures>>

\* session_restart with no session, or one whose daemon another process owns.
RefuseRestart ==
    /\ hostUp /\ op.at = "idle"
    /\ reqs # <<>> /\ Head(reqs).method = "session/restart"
    /\ reqs' = Tail(reqs)
    /\ UNCHANGED <<journal, hostVars, out, storeVars, overtaken, requests, failures>>

\* session_restart reads the resume cursor and takes the Live out.
TakeRestart ==
    /\ hostUp /\ op.at = "idle"
    /\ reqs # <<>> /\ Head(reqs).method = "session/restart"
    /\ live # None
    /\ op' = [at |-> "stopping", from |-> last_seq[live], task |-> live]
    /\ live' = None
    /\ reqs' = Tail(reqs)
    /\ UNCHANGED <<journal, hostUp, taskVars, out, storeVars, overtaken, requests,
                   failures>>

\* shutdown_daemon returned: the Live is dropped; on to session_open, or the
\* error goes back.
StopDone ==
    /\ op.at = "stopping"
    /\ AbortTask(op.task)
    /\ op' \in {[op EXCEPT !.at = "opening", !.task = None], Idle}
    /\ UNCHANGED <<journal, hostUp, task, cursor, unsent, last_seq, live, reqs,
                   out, storeVars, overtaken, requests, failures>>

(***************************************************************************)
(* A supervise task.  An abort takes effect when the task next yields, so  *)
(* an aborted task may still get a few steps in.                           *)
(***************************************************************************)
\* PumpMessage::Batch, first line: raise last_seq to the batch that came.
Raise(t) ==
    /\ task[t] = "streaming"
    /\ unsent[t] = 0
    /\ \E to \in cursor[t] + 1..journal :
         /\ unsent' = [unsent EXCEPT ![t] = to]
         /\ last_seq' = [last_seq EXCEPT ![t] = Larger(@, to)]
    /\ UNCHANGED <<journal, hostUp, task, aborted, cursor, live, op, reqs, out,
                   storeVars, overtaken, requests, failures>>

\* The next line, forward_batch: put the batch on the host's stdout.  The two
\* lines run on one thread without a yield and the main loop on another: it may
\* read last_seq between them, no abort can stop the task there.
Send(t) ==
    /\ unsent[t] # 0
    /\ Len(out) < MaxOut
    /\ out' = Append(out, [first |-> cursor[t] + 1, last |-> unsent[t]])
    /\ cursor' = [cursor EXCEPT ![t] = unsent[t]]
    /\ unsent' = [unsent EXCEPT ![t] = 0]
    /\ overtaken' = (overtaken \/ \E u \in Tasks \ {t} :
                                     unsent[u] # 0 /\ unsent[u] = cursor[t])
    /\ UNCHANGED <<journal, hostUp, task, aborted, last_seq, live, op, reqs,
                   storeVars, requests, failures>>

\* PumpMessage::Closed: Core is gone as far as the pump can tell.
StreamCloses(t) ==
    /\ task[t] = "streaming"
    /\ unsent[t] = 0
    /\ failures < MaxFailures
    /\ failures' = failures + 1
    /\ task' = [task EXCEPT ![t] = "restarting"]
    /\ last_seq' = [last_seq EXCEPT ![t] = Larger(@, cursor[t])]
    /\ UNCHANGED <<journal, hostUp, aborted, cursor, unsent, live, op, reqs, out,
                   storeVars, overtaken, requests>>

\* restart: a daemon is there again; a new pump resumes from last_seq, unless
\* the session was closed meanwhile.
RestartDone(t) ==
    /\ task[t] = "restarting"
    /\ op.at # "stopping"   \* session_restart holds the lock on Host.live
    /\ IF live # None
       THEN /\ task' = [task EXCEPT ![t] = "streaming"]
            /\ cursor' = [cursor EXCEPT ![t] = last_seq[t]]
       ELSE /\ task' = [task EXCEPT ![t] = "ended"]
            /\ UNCHANGED cursor
    /\ UNCHANGED <<journal, hostUp, aborted, unsent, last_seq, live, op, reqs, out,
                   storeVars, overtaken, requests, failures>>

\* restart: every attempt failed.  The Live stays, its stream is over and its
\* pump gone.
RestartGivesUp(t) ==
    /\ task[t] = "restarting"
    /\ task' = [task EXCEPT ![t] = "ended"]
    /\ cursor' = [cursor EXCEPT ![t] = 0]
    /\ UNCHANGED <<journal, hostUp, aborted, unsent, last_seq, live, op, reqs,
                   out, storeVars, overtaken, requests, failures>>

\* The task, its pump and, its Live being dropped already, its last_seq go.
Stopped(t) ==
    /\ aborted[t] /\ task[t] # "ended"
    /\ task' = [task EXCEPT ![t] = "ended"]
    /\ cursor' = [cursor EXCEPT ![t] = 0]
    /\ last_seq' = [last_seq EXCEPT ![t] = 0]
    /\ unsent' = [unsent EXCEPT ![t] = 0]
    /\ aborted' = [aborted EXCEPT ![t] = FALSE]
    /\ UNCHANGED <<journal, hostUp, live, op, reqs, out, storeVars, overtaken,
                   requests, failures>>

\* Mutant: the task may be stopped between the two lines of a batch, as it
\* could be if there were an await there.
AbortMidBatch(t) == Stopped(t)

\* An abort takes effect where the task awaits its pump or its restart, never
\* with a batch in hand.
AbortTakesEffect(t) == unsent[t] = 0 /\ Stopped(t)

(***************************************************************************)
(* The bridge-host process.                                                *)
(***************************************************************************)
\* It exits: onProcExit disposes the client, and with it whatever was still in
\* either pipe.
HostDies ==
    /\ hostUp
    /\ failures < MaxFailures
    /\ failures' = failures + 1
    /\ hostUp' = FALSE
    /\ task' = [t \in Tasks |-> "ended"]
    /\ aborted' = [t \in Tasks |-> FALSE]
    /\ cursor' = [t \in Tasks |-> 0]
    /\ unsent' = [t \in Tasks |-> 0]
    /\ last_seq' = [t \in Tasks |-> 0]
    /\ live' = None
    /\ op' = Idle
    /\ reqs' = <<>>
    /\ out' = <<>>
    /\ UNCHANGED <<journal, storeVars, overtaken, requests>>

\* onRespawn: the new client is wired and the session, if a folder was ever
\* opened, is reopened where the store stands.  No user's request.
Respawn ==
    /\ ~hostUp
    /\ hostUp' = TRUE
    /\ reqs' = IF requests = 0 THEN <<>>
               ELSE <<[method |-> "session/open", from |-> lastSeq]>>
    /\ UNCHANGED <<journal, taskVars, live, op, out, storeVars, overtaken, requests,
                   failures>>

\* The main loop on its own, and where it has awaited the daemon.
HostTurn == TakeOpen \/ SwapLive \/ RefuseRestart \/ TakeRestart
HostStep == HostTurn \/ OpenFails \/ (\E t \in Tasks : StartPump(t)) \/ StopDone
TaskStep(t) == Raise(t) \/ Send(t) \/ RestartDone(t) \/ RestartGivesUp(t)
                \/ AbortTakesEffect(t)

Next ==
    \/ CommitEvent
    \/ OpenFresh
    \/ Reconnect
    \/ SetAutonomy
    \/ Ingest
    \/ HostStep
    \/ \E t \in Tasks : TaskStep(t) \/ StreamCloses(t)
    \/ HostDies
    \/ Respawn

Spec == Init /\ [][Next]_vars

\* The extension's event loop reads the pipe, the host's main loop takes the
\* next request when it has none, and a batch a pump has handed its task is taken
\* and sent on: no await of the daemon is there.  Nothing else is fair.  An open,
\* a stop and a restart await the daemon's handshake or its exit, for ever if it
\* never answers; users, Core and crashes are free.
FairSpec ==
    /\ Spec
    /\ WF_vars(Ingest)
    /\ WF_vars(HostTurn)
    /\ \A t \in Tasks : WF_vars(Raise(t)) /\ WF_vars(Send(t))

(***************************************************************************)
(* Correctness.                                                            *)
(***************************************************************************)
\* The store holds exactly the journal's events up to its lastSeq: nothing
\* missing, nothing out of order, whatever sessions overlapped on the way; unless
\* a pump that resumed at a batch still unsent had its own sent first.
StoreIsPrefix ==
    \/ overtaken
    \/ rows = 1..lastSeq /\ ~gapDetected

\* A resume cursor the host may hand to a new pump never lies beyond what the
\* extension holds or has coming: applied, in the pipe, or the end of a batch in
\* the hands of a task that will put it there.  Otherwise the events between are
\* lost when that pump starts.
InHandOrOnTheWay(n) ==
    \/ n <= lastSeq
    \/ \E i \in 1..Len(out) : n <= out[i].last
    \/ \E u \in Tasks : task[u] # "ended" /\ unsent[u] = n
ResumeCovered ==
    \A t \in Tasks : task[t] # "ended" => InHandOrOnTheWay(last_seq[t])

\* No supervise task outlives its session: a task not yet told to stop belongs
\* to the live session, or to the one being swapped in or taken out.
NoOrphanStream ==
    \A t \in Tasks :
        task[t] # "ended" /\ ~aborted[t] => t \in {live, op.task}

\* If the stream settles (from some point on the live session has a running
\* supervise task), everything committed reaches the store, or one batch was
\* overtaken by the next.
Streaming == live # None /\ task[live] = "streaming"
StoreCatchesUp ==
    \A s \in 1..MaxSeq : <>[]Streaming => (s <= journal ~> s \in rows \/ overtaken)
=============================================================================
