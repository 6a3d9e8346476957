---------------------------- MODULE HostServices ----------------------------
(***************************************************************************)
(* Requests, from the extension's call sites to Core and back: the         *)
(* JSON-RPC client of one window (extension/src/bridge/client.ts), the     *)
(* framing on the host's stdin and stdout (valyria-bridge-host/src/rpc.rs),*)
(* the host's main loop and its request methods (main.rs), the calls       *)
(* CoreClient makes for them (valyria-bridge/src/client.rs), and the one   *)
(* request the host serves from the disk, config/write                     *)
(* (valyria-bridge/src/config_writer.rs).                                  *)
(*                                                                         *)
(* A request is a promise of the window; the number of the promise is its  *)
(* JSON-RPC id.  A byte stream is a sequence of tokens: a header of two    *)
(* and a body of one or more.  Core is external: a call runs until Core    *)
(* answers it, whether or not the host still waits.                        *)
(***************************************************************************)
EXTENDS Naturals, Sequences, FiniteSets, SequencesExt, TLC

CONSTANTS Scenarios,  \* what a window asks, and what may go wrong meanwhile
          None,
          MaxAsked    \* bound on the requests and notifications of a scenario

ASSUME HostConstants ==
    /\ MaxAsked \in Nat
    /\ \A s \in Scenarios : s.max \in 0..MaxAsked /\ s.notes \in 0..MaxAsked

(***************************************************************************)
(* What the host does with a request: the string parameters it insists on  *)
(* and the Core call it forwards to (main.rs, dispatch).                   *)
(***************************************************************************)
Forward(needs, call) == [needs |-> needs, call |-> call]

TaskMethods ==
    "task/create"    :> Forward({"objective"}, "TaskCreate")
 @@ "task/list"      :> Forward({}, "TaskList")
 @@ "task/status"    :> Forward({"taskId"}, "TaskStatus")
 @@ "task/plan"      :> Forward({"taskId"}, "TaskPlan")
 @@ "task/report"    :> Forward({"taskId"}, "TaskReport")
 @@ "task/children"  :> Forward({"taskId"}, "TaskChildren")
 @@ "task/artifacts" :> Forward({"taskId"}, "TaskArtifacts")
 @@ "plan/revisions" :> Forward({"taskId"}, "PlanRevisions")
 @@ "task/rollback"  :> Forward({"taskId", "checkpointId"}, "TaskRollback")
 @@ "task/pause"     :> Forward({"taskId"}, "TaskPause")
 @@ "task/resume"    :> Forward({"taskId"}, "TaskResume")
 @@ "task/cancel"    :> Forward({"taskId"}, "TaskCancel")
 @@ "ledger/changes" :> Forward({"taskId"}, "LedgerChanges")

ApprovalMethods ==
    "permission/resolve"       :> Forward({"taskId"}, "PermissionResolve")
 @@ "permission/resolveScoped" :> Forward({"taskId", "scope"}, "PermissionResolve")

WorkspaceMethods ==
    "config/show"      :> Forward({}, "ConfigShow")
 @@ "config/set"       :> Forward({"key", "value"}, "ConfigSet")
 @@ "doctor/run"       :> Forward({}, "DoctorRun")
 @@ "workspace/status" :> Forward({}, "WorkspaceStatus")
 @@ "search/query"     :> Forward({"query"}, "SearchQuery")
 @@ "index/status"     :> Forward({}, "IndexStatus")
 @@ "index/build"      :> Forward({}, "IndexBuild")
 @@ "git/status"       :> Forward({}, "GitStatus")
 @@ "git/diff"         :> Forward({}, "GitDiff")
 @@ "git/log"          :> Forward({}, "GitLog")
 @@ "git/branches"     :> Forward({}, "GitBranches")

ModelMethods ==
    "model/list"           :> Forward({}, "ModelList")
 @@ "model/recommend"      :> Forward({}, "ModelRecommend")
 @@ "model/install"        :> Forward({"id"}, "ModelInstall")
 @@ "model/cancelInstall"  :> Forward({"id"}, "ModelInstallCancel")
 @@ "model/remove"         :> Forward({"id"}, "ModelRemove")
 @@ "model/activate"       :> Forward({"id", "role"}, "ModelActivate")
 @@ "model/restartServer"  :> Forward({"id", "role"}, "ModelActivate")
 @@ "model/inspect"        :> Forward({"id"}, "ModelInspect")
 @@ "model/endpointAdd"    :> Forward({"id", "baseUrl"}, "ModelEndpointAdd")
 @@ "model/endpointRemove" :> Forward({"id"}, "ModelEndpointRemove")
 @@ "model/endpointList"   :> Forward({}, "ModelEndpointList")
 @@ "catalog/refresh"      :> Forward({"catalogUrl", "signatureUrl"}, "CatalogRefresh")
 @@ "hardware/probe"       :> Forward({}, "HardwareProbe")

Forwards == TaskMethods @@ ApprovalMethods @@ WorkspaceMethods @@ ModelMethods

\* What the host itself serves.
SessionNeeds ==
    "session/open"    :> {"workspaceRoot"}
 @@ "session/status"  :> {}
 @@ "session/close"   :> {}
 @@ "session/restart" :> {"permissionMode"}
 @@ "about/info"      :> {}
 @@ "config/write"    :> {"key", "value", "scope"}

Needs(method) == IF method \in DOMAIN Forwards THEN Forwards[method].needs
                                               ELSE SessionNeeds[method]

Served == DOMAIN Forwards \cup DOMAIN SessionNeeds

(***************************************************************************)
(* The response each CoreClient method accepts for the call it makes; any  *)
(* other variant is UnexpectedResponse.                                    *)
(***************************************************************************)
Named(calls) == [c \in calls |-> c]
Acked(calls) == [c \in calls |-> "Ack"]

TaskCalls ==
    Named({"TaskCreate", "TaskList", "TaskStatus", "TaskReport", "TaskPlan",
           "TaskChildren", "TaskArtifacts", "PlanRevisions", "TaskRollback"})
 @@ Acked({"TaskPause", "TaskResume", "TaskCancel", "PermissionResolve"})

WorkspaceCalls ==
    Named({"WorkspaceStatus", "DoctorRun", "ConfigShow", "ModelList",
           "GitStatus", "GitDiff", "GitLog", "GitBranches", "SearchQuery",
           "IndexStatus", "IndexBuild"})
 @@ ("ConfigSet" :> "ConfigShow")

ModelCalls ==
    Named({"HardwareProbe", "ModelRecommend", "ModelRemove", "ModelInspect",
           "ModelEndpointList", "CatalogRefresh", "LedgerChanges"})
 @@ Acked({"ModelInstall", "ModelInstallCancel", "ModelActivate",
           "ModelEndpointAdd", "ModelEndpointRemove"})

Wanted == TaskCalls @@ WorkspaceCalls @@ ModelCalls

\* Every call an arm of dispatch makes is a method of CoreClient.
ASSUME EveryCallIsWanted ==
    /\ \A m \in DOMAIN Forwards : Forwards[m].call \in DOMAIN Wanted
    /\ {"WorkspaceStatus", "ConfigShow"} \subseteq DOMAIN Wanted

\* The host serves no method twice, and names no response as it names a failure.
ASSUME NamesApart ==
    /\ DOMAIN SessionNeeds = {"session/open", "session/status", "session/close",
                              "session/restart", "about/info", "config/write"}
    /\ DOMAIN Forwards \cap DOMAIN SessionNeeds = {}
    /\ \A c \in DOMAIN Wanted : Wanted[c] \notin {"error", "broken"}

(***************************************************************************)
(* State.                                                                  *)
(***************************************************************************)
VARIABLES scn,     \* the scenario
          win,     \* the window: its client, its promises, its guards
          hostUp,  \* the bridge-host process runs
          read,    \* how many requests the host has read from its stdin
          live,    \* Host.live: "none", or whether it owns its daemon
          jobs,    \* the handlers at work in the host
          out,     \* the channel to the stdout writer
          half,    \* the message whose header is written and body is not
          stdout,  \* the tokens in the pipe
          calls,   \* the calls Core was sent, in order
          disk,    \* config.toml and its temporary name
          other,   \* another window's host in write_key, same file
          noted,   \* how many notifications the host has emitted
          kept,    \* history: the keys config.toml must hold
          met      \* history: two writers of it were at work at once

vars == <<scn, win, hostUp, read, live, jobs, out, half, stdout, calls, disk,
          other, noted, kept, met>>

Lives    == {"none", "owned", "adopted"}

ASSUME ScenarioLives == \A s \in Scenarios : s.live \in Lives

Waiting  == [is |-> "waiting"]
Ok(what) == [is |-> "ok", what |-> what]
Err(code) == [is |-> "error", code |-> code]

\* What may come of a request: the codes of error.rs and rpc.rs (a refusal of
\* Core's is "bridge.protocol.error", its own code is in the message), and the
\* client's error when the stream is gone ("closed").
Codes == {"method_not_found", "invalid_params", "bridge.no_session",
          "bridge.autonomy.not_owned", "bridge.transport",
          "bridge.protocol.error", "bridge.protocol.unexpected",
          "bridge.startup_timeout", "bridge.config.write", "bridge.fs.io",
          "closed"}
Results == {Wanted[c] : c \in DOMAIN Wanted} \cup {"SessionInfo", "null", "About"}
Outcomes == {Waiting} \cup {Ok(w) : w \in Results} \cup {Err(c) : c \in Codes}

Response(id, body)   == [kind |-> "response", id |-> id, body |-> body]
Notification(number) == [kind |-> "note", id |-> number, body |-> None]

Messages == [kind : {"response"}, id : Nat, body : Outcomes]
                \cup [kind : {"note"}, id : Nat, body : {None}]

ASSUME NoneIsNoMessage == None \notin Messages

(***************************************************************************)
(* Framing.  write_frame writes a header and then the body; a response is  *)
(* two tokens of body here and a notification one.                         *)
(***************************************************************************)
Length(m) == IF m.kind = "response" THEN 2 ELSE 1
Token(k, n, m) == [tok |-> k, n |-> n, of |-> m]
Header(m) == << Token("length", Length(m), None), Token("end", 0, None) >>
Body(m)   == [k \in 1..Length(m) |-> Token("body", k, m)]

Refetch == [method |-> "model/list", params |-> <<>>, by |-> "view",
            reads |-> {"ModelList"}, means |-> None]

NoLength == 99   \* contentLength = -1

Closing(w) ==
    [w EXCEPT !.closed = TRUE,
              !.promise = [i \in DOMAIN w.promise |->
                             IF w.promise[i] = Waiting THEN Err("closed")
                                                       ELSE w.promise[i]],
              !.pendingAction = {}, !.activating = FALSE]

(***************************************************************************)
(* onData appends a chunk and loops: a header when one is due, then its    *)
(* body, until what is next has not all come.  A turn of the loop is a     *)
(* step here; nothing else of the window runs before the loop has ended.   *)
(***************************************************************************)
Ends      == {k \in DOMAIN win.buffer : win.buffer[k].tok = "end"}
HeaderDue == win.contentLength = NoLength /\ Ends # {} /\ ~win.closed
BodyDue   == /\ win.contentLength # NoLength
             /\ Len(win.buffer) >= win.contentLength
Parsing   == HeaderDue \/ BodyDue

ParsesHeader ==
    /\ HeaderDue
    /\ \E e \in Ends :
          /\ \A k \in Ends : e <= k
          /\ LET lengths == {k \in 1..(e - 1) : win.buffer[k].tok = "length"}
             IN win' = IF lengths = {} THEN Closing(win)
                       ELSE [win EXCEPT
                               !.contentLength =
                                    win.buffer[CHOOSE k \in lengths : TRUE].n,
                               !.buffer = SubSeq(@, e + 1, Len(@))]
    /\ UNCHANGED <<scn, hostUp, read, live, jobs, out, half, stdout, calls, disk,
                   other, noted, kept, met>>

\* JSON.parse of the body's bytes: the message they are, or nothing.
Parsed(body) ==
    {m \in {body[k].of : k \in DOMAIN body} : m # None /\ body = Body(m)}

\* request(): a closed client rejects at once, else the next id waits.
Sent(w, r) ==
    [w EXCEPT !.asked = Append(@, r),
              !.promise = Append(@, IF w.closed THEN Err("closed") ELSE Waiting)]

\* A settled promise runs its caller's finally: the guard it held is released,
\* and the picker fetches model/list again, when the connection is ready.
Released(w, id) ==
    CASE w.asked[id].by = "models" ->
            [w EXCEPT !.pendingAction = @ \ {w.asked[id].params.id}]
      [] w.asked[id].by = "picker" ->
            LET free == [w EXCEPT !.activating = FALSE]
            IN IF Len(w.asked) < scn.max /\ scn.ready
               THEN Sent(free, Refetch) ELSE free
      [] OTHER -> w

DispatchOne(w, m) ==
    IF m.kind = "note" THEN IF w.closed THEN w
                            ELSE [w EXCEPT !.heard = Append(@, m.id)]
    ELSE IF m.id \notin DOMAIN w.promise \/ w.promise[m.id] # Waiting THEN w
    ELSE Released([w EXCEPT !.promise[m.id] = m.body], m.id)

\* Mutant: what came with a finished frame is thrown away with it.
NothingLeft == <<>>

RestOfBuffer == SubSeq(win.buffer, win.contentLength + 1, Len(win.buffer))

ParsesBody ==
    /\ BodyDue
    /\ LET rest   == [win EXCEPT !.buffer = RestOfBuffer, !.contentLength = NoLength]
           parsed == Parsed(SubSeq(win.buffer, 1, win.contentLength))
       IN \/ parsed = {} /\ win' = rest
          \/ \E m \in parsed : win' = DispatchOne(rest, m)
    /\ UNCHANGED <<scn, hostUp, read, live, jobs, out, half, stdout, calls, disk,
                   other, noted, kept, met>>

\* A chunk is any part of what the pipe holds (scn.cuts: else all of it).
Cuts == IF scn.cuts THEN 1..Len(stdout) ELSE {Len(stdout)} \ {0}

ClientReads ==
    \E n \in Cuts :
        /\ ~Parsing
        /\ win' = [win EXCEPT !.buffer = @ \o SubSeq(stdout, 1, n)]
        /\ stdout' = SubSeq(stdout, n + 1, Len(stdout))
        /\ UNCHANGED <<scn, hostUp, read, live, jobs, out, half, calls, disk,
                       other, noted, kept, met>>

\* The stdout closes behind its last byte; a write to a dead host's stdin
\* fails before that.
ClientCloses ==
    /\ ~hostUp /\ ~win.closed /\ ~Parsing
    /\ stdout = <<>> \/ read < Len(win.asked)
    /\ win' = Closing(win)
    /\ UNCHANGED <<scn, hostUp, read, live, jobs, out, half, stdout, calls,
                   disk, other, noted, kept, met>>

(***************************************************************************)
(* The window asks.  The Models view keeps one action per model in flight  *)
(* (pendingAction), the picker one in all (activating).                    *)
(***************************************************************************)
MayAsk(r) ==
    CASE r.by = "models" -> r.params.id \notin win.pendingAction
      [] r.by = "picker" -> ~win.activating
      [] OTHER -> TRUE

Ask ==
    \E r \in scn.asks :
        /\ Len(win.asked) < scn.max
        /\ MayAsk(r) /\ ~Parsing
        /\ win' = LET w == Sent(win, r)
                  IN IF w.closed THEN w
                     ELSE CASE r.by = "models" ->
                                 [w EXCEPT !.pendingAction = @ \cup {r.params.id}]
                            [] r.by = "picker" -> [w EXCEPT !.activating = TRUE]
                            [] OTHER -> w
        /\ UNCHANGED <<scn, hostUp, read, live, jobs, out, half, stdout, calls,
                       disk, other, noted, kept, met>>

(***************************************************************************)
(* The host.  handle() reads one request, dispatches it, sends exactly one *)
(* response, and only then does the loop read the next.                    *)
(***************************************************************************)
Job(id, at) == [id |-> id, at |-> at, call |-> 0, doc |-> {}, file |-> 0]

\* Mutant: having answered, the handler waits on.
AnswersAndStays(job, body) == /\ UNCHANGED jobs
                              /\ out' = Append(out, Response(job.id, body))

Answer(job, body) == /\ jobs' = jobs \ {job}
                     /\ out' = Append(out, Response(job.id, body))

\* Mutant: each request is served in a task of its own.
EachInItsOwnTask == TRUE

MayTake == jobs = {}

Of(job) == win.asked[job.id]

Param(r, key) == r.params[key]
HasParam(r, key) == key \in DOMAIN r.params

\* The decision Core is sent (scoped_decision; permission_resolve is "once").
scoped_decision(allow, scope) ==
    IF ~allow THEN "deny" ELSE IF scope = "task" THEN "task" ELSE "once"

Argument(r) ==
    LET allow == HasParam(r, "allow") /\ Param(r, "allow")
    IN CASE r.method = "permission/resolve" -> scoped_decision(allow, "once")
         [] r.method = "permission/resolveScoped" ->
                scoped_decision(allow, Param(r, "scope"))
         [] r.method = "model/install" ->
                HasParam(r, "acceptLicense") /\ Param(r, "acceptLicense")
         [] OTHER -> None

\* The answers a request may be given: what the caller must be ready to read.
Yields(method) ==
    IF method \in DOMAIN Forwards THEN {Wanted[Forwards[method].call]}
    ELSE CASE method \in {"session/open", "session/restart"} -> {"SessionInfo"}
           [] method = "session/status" -> {"SessionInfo", "null"}
           [] method = "session/close"  -> {"null"}
           [] method = "about/info"     -> {"About"}
           [] OTHER                     -> {Wanted["ConfigShow"]}

\* A call site fits the untyped method tables of both sides: the host serves its
\* method, it sends the parameters the arm insists on, it reads what the arm
\* answers, and the decision Core is sent is the one its user took.
Fits(r) ==
    /\ r.method \in Served
    /\ \A k \in Needs(r.method) : HasParam(r, k)
    /\ Yields(r.method) \subseteq r.reads
    /\ r.method \in DOMAIN Forwards => Argument(r) = r.means

ASSUME CallSitesFit == \A s \in Scenarios : \A r \in s.asks \cup {Refetch} : Fits(r)

\* CoreClient::call: Core has it from now on, answered in time or not.
Calling(id, call, arg) ==
    calls' = Append(calls, [by |-> id, call |-> call, arg |-> arg,
                            state |-> "running", left |-> FALSE])

Refusal(r) ==
    IF r.method \notin Served THEN {"method_not_found"}
    ELSE IF \E k \in Needs(r.method) : ~HasParam(r, k) THEN {"invalid_params"}
    ELSE IF /\ r.method = "config/write"
            /\ Param(r, "scope") \notin {"workspace", "user"}
         THEN {"bridge.config.write"}
    ELSE IF /\ live = "none"
            /\ \/ r.method \in DOMAIN Forwards
               \/ r.method \in {"config/write", "session/restart"}
         THEN {"bridge.no_session"}
    ELSE IF live = "adopted" /\ r.method = "session/restart"
         THEN {"bridge.autonomy.not_owned"}
    ELSE {}

\* emit_state: one notification, in the order of the channel.
Emits == Notification(noted + 1)

\* What the arm of dispatch does first, for a request it does not refuse.
Dispatch(r, id) ==
    \/ /\ r.method \in DOMAIN Forwards
       /\ Calling(id, Forwards[r.method].call, Argument(r))
       /\ jobs' = jobs \cup {[Job(id, "calling") EXCEPT !.call = Len(calls) + 1]}
       /\ UNCHANGED <<live, out, noted>>
    \/ /\ r.method \in {"session/status", "about/info"}
       /\ out' = Append(out, Response(id, Ok(
                     IF r.method = "about/info" THEN "About"
                     ELSE IF live = "none" THEN "null" ELSE "SessionInfo")))
       /\ UNCHANGED <<calls, jobs, live, noted>>
    \/ /\ r.method = "session/close"
       /\ live' = "none"
       /\ out' = out \o << Emits, Response(id, Ok("null")) >>
       /\ noted' = noted + 1
       /\ UNCHANGED <<calls, jobs>>
    \/ /\ r.method = "session/restart"
       /\ live' = "none"
       /\ jobs' = jobs \cup {Job(id, "stopping")}
       /\ UNCHANGED <<calls, out, noted>>
    \/ /\ r.method = "session/open"
       /\ jobs' = jobs \cup {Job(id, "opening")}
       /\ out' = Append(out, Emits)
       /\ noted' = noted + 1
       /\ UNCHANGED <<calls, live>>
    \/ /\ r.method = "config/write" /\ Param(r, "scope") = "workspace"
       /\ Calling(id, "WorkspaceStatus", None)
       /\ jobs' = jobs \cup {[Job(id, "locating") EXCEPT !.call = Len(calls) + 1]}
       /\ UNCHANGED <<live, out, noted>>
    \/ /\ r.method = "config/write" /\ Param(r, "scope") = "user"
       /\ jobs' = jobs \cup {Job(id, "read")}
       /\ UNCHANGED <<calls, live, out, noted>>

HostTakes ==
    /\ hostUp /\ MayTake
    /\ read < Len(win.asked)
    /\ read' = read + 1
    /\ LET id == read + 1
           r  == win.asked[id]
       IN IF Refusal(r) = {} THEN Dispatch(r, id)
          ELSE /\ out' = Append(out, Response(id, Err(CHOOSE c \in Refusal(r) : TRUE)))
               /\ UNCHANGED <<calls, jobs, live, noted>>
    /\ UNCHANGED <<scn, win, hostUp, half, stdout, disk, other, kept, met>>

(***************************************************************************)
(* A call ends: Core answers it, refuses it or breaks the connection, or   *)
(* the host's timeout elapses and Core goes on alone.                      *)
(***************************************************************************)
Reply(call, answer) ==
    CASE answer = "error"  -> Err("bridge.protocol.error")
      [] answer = "broken" -> Err("bridge.transport")
      [] answer = Wanted[call] -> Ok(answer)
      [] OTHER -> Err("bridge.protocol.unexpected")

\* The handler has the reply to its call: it answers, or goes on.
Continues(job, body) ==
    IF job.at = "locating" /\ body.is = "ok"
    THEN /\ jobs' = (jobs \ {job}) \cup {[job EXCEPT !.at = "read"]}
         /\ UNCHANGED out
    ELSE Answer(job, body)

\* Mutant: a late answer is taken for that of the call the host waits for now.
AnyCaller(c) == jobs

\* The handler that still waits for call c.
Caller(c) == {job \in jobs : job.call = c /\ ~calls[c].left}

CoreAnswers ==
    \E c \in DOMAIN calls, answer \in {"error", "broken", "answered"} :
        /\ calls[c].state = "running"
        /\ calls' = [calls EXCEPT ![c].state = answer]
        /\ \/ Caller(c) = {} /\ UNCHANGED <<jobs, out>>
           \/ \E job \in Caller(c) :
                 Continues(job, Reply(calls[c].call,
                       IF answer = "answered" THEN Wanted[calls[c].call] ELSE answer))
        /\ UNCHANGED <<scn, win, hostUp, read, live, half, stdout, disk, other,
                       noted, kept, met>>

TimesOut ==
    \E job \in jobs :
        /\ job.at \in {"calling", "locating", "showing"}
        /\ calls[job.call].state = "running" /\ ~calls[job.call].left
        /\ calls' = [calls EXCEPT ![job.call].left = TRUE]
        /\ Continues(job, Err("bridge.transport"))
        /\ UNCHANGED <<scn, win, hostUp, read, live, half, stdout, disk, other,
                       noted, kept, met>>

(***************************************************************************)
(* session/open and the second half of session/restart.                    *)
(***************************************************************************)
Opens(job, to) ==
    /\ live' = to
    /\ noted' = noted + 1
    /\ jobs' = jobs \ {job}
    /\ out' = out \o << Emits, Response(job.id, Ok("SessionInfo")) >>

OpenEnds ==
    \E job \in jobs :
        /\ job.at = "opening"
        /\ \/ Opens(job, "owned")
           \/ Opens(job, "adopted")
           \/ /\ noted' = noted + 1
              /\ jobs' = jobs \ {job}
              /\ out' = out \o << Emits, Response(job.id, Err("bridge.startup_timeout")) >>
              /\ UNCHANGED live
        /\ UNCHANGED <<scn, win, hostUp, read, half, stdout, calls, disk, other,
                       kept, met>>

StopEnds ==
    \E job \in jobs :
        /\ job.at = "stopping"
        /\ \/ /\ jobs' = (jobs \ {job}) \cup {[job EXCEPT !.at = "opening"]}
              /\ out' = Append(out, Emits)
              /\ noted' = noted + 1
           \/ /\ Answer(job, Err("bridge.fs.io"))
              /\ UNCHANGED noted
        /\ UNCHANGED <<scn, win, hostUp, read, live, half, stdout, calls, disk,
                       other, kept, met>>

(***************************************************************************)
(* write_key: read the document, set the key, write a temporary file,      *)
(* rename it.  A document is the set of its leaves, each a path of names.  *)
(* A name on the disk leads to a file; 0 is no file.  Opening the          *)
(* temporary name for writing empties whatever file it leads to.           *)
(***************************************************************************)
set_dotted(doc, path) == {l \in doc : ~IsPrefix(path, l)} \cup {path}

Crosses(doc, path) == \E l \in doc : IsStrictPrefix(l, path)

Document == IF disk.config = 0 THEN {} ELSE disk.text[disk.config]

Step(w, on, keep) == [w |-> w, disk |-> on, kept |-> keep]
Failed(w, code)   == Step([w EXCEPT !.at = code], disk, kept)

Read(w, leaf) ==
    IF Crosses(Document, leaf) THEN Failed(w, "bridge.config.write")
    ELSE Step([w EXCEPT !.at = "create", !.doc = set_dotted(Document, leaf)],
              disk, kept)

\* Mutant: the document is written over itself.
InPlace(w) ==
    Step([w EXCEPT !.at = "fill", !.file = disk.config],
         [disk EXCEPT !.text[disk.config] = {}, !.temp = disk.config], kept)

CreateTemp(w) ==
    IF disk.temp = 0
    THEN Step([w EXCEPT !.at = "fill", !.file = Len(disk.text) + 1],
              [disk EXCEPT !.text = Append(@, {}), !.temp = Len(disk.text) + 1],
              kept)
    ELSE Step([w EXCEPT !.at = "fill", !.file = disk.temp],
              [disk EXCEPT !.text[disk.temp] = {}], kept)

Fill(w) ==
    Step([w EXCEPT !.at = "rename"], [disk EXCEPT !.text[w.file] = w.doc], kept)

Rename(w, leaf) ==
    IF disk.temp = 0 THEN Failed(w, "bridge.fs.io")
    ELSE Step([w EXCEPT !.at = "written"],
              [disk EXCEPT !.config = disk.temp, !.temp = 0],
              set_dotted(kept, leaf))

Writing == {"create", "fill", "rename"}

write_key(w, leaf) ==
    (CASE w.at = "read"   -> {Read(w, leaf)}
       [] w.at = "create" -> {CreateTemp(w)}
       [] w.at = "fill"   -> {Fill(w)}
       [] w.at = "rename" -> {Rename(w, leaf)}
       [] OTHER -> {})
    \cup IF w.at \in Writing THEN {Failed(w, "bridge.fs.io")} ELSE {}

Does(step, others) ==
    /\ disk' = step.disk
    /\ kept' = step.kept
    /\ met' = (met \/ (step.w.at \in Writing /\ \E w \in others : w.at \in Writing))

HostWrites ==
    \E job \in jobs : \E step \in write_key(job, Param(Of(job), "key")) :
        /\ Does(step, {other})
        /\ CASE step.w.at \in Writing ->
                   /\ jobs' = (jobs \ {job}) \cup {step.w}
                   /\ UNCHANGED <<calls, out>>
             [] step.w.at = "written" ->
                   /\ Calling(job.id, "ConfigShow", None)
                   /\ jobs' = (jobs \ {job})
                        \cup {[Job(job.id, "showing") EXCEPT !.call = Len(calls) + 1]}
                   /\ UNCHANGED out
             [] OTHER -> Answer(job, Err(step.w.at)) /\ UNCHANGED calls
        /\ UNCHANGED <<scn, win, hostUp, read, live, half, stdout, other, noted>>

\* The other window's host serves one config/write of its own.
OtherWrites ==
    \E step \in write_key(other, scn.theirs) :
        /\ Does(step, jobs)
        /\ other' = step.w
        /\ UNCHANGED <<scn, win, hostUp, read, live, jobs, out, half, stdout,
                       calls, noted>>

(***************************************************************************)
(* The supervise task's notifications, the stdout writer, the process.     *)
(***************************************************************************)
Emit ==
    /\ hostUp /\ noted < scn.notes
    /\ noted' = noted + 1
    /\ out' = Append(out, Emits)
    /\ UNCHANGED <<scn, win, hostUp, read, live, jobs, half, stdout, calls,
                   disk, other, kept, met>>

WriteHeader ==
    /\ hostUp /\ half = None /\ out # <<>>
    /\ half' = Head(out)
    /\ out' = Tail(out)
    /\ stdout' = stdout \o Header(Head(out))
    /\ UNCHANGED <<scn, win, hostUp, read, live, jobs, calls, disk, other,
                   noted, kept, met>>

WriteBody ==
    /\ hostUp /\ half # None
    /\ stdout' = stdout \o Body(half)
    /\ half' = None
    /\ UNCHANGED <<scn, win, hostUp, read, live, jobs, out, calls, disk, other,
                   noted, kept, met>>

\* The process dies: its handlers, its channel and half a frame with it.
HostExits ==
    /\ hostUp /\ scn.exits
    /\ hostUp' = FALSE
    /\ jobs' = {} /\ out' = <<>> /\ half' = None /\ live' = "none"
    /\ calls' = [c \in DOMAIN calls |-> [calls[c] EXCEPT !.left = TRUE]]
    /\ UNCHANGED <<scn, win, read, stdout, disk, other, noted, kept, met>>

(***************************************************************************)
(* The specification.                                                      *)
(***************************************************************************)
Init ==
    /\ scn \in Scenarios
    /\ win = [asked |-> <<>>, promise |-> <<>>, closed |-> FALSE, heard |-> <<>>,
              buffer |-> <<>>, contentLength |-> NoLength,
              pendingAction |-> {}, activating |-> FALSE]
    /\ hostUp = TRUE /\ read = 0 /\ live = scn.live /\ jobs = {}
    /\ out = <<>> /\ half = None /\ stdout = <<>> /\ calls = <<>> /\ noted = 0
    /\ disk = [config |-> 1, temp |-> 0, text |-> <<scn.doc>>]
    /\ kept = scn.doc /\ met = FALSE
    /\ other = Job(0, IF scn.theirs = <<>> THEN "idle" ELSE "read")

HostTurn   == HostTakes \/ TimesOut \/ HostWrites
HostLoop   == HostTurn \/ OpenEnds \/ StopEnds
Writer     == WriteHeader \/ WriteBody
Client     == ClientReads \/ ParsesHeader \/ ParsesBody \/ ClientCloses

Next == \/ Ask \/ HostLoop \/ CoreAnswers \/ OtherWrites \/ Emit \/ Writer
        \/ Client \/ HostExits

Spec == Init /\ [][Next]_vars

\* The main loop takes the next request, gives a call of CoreClient up at 30 s
\* and writes its file; the writer task and the extension's event loop keep
\* running.  Core owes no answer, nobody has to ask, and an open or a stop need
\* not end: negotiate awaits the daemon's hello and shutdown_daemon its exit
\* without a ceiling, and poll_negotiate looks at its deadline between attempts.
FairSpec == /\ Spec
            /\ WF_vars(HostTurn) /\ WF_vars(Writer) /\ WF_vars(Client)

(***************************************************************************)
(* Properties.                                                             *)
(***************************************************************************)
\* The shape of the state: promises and requests go together, at most one
\* handler is at work, what the client has buffered is the front of a frame.
TypeOK ==
    /\ scn \in Scenarios
    /\ DOMAIN win.promise = DOMAIN win.asked /\ Len(win.asked) <= scn.max
    /\ \A i \in DOMAIN win.promise : win.promise[i] \in Outcomes
    /\ win.contentLength \in 1..2 \cup {NoLength}
    /\ hostUp \in BOOLEAN /\ live \in Lives /\ read \in 0..Len(win.asked)
    /\ Cardinality(jobs) <= 1
    /\ \A job \in jobs :
          /\ job.id \in 1..read /\ win.promise[job.id] = Waiting
          /\ job.at \in {"calling", "locating", "showing"} =>
                calls[job.call].by = job.id /\ calls[job.call].state = "running"
    /\ win.closed => ~hostUp
    /\ \A c \in DOMAIN calls : calls[c].call \in DOMAIN Wanted
    /\ disk.temp \in 0..Len(disk.text) /\ disk.config \in 0..Len(disk.text)

\* What may come of request i: it is not refused for its shape; an answer is of
\* the kind its caller reads, and Core's to a call made for this very request.
Honoured(i, p) ==
    /\ p.is = "error" => p.code \notin {"method_not_found", "invalid_params",
                                        "bridge.protocol.unexpected"}
    /\ p.is = "ok" =>
          /\ p.what \in win.asked[i].reads
          /\ win.asked[i].method \in DOMAIN Forwards =>
                \E c \in DOMAIN calls :
                   /\ calls[c].by = i /\ calls[c].state = "answered"
                   /\ calls[c].arg = win.asked[i].means

\* A request of the extension is never refused for its shape (an unknown method,
\* a missing parameter, a response of another variant); and one that resolves
\* brings its caller Core's answer to a call made for that very request, of the
\* kind the caller reads, carrying the decision its user took, however calls are
\* given up, sessions replaced and hosts killed meanwhile.
ContractHonoured == \A i \in DOMAIN win.promise : Honoured(i, win.promise[i])

\* A second server boot reaches Core while one still runs only if the host gave
\* the first one up at its ceiling, or died: neither view's guard alone, nor the
\* two of them together, would do it (views/models.ts:40-46, modelChat.ts:30-32).
SecondBootAfterTimeout ==
    \A c, d \in DOMAIN calls :
        (/\ c < d /\ calls[c].call = "ModelActivate" /\ calls[c].state = "running"
         /\ calls[d].call = "ModelActivate")
        => calls[c].left

\* config.toml holds every key it held and every key written since, whoever
\* dies at whatever point, unless two hosts were writing it at once: both write
\* through one temporary name (config_writer.rs:78-88).
ConfigKeepsKeys == met \/ Document = kept

\* The loop is in an open or a stop, for request i or one before it.
AwaitsDaemon(i) == \E job \in jobs : job.at \in {"opening", "stopping"} /\ job.id <= i

\* Every request the extension makes is settled, unless the loop waits for ever
\* for a daemon's hello or exit at or before it; and every notification the host
\* emits is handled even then, if the host lives: whatever Core does, however
\* the stream is cut into chunks, wherever the host dies.
EverySettled ==
    /\ \A i \in 1..MaxAsked :
          \/ <>[]AwaitsDaemon(i)
          \/ (i \in DOMAIN win.promise) ~> (/\ i \in DOMAIN win.promise
                                            /\ win.promise[i] # Waiting)
    /\ \A n \in 1..MaxAsked :
          (noted >= n) ~> (Len(win.heard) >= n \/ ~hostUp)
=============================================================================
