---------------------------- MODULE ApprovalFlow ----------------------------
(***************************************************************************)
(* An approval on its way to the user and back: Core asks, the journal     *)
(* carries the ask to the store (packages/state/src/reducer.ts), the chat  *)
(* card and the notification show it (views/modelChat.ts,                  *)
(* session/notify.ts), the user answers, and views/dispatch.ts decides     *)
(* whether the answer may still be sent.  Core is asked by other clients   *)
(* too, and it resolves whatever it waits for when an answer arrives.      *)
(*                                                                         *)
(* A push to a webview is rendered at once; a card that is late is a click *)
(* that is long in transit.  The store receives the journal in order,      *)
(* possibly repeating what it has (SessionStream).                         *)
(***************************************************************************)
EXTENDS Naturals, Sequences, FiniteSets, SequencesExt

CONSTANTS Tasks,
          None,        \* undefined: no task, no card
          MaxEvents,   \* bound on the journal
          MaxAnswers,  \* bound on the user's answers in one behaviour
          MaxResets,   \* bound on the sessions opened anew
          Undecodable  \* may an ask come in a form the window cannot read?

ASSUME ApprovalConstants ==
    /\ None \notin Tasks
    /\ MaxEvents \in Nat
    /\ MaxAnswers \in Nat
    /\ MaxResets \in Nat
    /\ Undecodable \in BOOLEAN

VARIABLES journal,   \* Core's events
          pending,   \* the ask each task waits on in Core, 0 for none
          store,     \* the projection the window keeps
          pinned,    \* TaskFocus.pinned
          card,      \* the approval card of the chat webview
          toasts,    \* approval notifications on screen
          lastApprovalSeq,  \* of watchNotifications
          clicks,    \* answers the webview has posted
          reqs,      \* permission/resolve requests written to the host
          mistaken,  \* history: answers that resolved some other ask
          answers, resets   \* what MaxAnswers and MaxResets bound

coreVars == <<journal, pending>>
viewVars == <<store, pinned, card, toasts, lastApprovalSeq>>
vars == <<journal, pending, store, pinned, card, toasts, lastApprovalSeq,
          clicks, reqs, mistaken, answers, resets>>

Seqs   == 1..MaxEvents
Kinds  == {"task_started", "approval_requested", "waiting", "working", "ended"}
Events == [task : Tasks, kind : Kinds, ok : BOOLEAN]
States == {"absent", "unknown", "waiting", "working", "ended"}
Cards  == [task : Tasks, seq : Seqs]
Requests == [task : Tasks, seq : Seqs, known : 0..MaxEvents]

TypeOK ==
    /\ journal \in Seq(Events) /\ Len(journal) <= MaxEvents
    /\ pending \in [Tasks -> 0..MaxEvents]
    /\ store \in [lastSeq : 0..MaxEvents, state : [Tasks -> States],
                  touched : [Tasks -> 0..MaxEvents],
                  approvals : [Tasks -> 0..MaxEvents]]
    /\ pinned \in Tasks \cup {None}
    /\ card \in Cards \cup {None}
    /\ toasts \subseteq Cards
    /\ lastApprovalSeq \in 0..MaxEvents
    /\ clicks \in Seq(Seqs)
    /\ reqs \in Seq(Requests)
    /\ mistaken \subseteq [ask : Seqs, req : Requests]
    /\ answers \in 0..MaxAnswers
    /\ resets \in 0..MaxResets

emptyStore == [lastSeq |-> 0, state |-> [t \in Tasks |-> "absent"],
               touched |-> [t \in Tasks |-> 0],
               approvals |-> [t \in Tasks |-> 0]]

Init ==
    /\ journal = <<>>
    /\ pending = [t \in Tasks |-> 0]
    /\ store = emptyStore
    /\ pinned = None
    /\ card = None
    /\ toasts = {}
    /\ lastApprovalSeq = 0
    /\ clicks = <<>>
    /\ reqs = <<>>
    /\ mistaken = {}
    /\ answers = 0
    /\ resets = 0

(***************************************************************************)
(* Core.                                                                   *)
(***************************************************************************)
Started(t)  == \E i \in DOMAIN journal : journal[i].task = t
LastKind(t) == LET own == SelectSeq(journal, LAMBDA e : e.task = t)
               IN  IF own = <<>> THEN None ELSE Last(own).kind

\* One more event; ok says whether the window can decode its payload.
Emit(t, kind, ok) ==
    /\ Len(journal) < MaxEvents
    /\ journal' = Append(journal, [task |-> t, kind |-> kind, ok |-> ok])

StartTask(t) ==
    /\ ~Started(t)
    /\ Emit(t, "task_started", TRUE)
    /\ UNCHANGED <<pending, viewVars, clicks, reqs, mistaken, answers, resets>>

\* A mutating tool call needs the user: approval_requested, which replaces
\* the ask before it if that is still open, and then the state change.
Ask(t) ==
    /\ LastKind(t) \notin {None, "ended"}
    /\ \E ok \in {TRUE, ~Undecodable} : Emit(t, "approval_requested", ok)
    /\ pending' = [pending EXCEPT ![t] = Len(journal')]
    /\ UNCHANGED <<viewVars, clicks, reqs, mistaken, answers, resets>>

Wait(t) ==
    /\ LastKind(t) = "approval_requested"
    /\ pending[t] # 0
    /\ Emit(t, "waiting", TRUE)
    /\ UNCHANGED <<pending, viewVars, clicks, reqs, mistaken, answers, resets>>

\* An ask is resolved: the task goes on, or ends.
Resolve(t) ==
    /\ pending[t] # 0
    /\ pending' = [pending EXCEPT ![t] = 0]
    /\ \E kind \in {"working", "ended"} : Emit(t, kind, TRUE)

\* Another window, or the command line, answers or cancels the task.
OtherClient(t) ==
    /\ Resolve(t)
    /\ UNCHANGED <<viewVars, clicks, reqs, mistaken, answers, resets>>

\* permission_resolve without a request_id: it resolves what the task waits
\* for, and is refused when it waits for nothing.
ServeRequest ==
    /\ reqs # <<>>
    /\ LET r == Head(reqs)
       IN  \/ /\ Resolve(r.task)
              /\ mistaken' = IF pending[r.task] = r.seq THEN mistaken
                             ELSE mistaken \cup
                                  {[ask |-> pending[r.task], req |-> r]}
           \/ /\ pending[r.task] = 0
              /\ UNCHANGED <<coreVars, mistaken>>
    /\ reqs' = Tail(reqs)
    /\ UNCHANGED <<viewVars, clicks, answers, resets>>

(***************************************************************************)
(* The store and its readers.                                              *)
(***************************************************************************)
\* advanceTask
advanceTask(prev, e) ==
    IF e.ok /\ e.kind \in {"waiting", "working", "ended"} THEN e.kind
    ELSE IF prev = "absent" THEN "unknown" ELSE prev

\* Mutant: what is already applied is applied again.
ReappliesOld(s, seq) ==
    LET e == journal[seq]
    IN  [lastSeq   |-> IF seq > s.lastSeq THEN seq ELSE s.lastSeq,
         state     |-> [s.state EXCEPT ![e.task] = advanceTask(@, e)],
         touched   |-> [s.touched EXCEPT ![e.task] = seq],
         approvals |-> IF e.ok /\ e.kind = "approval_requested"
                       THEN [s.approvals EXCEPT ![e.task] = seq]
                       ELSE s.approvals]

\* applyDecodedNoAppend: what is already applied is ignored.
applyDecoded(s, seq) ==
    LET e == journal[seq]
    IN  IF seq < s.lastSeq + 1 THEN s
        ELSE [lastSeq   |-> seq,
              state     |-> [s.state EXCEPT ![e.task] = advanceTask(@, e)],
              touched   |-> [s.touched EXCEPT ![e.task] = seq],
              approvals |-> IF e.ok /\ e.kind = "approval_requested"
                            THEN [s.approvals EXCEPT ![e.task] = seq]
                            ELSE s.approvals]

\* Events first to last, one after the other.
applyBatch(s, first, last) ==
    LET after[n \in (first - 1)..last] ==
            IF n = first - 1 THEN s ELSE applyDecoded(after[n - 1], n)
    IN  after[last]

\* The most recently touched task, if any.
currentTask(s) ==
    LET known == {t \in Tasks : s.state[t] # "absent"}
    IN  IF known = {} THEN None
        ELSE CHOOSE t \in known : \A u \in known : s.touched[u] <= s.touched[t]

\* 0 when there is none
pendingApprovalFor(s, t) ==
    IF s.state[t] = "waiting" THEN s.approvals[t] ELSE 0

\* Mutant: current if it is any task's newest ask.
AnyTasksAsk(s, t, seenSeq) == \E u \in Tasks : s.approvals[u] = seenSeq

\* Mutant: an older ask than the newest one counts as current.
NotNewer(s, t, seenSeq) == seenSeq <= s.approvals[t]

approvalIsCurrent(s, t, seenSeq) == s.approvals[t] = seenSeq

\* Mutant: the pin is not looked at.
IgnoresPin(s, explicit) == currentTask(s)

\* What the panels show: a pin only once the store knows the task.
resolveFocus(s, explicit) ==
    IF explicit # None /\ s.state[explicit] # "absent" THEN explicit
    ELSE currentTask(s)

\* focus.pinned ?? currentTask(state)?.id
targetTask(s, explicit) == IF explicit # None THEN explicit ELSE currentTask(s)

\* modelChatModel's approval
modelChatCard(s, explicit) ==
    LET t == resolveFocus(s, explicit)
    IN  IF t = None THEN None
        ELSE LET seq == pendingApprovalFor(s, t)
             IN  IF seq = 0 THEN None ELSE [task |-> t, seq |-> seq]

\* Mutant: the notification carries the pin instead of the task it looked up.
NotifyPinned(s) ==
    LET t == targetTask(s, pinned)
        seq == IF t = None THEN 0 ELSE pendingApprovalFor(s, t)
    IN  IF seq \notin {0, lastApprovalSeq}
        THEN /\ lastApprovalSeq' = seq
             /\ toasts' = toasts \cup {[task |-> pinned, seq |-> seq]}
        ELSE UNCHANGED <<lastApprovalSeq, toasts>>

\* watchNotifications, on every store change
Notify(s) ==
    LET t == targetTask(s, pinned)
        seq == IF t = None THEN 0 ELSE pendingApprovalFor(s, t)
    IN  IF seq \notin {0, lastApprovalSeq}
        THEN /\ lastApprovalSeq' = seq
             /\ toasts' = toasts \cup {[task |-> t, seq |-> seq]}
        ELSE UNCHANGED <<lastApprovalSeq, toasts>>

\* core/eventBatch: new events, old ones again, or both (SessionStream).
IngestBatch ==
    /\ UNCHANGED <<coreVars, pinned, clicks, reqs, mistaken, answers, resets>>
    /\ \E last \in DOMAIN journal :
           \E first \in {1, store.lastSeq + 1} :
               /\ first <= last
               /\ store' = applyBatch(store, first, last)
    /\ card' = modelChatCard(store', pinned)
    /\ Notify(store')

\* reopen(root, 0): the store and the pin are dropped, the toasts stay.
Reset ==
    /\ resets < MaxResets
    /\ resets' = resets + 1
    /\ store' = emptyStore
    /\ pinned' = None
    /\ card' = None
    /\ UNCHANGED <<coreVars, toasts, lastApprovalSeq, clicks, reqs, mistaken,
                   answers>>

(***************************************************************************)
(* The user.                                                               *)
(***************************************************************************)
\* task/create answered, "Inspect" or a pick in the history: a task Core has.
Pin(t) ==
    /\ Started(t)
    /\ pinned # t
    /\ pinned' = t
    /\ card' = modelChatCard(store, t)
    /\ UNCHANGED <<coreVars, store, toasts, lastApprovalSeq, clicks, reqs,
                   mistaken, answers, resets>>

Answer ==
    /\ answers < MaxAnswers
    /\ answers' = answers + 1

\* Allow or Deny on the card, as often as the user likes; the message
\* carries the seq and no task.
Click ==
    /\ card # None
    /\ Answer
    /\ clicks' = Append(clicks, card.seq)
    /\ UNCHANGED <<coreVars, viewVars, reqs, mistaken, resets>>

\* CMD.resolveApproval
resolveApproval(t, seq) ==
    IF t # None /\ approvalIsCurrent(store, t, seq)
    THEN reqs' = Append(reqs, [task |-> t, seq |-> seq,
                               known |-> store.lastSeq])
    ELSE UNCHANGED reqs

\* The click reaches the extension, which looks up its task only now.
DispatchClick ==
    /\ clicks # <<>>
    /\ resolveApproval(targetTask(store, pinned), Head(clicks))
    /\ clicks' = Tail(clicks)
    /\ UNCHANGED <<coreVars, viewVars, mistaken, answers, resets>>

\* A button of a notification, which knows its task.
PickToast ==
    \E n \in toasts :
        /\ Answer
        /\ toasts' = toasts \ {n}
        /\ resolveApproval(n.task, n.seq)
        /\ UNCHANGED <<coreVars, store, pinned, card, lastApprovalSeq, clicks,
                       mistaken, resets>>

TaskStep(t) == StartTask(t) \/ Ask(t) \/ Wait(t) \/ OtherClient(t) \/ Pin(t)

Next == \/ \E t \in Tasks : TaskStep(t)
        \/ ServeRequest
        \/ IngestBatch
        \/ Reset
        \/ Click
        \/ DispatchClick
        \/ PickToast

Spec == Init /\ [][Next]_vars

\* The stream delivers what the journal holds (SessionStream); nothing is
\* assumed of Core or of the user.
FairSpec == Spec /\ WF_store(IngestBatch)

(***************************************************************************)
(* Properties.                                                             *)
(***************************************************************************)
\* The events of t the window has, and what they say when all are readable.
Applied(t) == {i \in 1..store.lastSeq : journal[i].task = t}
Readable(t, kinds) ==
    {i \in Applied(t) : journal[i].ok /\ journal[i].kind \in kinds}
Latest(S) == IF S = {} THEN 0 ELSE CHOOSE i \in S : \A j \in S : j <= i

\* Whatever batches the journal came in, and however often parts of it were
\* repeated, the projection is the one of the prefix it has reached: the
\* newest ask and the newest state of each task win, and a replay brings
\* neither an older ask nor an older state back (reducer.ts).
ProjectionOfPrefix ==
    \A t \in Tasks :
        LET changes == Readable(t, {"waiting", "working", "ended"})
        IN  /\ store.approvals[t] = Latest(Readable(t, {"approval_requested"}))
            /\ store.touched[t] = Latest(Applied(t))
            /\ changes # {} => store.state[t] = journal[Latest(changes)].kind

\* An answer goes to the task whose ask the user saw: the card's message
\* names no task, and the focus may move while it is in transit
\* (dispatch.ts, targetTask and the G2 guard).
NeverAnotherTask ==
    \A i \in DOMAIN reqs :
        /\ journal[reqs[i].seq].kind = "approval_requested"
        /\ journal[reqs[i].seq].task = reqs[i].task

\* An answer resolves an ask other than the one it was given for only when
\* the guard could not know: the newer ask was still on its way to the store
\* when the answer was sent, or came in a form the window cannot read.
MistakenOnlyUnseen ==
    \A m \in mistaken : m.ask > m.req.known \/ ~journal[m.ask].ok

\* client.rs:270-273: a stale prompt is refused "rather than mis-resolved".
NeverMistaken == mistaken = {}

\* What Core waits on the user for reaches the card of a chat that shows the
\* task, whatever else happens, unless it is resolved or replaced first, the
\* user looks at another task, or the ask cannot be read.
AskReachesCard ==
    \A t \in Tasks :
        LET asking == /\ pinned = t
                      /\ pending[t] # 0
                      /\ LastKind(t) = "waiting"
                      /\ journal[pending[t]].ok
        IN  asking ~> (~asking \/ card = [task |-> t, seq |-> pending[t]])

=============================================================================
