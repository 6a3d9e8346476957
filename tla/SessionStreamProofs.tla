------------------------ MODULE SessionStreamProofs ------------------------
(***************************************************************************)
(* SessionStream's invariants, for every journal, every number of supervise*)
(* tasks, requests and failures, and every pipe.                           *)
(***************************************************************************)
EXTENDS SessionStream, SequenceLemmas

\* n is applied by the store, at l, or a batch of the pipe o reaches it.
Covers(l, o, n) == n <= l \/ \E i \in 1..Len(o) : n <= o[i].last

\* Every batch of the pipe continues the store or an earlier batch: read in
\* order, they leave no hole.
Chain(l, o) ==
    \A i \in 1..Len(o) : \/ o[i].first <= l + 1
                         \/ \E j \in 1..i - 1 : o[i].first <= o[j].last + 1

\* A batch that ends at n is in a task's hands.
Held(h, n) == \E u \in Tasks : h[u] # 0 /\ h[u] = n

\* A pump that resumes at n misses nothing.
Safe(l, o, h, n) == Covers(l, o, n) \/ Held(h, n)

\* Only a task that streams has a batch in hand, and it continues the task's own.
HandShape == \A t \in Tasks : unsent[t] # 0 => task[t] = "streaming" /\ cursor[t] < unsent[t]

\* The host's main loop holds a task only while it swaps one in or takes one out.
OpShape ==
    /\ op.at \in {"idle", "opening"} => op.task = None
    /\ op.at \in {"started", "stopping"} => op.task \in Tasks

\* Before the first request nothing has happened.
Untouched ==
    requests = 0 => /\ reqs = <<>> /\ out = <<>> /\ lastSeq = 0
                    /\ op.at = "idle" /\ live = None
                    /\ \A t \in Tasks : task[t] = "ended"

\* No request asks for more than the store has: the store never goes back.
AskedWithinStore == \A i \in 1..Len(reqs) : reqs[i].from <= lastSeq

\* Every number a pump may be started from is safe: what a task has put on
\* stdout or would resume from, the resume cursor of the session that is live,
\* being swapped in or taken out (its task may have ended), and the cursor the
\* main loop carries through an open or a restart.
CursorsSafe ==
    /\ \A t \in Tasks : task[t] # "ended" => Safe(lastSeq, out, unsent, cursor[t])
    /\ \A t \in Tasks : task[t] # "ended" \/ t = live \/ t = op.task
                            => Safe(lastSeq, out, unsent, last_seq[t])
    /\ op.at # "idle" => Safe(lastSeq, out, unsent, op.from)

\* The store is the prefix and the pipe continues it.
Whole == Chain(lastSeq, out) /\ rows = 1..lastSeq /\ ~gapDetected

SessionInv == TypeOK /\ OpShape /\ NoOrphanStream /\ HandShape

StreamInv ==
    /\ Untouched
    /\ AskedWithinStore
    /\ CursorsSafe
    /\ overtaken \/ Whole

-----------------------------------------------------------------------------
\* A batch's seqs are numbers.
LEMMA BatchFacts ==
    ASSUME SessionConstants, NEW b \in Batches
    PROVE  b.first \in 1..MaxSeq /\ b.last \in 1..MaxSeq /\ b.first \in Nat /\ b.last \in Nat
  BY DEF Batches, SessionConstants

\* Another batch in the pipe takes nothing away, and covers what it reaches.
LEMMA CoversAppend ==
    ASSUME NEW l \in Nat, NEW o \in Seq(Batches), NEW b \in Batches, NEW n \in Nat,
           Covers(l, o, n) \/ n <= b.last
    PROVE  Covers(l, Append(o, b), n)
  <1>1. CASE Covers(l, o, n)
    BY <1>1, AppendFacts DEF Covers
  <1>2. CASE n <= b.last
    BY <1>2, AppendFacts DEF Covers
  <1>3. QED BY <1>1, <1>2

\* What the pipe covered before a batch was read is covered after it.
LEMMA CoversIngest ==
    ASSUME NEW l \in Nat, NEW o \in Seq(Batches), o # <<>>, NEW n \in Nat,
           SessionConstants, Covers(l, o, n)
    PROVE  Covers(Larger(l, Head(o).last), Tail(o), n)
  <1>1. Head(o).last \in Nat /\ Head(o) = o[1]
    BY TailFacts, BatchFacts
  <1>2. /\ Larger(l, Head(o).last) \in Nat
        /\ l <= Larger(l, Head(o).last) /\ Head(o).last <= Larger(l, Head(o).last)
    BY <1>1 DEF Larger
  <1>3. CASE n <= l
    BY <1>2, <1>3 DEF Covers
  <1>4. ASSUME NEW i \in 1..Len(o), n <= o[i].last
        PROVE  Covers(Larger(l, Head(o).last), Tail(o), n)
    <2>1. CASE i = 1
      BY <1>1, <1>2, <1>4, <2>1 DEF Covers
    <2>2. CASE i # 1
      <3>1. i - 1 \in 1..Len(Tail(o)) /\ Tail(o)[i - 1] = o[i]
        BY <2>2, TailFacts
      <3>2. QED BY <1>4, <3>1 DEF Covers
    <2>3. QED BY <2>1, <2>2
  <1>5. QED BY <1>3, <1>4 DEF Covers

\* A batch that starts right after something covered continues the chain.
LEMMA ChainAppend ==
    ASSUME NEW l \in Nat, NEW o \in Seq(Batches), NEW b \in Batches, NEW n \in Nat,
           SessionConstants, Chain(l, o), Covers(l, o, n), b.first = n + 1
    PROVE  Chain(l, Append(o, b))
  <1> SUFFICES ASSUME NEW i \in 1..Len(Append(o, b))
               PROVE  \/ Append(o, b)[i].first <= l + 1
                      \/ \E j \in 1..i - 1 :
                            Append(o, b)[i].first <= Append(o, b)[j].last + 1
    BY DEF Chain
  <1>1. CASE i \in 1..Len(o)
    BY <1>1, AppendFacts DEF Chain
  <1>2. CASE i = Len(o) + 1
    <2>1. Append(o, b)[i].first = n + 1
      BY <1>2, AppendFacts
    <2>2. CASE n <= l
      BY <2>1, <2>2
    <2>3. ASSUME NEW j \in 1..Len(o), n <= o[j].last
          PROVE  \E k \in 1..i - 1 :
                     Append(o, b)[i].first <= Append(o, b)[k].last + 1
      <3>1. o[j].last \in Nat
        BY BatchFacts
      <3>2. Append(o, b)[j] = o[j] /\ j \in 1..i - 1
        BY <1>2, AppendFacts
      <3>3. QED BY <2>1, <2>3, <3>1, <3>2
    <2>4. QED BY <2>2, <2>3 DEF Covers
  <1>3. QED BY <1>1, <1>2, AppendFacts

\* The chain that is left when a batch was read continues the new store.
LEMMA ChainIngest ==
    ASSUME NEW l \in Nat, NEW o \in Seq(Batches), o # <<>>,
           SessionConstants, Chain(l, o)
    PROVE  Chain(Larger(l, Head(o).last), Tail(o))
  <1>1. Head(o).last \in Nat /\ Head(o) = o[1]
    BY TailFacts, BatchFacts
  <1>2. /\ Larger(l, Head(o).last) \in Nat
        /\ l <= Larger(l, Head(o).last) /\ Head(o).last <= Larger(l, Head(o).last)
    BY <1>1 DEF Larger
  <1> SUFFICES ASSUME NEW i \in 1..Len(Tail(o))
               PROVE  \/ Tail(o)[i].first <= Larger(l, Head(o).last) + 1
                      \/ \E j \in 1..i - 1 : Tail(o)[i].first <= Tail(o)[j].last + 1
    BY DEF Chain
  <1>3. i + 1 \in 1..Len(o) /\ Tail(o)[i] = o[i + 1] /\ o[i + 1].first \in Nat
    BY TailFacts, BatchFacts
  <1>4. CASE o[i + 1].first <= l + 1
    BY <1>2, <1>3, <1>4
  <1>5. ASSUME NEW j \in 1..i, o[i + 1].first <= o[j].last + 1
        PROVE  \/ Tail(o)[i].first <= Larger(l, Head(o).last) + 1
               \/ \E k \in 1..i - 1 : Tail(o)[i].first <= Tail(o)[k].last + 1
    <2>1. CASE j = 1
      BY <1>1, <1>2, <1>3, <1>5, <2>1
    <2>2. CASE j # 1
      <3>1. j - 1 \in 1..i - 1 /\ Tail(o)[j - 1] = o[j]
        BY <1>3, <2>2, TailFacts
      <3>2. QED BY <1>3, <1>5, <3>1
    <2>3. QED BY <2>1, <2>2
  <1>6. QED BY <1>3, <1>4, <1>5 DEF Chain

-----------------------------------------------------------------------------
\* Every variable keeps its type, the main loop its shape, and no supervise task
\* is forgotten: whoever takes a session away aborts its task.
LEMMA SessionStep == SessionInv /\ [Next]_vars => SessionInv'
  <1> SUFFICES ASSUME SessionInv, [Next]_vars PROVE SessionInv'
    OBVIOUS
  <1> USE SessionConstants
          DEF SessionInv, OpShape, NoOrphanStream, HandShape, hostVars, taskVars, storeVars
  <1>1. CASE CommitEvent
    BY <1>1 DEF CommitEvent, TypeOK
  <1>2. CASE OpenFresh
    <2>1. /\ reqs' \in Seq(Requests) /\ requests' \in 0..MaxRequests
          /\ lastSeq' \in 0..MaxSeq /\ rows' \in SUBSET (1..MaxSeq)
      BY <1>2 DEF OpenFresh, Request, TypeOK, Requests
    <2>2. gapDetected' \in BOOLEAN /\ UNCHANGED <<journal, hostVars, out, overtaken, failures>>
      BY <1>2, Zenon DEF OpenFresh
    <2>3. QED BY <2>1, <2>2 DEF TypeOK
  <1>3. CASE Reconnect
    BY <1>3 DEF Reconnect, Request, TypeOK, Requests
  <1>4. CASE SetAutonomy
    BY <1>4 DEF SetAutonomy, Request, TypeOK, Requests
  <1>5. CASE Ingest
    <2>1. TypeOK'
      <3>1. Head(out) \in Batches /\ Tail(out) \in Seq(Batches)
        BY <1>5, TailFacts DEF Ingest, TypeOK
      <3>2. Head(out).last \in 1..MaxSeq /\ Head(out).first \in 1..MaxSeq
        BY <3>1, BatchFacts
      <3>3. lastSeq' \in 0..MaxSeq /\ rows' \in SUBSET (1..MaxSeq) /\ out' \in Seq(Batches)
        <4>1. Fresh(Head(out)) \subseteq 1..MaxSeq
          BY <3>2 DEF Fresh
        <4>2. Larger(lastSeq, Head(out).last) \in 0..MaxSeq
          BY <3>2 DEF TypeOK, Larger
        <4>3. QED BY <1>5, <3>1, <4>1, <4>2 DEF Ingest, TypeOK
      <3>4. gapDetected' \in BOOLEAN
        BY <1>5, Zenon DEF Ingest, TypeOK
      <3>5. QED BY <1>5, <3>3, <3>4 DEF Ingest, TypeOK
    <2>2. QED BY <1>5, <2>1 DEF Ingest
  <1>6. CASE TakeOpen
    <2>1. Head(reqs) \in Requests /\ Tail(reqs) \in Seq(Requests)
      BY <1>6, TailFacts DEF TakeOpen, TypeOK
    <2>2. op' \in Ops
      BY <1>6, <2>1 DEF TakeOpen, Requests, Ops
    <2>3. QED BY <1>6, <2>1, <2>2 DEF TakeOpen, TypeOK
  <1>7. CASE OpenFails
    BY <1>7 DEF OpenFails, TypeOK, Idle, Ops
  <1>8. ASSUME NEW t \in Tasks, StartPump(t) PROVE SessionInv'
    BY <1>8 DEF StartPump, TypeOK, Ops
  <1>9. CASE SwapLive
    BY <1>9 DEF SwapLive, AbortTask, TypeOK, Idle, Ops
  <1>10. CASE RefuseRestart
    BY <1>10, TailFacts DEF RefuseRestart, TypeOK
  <1>11. CASE TakeRestart
    BY <1>11, TailFacts DEF TakeRestart, TypeOK, Ops
  <1>12. CASE StopDone
    <2>1. op.task \in Tasks
      BY <1>12 DEF StopDone
    <2>2. op' \in Ops /\ op'.task = None /\ op'.at \in {"opening", "idle"}
      <3>1. CASE op' = Idle
        BY <3>1 DEF Idle, Ops
      <3>2. CASE op' = [op EXCEPT !.at = "opening", !.task = None]
        BY <3>2 DEF TypeOK, Ops
      <3>3. QED BY <1>12, <3>1, <3>2 DEF StopDone
    <2>3. aborted' = [aborted EXCEPT ![op.task] = TRUE]
      BY <1>12, <2>1 DEF StopDone, AbortTask
    <2>4. aborted' \in [Tasks -> BOOLEAN]
      BY <2>1, <2>3 DEF TypeOK
    <2>5. UNCHANGED <<journal, hostUp, task, cursor, unsent, last_seq, live, reqs, out,
                      storeVars, overtaken, requests, failures>>
      BY <1>12 DEF StopDone
    <2>6. TypeOK'
      BY <2>2, <2>4, <2>5 DEF TypeOK
    <2>7. NoOrphanStream'
      BY <2>1, <2>2, <2>3, <2>5 DEF TypeOK
    <2>8. QED BY <2>2, <2>5, <2>6, <2>7
  <1>13. ASSUME NEW t \in Tasks, Raise(t) PROVE SessionInv'
    BY <1>13 DEF Raise, TypeOK, Larger
  <1>22. ASSUME NEW t \in Tasks, Send(t) PROVE SessionInv'
    <2>1. /\ out' = Append(out, [first |-> cursor[t] + 1, last |-> unsent[t]])
          /\ cursor' = [cursor EXCEPT ![t] = unsent[t]]
          /\ unsent' = [unsent EXCEPT ![t] = 0]
          /\ UNCHANGED <<journal, hostUp, task, aborted, last_seq, live, op, reqs,
                         storeVars, requests, failures>>
      BY <1>22 DEF Send
    <2>2. overtaken' \in BOOLEAN
      BY <1>22, Zenon DEF Send, TypeOK
    <2>3. unsent[t] # 0 /\ cursor[t] < unsent[t]
      BY <1>22 DEF Send
    <2>4. [first |-> cursor[t] + 1, last |-> unsent[t]] \in Batches
      BY <2>3 DEF TypeOK, Batches
    <2>5. TypeOK'
      BY <2>1, <2>2, <2>4, AppendFacts DEF TypeOK
    <2>6. QED BY <2>1, <2>5 DEF TypeOK
  <1>14. ASSUME NEW t \in Tasks, RestartDone(t) PROVE SessionInv'
    <2>1. /\ task[t] = "restarting" /\ unsent' = unsent
          /\ task' \in {[task EXCEPT ![t] = "streaming"], [task EXCEPT ![t] = "ended"]}
          /\ cursor' \in {[cursor EXCEPT ![t] = last_seq[t]], cursor}
      BY <1>14 DEF RestartDone
    <2>2. unsent[t] = 0
      BY <2>1
    <2>3. HandShape'
      BY <2>1, <2>2 DEF TypeOK
    <2>4. /\ task' \in [Tasks -> {"ended", "streaming", "restarting"}]
          /\ cursor' \in [Tasks -> 0..MaxSeq]
          /\ \A u \in Tasks : task'[u] # "ended" => task[u] # "ended"
      BY <2>1 DEF TypeOK
    <2>5. UNCHANGED <<journal, hostUp, aborted, unsent, last_seq, live, op, reqs, out,
                      storeVars, overtaken, requests, failures>>
      BY <1>14 DEF RestartDone
    <2>6. TypeOK'
      BY <2>4, <2>5 DEF TypeOK
    <2>7. OpShape' /\ NoOrphanStream'
      BY <2>4, <2>5
    <2>8. QED BY <2>3, <2>6, <2>7
  <1>15. ASSUME NEW t \in Tasks, RestartGivesUp(t) PROVE SessionInv'
    BY <1>15 DEF RestartGivesUp, TypeOK
  <1>16. ASSUME NEW t \in Tasks, AbortTakesEffect(t) PROVE SessionInv'
    BY <1>16 DEF AbortTakesEffect, Stopped, TypeOK
  <1>17. ASSUME NEW t \in Tasks, StreamCloses(t) PROVE SessionInv'
    BY <1>17 DEF StreamCloses, TypeOK, Larger
  <1>18. CASE HostDies
    <2>1. /\ task' = [t \in Tasks |-> "ended"] /\ aborted' = [t \in Tasks |-> FALSE]
          /\ cursor' = [t \in Tasks |-> 0] /\ unsent' = [t \in Tasks |-> 0]
          /\ last_seq' = [t \in Tasks |-> 0]
          /\ op' = Idle /\ live' = None /\ reqs' = <<>> /\ out' = <<>>
          /\ UNCHANGED <<journal, storeVars, overtaken, requests>>
      BY <1>18 DEF HostDies
    <2>2. hostUp' \in BOOLEAN
      BY <1>18, Zenon DEF HostDies
    <2>3. failures' \in 0..MaxFailures
      BY <1>18 DEF HostDies, TypeOK
    <2>4. op' \in Ops /\ op'.task = None /\ op'.at = "idle"
      BY <2>1 DEF Idle, Ops
    <2>5. aborted' \in [Tasks -> BOOLEAN]
      BY <2>1
    <2>6. TypeOK'
      BY <2>1, <2>2, <2>3, <2>4, <2>5 DEF TypeOK
    <2>7. QED BY <2>1, <2>4, <2>6
  <1>19. CASE Respawn
    <2>1. reqs' \in Seq(Requests)
      <3>1. [method |-> "session/open", from |-> lastSeq] \in Requests
        BY DEF TypeOK, Requests
      <3>2. QED BY <1>19, <3>1 DEF Respawn
    <2>2. hostUp' \in BOOLEAN
      BY <1>19, Zenon DEF Respawn
    <2>3. QED BY <1>19, <2>1, <2>2 DEF Respawn, TypeOK
  <1>20. CASE UNCHANGED vars
    BY <1>20 DEF vars, TypeOK
  <1>21. QED
    BY <1>1, <1>2, <1>3, <1>4, <1>5, <1>6, <1>7, <1>8, <1>9, <1>10, <1>11, <1>12, <1>13,
       <1>14, <1>15, <1>16, <1>17, <1>18, <1>19, <1>20, <1>22
       DEF Next, HostStep, HostTurn, TaskStep

-----------------------------------------------------------------------------
\* The cursors of a step in which the store and the pipe stay, and no task that
\* had ended or was nobody's gets a new one.
LEMMA StillCovered ==
    ASSUME StreamInv, UNCHANGED <<lastSeq, out, rows, gapDetected, overtaken>>,
           requests' = 0 => requests = 0 /\ UNCHANGED <<reqs, op, live, task>>,
           AskedWithinStore', CursorsSafe'
    PROVE  StreamInv'
  BY DEF StreamInv, Untouched, Whole

\* Whatever sessions overlap, the pipe continues the store and every cursor is
\* covered: as long as nobody opens the workspace afresh.
LEMMA StreamStep == ~FreshReopen /\ SessionInv /\ StreamInv /\ [Next]_vars => StreamInv'
  <1> SUFFICES ASSUME ~FreshReopen, SessionInv, StreamInv, [Next]_vars PROVE StreamInv'
    OBVIOUS
  <1> USE SessionConstants DEF hostVars, taskVars, storeVars
  <1>0. TypeOK /\ OpShape /\ TypeOK' /\ HandShape
    BY SessionStep DEF SessionInv
  <1>1. CASE CommitEvent
    BY <1>1 DEF CommitEvent, StreamInv, Untouched, AskedWithinStore, CursorsSafe, Whole
  <1>2. CASE OpenFresh
    <2>1. requests = 0 /\ requests' # 0
      BY <1>0, <1>2 DEF OpenFresh, Request, TypeOK
    <2>2. /\ reqs = <<>> /\ out = <<>> /\ lastSeq = 0 /\ op.at = "idle" /\ live = None
          /\ \A t \in Tasks : task[t] = "ended"
      BY <2>1 DEF StreamInv, Untouched
    <2>3. AskedWithinStore'
      BY <1>2, <2>2 DEF OpenFresh, Request, AskedWithinStore
    <2>4. UNCHANGED <<lastSeq, out, task, cursor, last_seq, live, op>> /\ rows' = {}
          /\ ~gapDetected'
      BY <1>2, <2>2 DEF OpenFresh
    <2>5. CursorsSafe' /\ Untouched'
      <3>1. /\ \A t \in Tasks : task'[t] = "ended" /\ t # None
            /\ op'.at = "idle" /\ live' = None /\ op'.task = None
        BY <1>0, <2>2, <2>4 DEF OpShape
      <3>2. \A t \in Tasks : ~(task'[t] # "ended" \/ t = live' \/ t = op'.task)
        BY <3>1
      <3>3. CursorsSafe'
        BY <3>1, <3>2 DEF CursorsSafe
      <3>4. QED BY <2>1, <3>3 DEF Untouched
    <2>6. Whole'
      <3>1. Chain(lastSeq', out')
        BY <2>2, <2>4 DEF Chain
      <3>2. rows' = 1..lastSeq'
        BY <2>2, <2>4
      <3>3. QED BY <2>4, <3>1, <3>2 DEF Whole
    <2>7. QED BY <2>3, <2>5, <2>6 DEF StreamInv
  <1>3. CASE Reconnect
    <2>1. requests' # 0
      BY <1>0, <1>3 DEF Reconnect, Request, TypeOK
    <2>2. AskedWithinStore'
      BY <1>0, <1>3, AppendFacts DEF Reconnect, Request, TypeOK, AskedWithinStore, StreamInv, Requests
    <2>3. CursorsSafe'
      BY <1>3 DEF Reconnect, StreamInv, CursorsSafe
    <2>4. QED BY <1>3, <2>1, <2>2, <2>3, StillCovered DEF Reconnect
  <1>4. CASE SetAutonomy
    <2>1. requests' # 0
      BY <1>0, <1>4 DEF SetAutonomy, Request, TypeOK
    <2>2. AskedWithinStore'
      BY <1>0, <1>4, AppendFacts DEF SetAutonomy, Request, TypeOK, AskedWithinStore, StreamInv, Requests
    <2>3. CursorsSafe'
      BY <1>4 DEF SetAutonomy, StreamInv, CursorsSafe
    <2>4. QED BY <1>4, <2>1, <2>2, <2>3, StillCovered DEF SetAutonomy
  <1>5. CASE Ingest
    <2>1. /\ out # <<>> /\ Head(out) \in Batches /\ Tail(out) \in Seq(Batches)
          /\ Head(out) = out[1] /\ Len(out) \in Nat \ {0}
      BY <1>0, <1>5, TailFacts DEF Ingest, TypeOK
    <2> DEFINE b == Head(out)
    <2>2. b.first \in Nat /\ b.last \in Nat
      BY <2>1, BatchFacts
    <2>3. /\ lastSeq' = Larger(lastSeq, b.last) /\ out' = Tail(out)
          /\ rows' = rows \cup Fresh(b)
          /\ gapDetected' = (gapDetected \/ (Fresh(b) # {} /\ lastSeq + 1 \notin Fresh(b)))
          /\ UNCHANGED <<journal, hostVars, reqs, overtaken, requests, failures>>
      BY <1>5 DEF Ingest
    <2>4. overtaken' \/ Whole'
      <3> SUFFICES ASSUME Whole PROVE Whole'
        BY <2>3 DEF StreamInv
      <3>0. \/ b.first <= lastSeq + 1
            \/ \E j \in 1..0 : b.first <= out[j].last + 1
        BY <2>1 DEF Whole, Chain
      <3>1. lastSeq \in Nat /\ b.first <= lastSeq + 1
        BY <1>0, <3>0 DEF TypeOK
      <3>2. Fresh(b) = lastSeq + 1..b.last
        <4>1. ASSUME NEW f \in Nat, NEW e \in Nat, f <= lastSeq + 1
              PROVE  {q \in f..e : lastSeq + 1 <= q} = lastSeq + 1..e
          BY <3>1, <4>1
        <4>2. QED BY <2>2, <3>1, <4>1 DEF Fresh
      <3>3. rows' = 1..lastSeq'
        BY <2>2, <2>3, <3>1, <3>2 DEF Whole, Larger
      <3>4. Fresh(b) # {} => lastSeq + 1 \in Fresh(b)
        BY <2>2, <3>1, <3>2
      <3>5. Chain(lastSeq', out')
        BY <1>0, <2>1, <2>3, ChainIngest DEF Whole, TypeOK
      <3>6. QED BY <2>3, <3>3, <3>4, <3>5 DEF Whole
    <2>5. \A n \in Nat : Safe(lastSeq, out, unsent, n) => Safe(lastSeq', out', unsent', n)
      <3>1. \A n \in Nat : Covers(lastSeq, out, n) => Covers(lastSeq', out', n)
        BY <1>0, <2>1, <2>3, CoversIngest DEF TypeOK
      <3>2. QED BY <2>3, <3>1 DEF Safe
    <2>9. CursorsSafe'
      BY <1>0, <2>3, <2>5 DEF StreamInv, CursorsSafe, TypeOK, Ops
    <2>10. AskedWithinStore'
      <3>1. lastSeq <= lastSeq' /\ lastSeq' \in Nat /\ lastSeq \in Nat
        BY <1>0, <2>2, <2>3 DEF TypeOK, Larger
      <3>2. \A i \in 1..Len(reqs) : reqs[i].from \in Nat
        BY <1>0, SMTT(30) DEF TypeOK, Requests
      <3>3. QED BY <2>3, <3>1, <3>2 DEF StreamInv, AskedWithinStore
    <2>11. Untouched'
      BY <2>1, <2>3 DEF StreamInv, Untouched
    <2>12. QED BY <2>4, <2>9, <2>10, <2>11 DEF StreamInv
  <1>6. CASE TakeOpen
    <2>1. /\ reqs # <<>> /\ Head(reqs) = reqs[1] /\ Len(reqs) \in Nat \ {0}
          /\ Len(Tail(reqs)) = Len(reqs) - 1
          /\ \A i \in 1..Len(reqs) - 1 : Tail(reqs)[i] = reqs[i + 1]
      BY <1>0, <1>6, TailFacts DEF TakeOpen, TypeOK
    <2>2. requests # 0
      BY <2>1 DEF StreamInv, Untouched
    <2>3. AskedWithinStore'
      BY <1>6, <2>1 DEF TakeOpen, StreamInv, AskedWithinStore
    <2>4. Safe(lastSeq, out, unsent, Head(reqs).from)
      BY <2>1 DEF StreamInv, AskedWithinStore, Safe, Covers
    <2>5. CursorsSafe'
      BY <1>0, <1>6, <2>4 DEF TakeOpen, StreamInv, CursorsSafe
    <2>6. QED BY <1>6, <2>2, <2>3, <2>5, StillCovered DEF TakeOpen
  <1>7. CASE OpenFails
    BY <1>0, <1>7, StillCovered DEF OpenFails, Idle, StreamInv, Untouched, AskedWithinStore, CursorsSafe, OpShape, TypeOK, Ops
  <1>8. ASSUME NEW t \in Tasks, StartPump(t) PROVE StreamInv'
    <2>1. requests # 0
      BY <1>8 DEF StartPump, StreamInv, Untouched
    <2>2. AskedWithinStore'
      BY <1>8 DEF StartPump, StreamInv, AskedWithinStore
    <2>3. CursorsSafe'
      BY <1>0, <1>8 DEF StartPump, StreamInv, CursorsSafe, TypeOK, Ops
    <2>4. QED BY <1>8, <2>1, <2>2, <2>3, StillCovered DEF StartPump
  <1>9. CASE SwapLive
    <2>1. requests # 0
      BY <1>9 DEF SwapLive, StreamInv, Untouched
    <2>2. AskedWithinStore'
      BY <1>9 DEF SwapLive, StreamInv, AskedWithinStore
    <2>3. CursorsSafe'
      BY <1>0, <1>9 DEF SwapLive, Idle, StreamInv, CursorsSafe, TypeOK, OpShape
    <2>4. QED BY <1>9, <2>1, <2>2, <2>3, StillCovered DEF SwapLive
  <1>10. CASE RefuseRestart
    <2>1. /\ reqs # <<>> /\ Len(reqs) \in Nat \ {0}
          /\ Len(Tail(reqs)) = Len(reqs) - 1
          /\ \A i \in 1..Len(reqs) - 1 : Tail(reqs)[i] = reqs[i + 1]
      BY <1>0, <1>10, TailFacts DEF RefuseRestart, TypeOK
    <2>2. requests # 0
      BY <2>1 DEF StreamInv, Untouched
    <2>3. AskedWithinStore'
      BY <1>10, <2>1 DEF RefuseRestart, StreamInv, AskedWithinStore
    <2>4. CursorsSafe'
      BY <1>10 DEF RefuseRestart, StreamInv, CursorsSafe
    <2>5. QED BY <1>10, <2>2, <2>3, <2>4, StillCovered DEF RefuseRestart
  <1>11. CASE TakeRestart
    <2>1. /\ reqs # <<>> /\ Len(reqs) \in Nat \ {0}
          /\ Len(Tail(reqs)) = Len(reqs) - 1
          /\ \A i \in 1..Len(reqs) - 1 : Tail(reqs)[i] = reqs[i + 1]
      BY <1>0, <1>11, TailFacts DEF TakeRestart, TypeOK
    <2>2. requests # 0
      BY <2>1 DEF StreamInv, Untouched
    <2>3. AskedWithinStore'
      BY <1>11, <2>1 DEF TakeRestart, StreamInv, AskedWithinStore
    <2>4. CursorsSafe'
      BY <1>0, <1>11 DEF TakeRestart, StreamInv, CursorsSafe, TypeOK
    <2>5. QED BY <1>11, <2>2, <2>3, <2>4, StillCovered DEF TakeRestart
  <1>12. CASE StopDone
    <2>1. requests # 0
      BY <1>12 DEF StopDone, StreamInv, Untouched
    <2>2. AskedWithinStore'
      BY <1>12 DEF StopDone, StreamInv, AskedWithinStore
    <2>3. op'.task = None /\ (op'.at # "idle" => op'.from = op.from) /\ op.at # "idle"
      <3>1. op.at # "idle"
        BY <1>12 DEF StopDone
      <3>2. CASE op' = Idle
        BY <3>1, <3>2 DEF Idle
      <3>3. CASE op' = [op EXCEPT !.at = "opening", !.task = None]
        BY <1>0, <3>1, <3>3 DEF TypeOK, Ops
      <3>4. QED BY <1>12, <3>2, <3>3 DEF StopDone
    <2>4. CursorsSafe'
      BY <1>12, <2>3 DEF StopDone, StreamInv, CursorsSafe
    <2>5. QED BY <1>12, <2>1, <2>2, <2>4, StillCovered DEF StopDone
  <1>13. ASSUME NEW t \in Tasks, Raise(t) PROVE StreamInv'
    <2>1. PICK to \in cursor[t] + 1..journal :
             /\ unsent' = [unsent EXCEPT ![t] = to]
             /\ last_seq' = [last_seq EXCEPT ![t] = Larger(@, to)]
      BY <1>13 DEF Raise
    <2>2. /\ task[t] # "ended" /\ unsent[t] = 0
          /\ UNCHANGED <<journal, hostUp, task, aborted, cursor, live, op, reqs, out,
                         storeVars, overtaken, requests, failures>>
      BY <1>13 DEF Raise
    <2>3. to \in Nat \ {0} /\ last_seq[t] \in Nat /\ unsent'[t] = to
      BY <1>0, <2>1 DEF TypeOK
    <2>4. \A n \in Nat : Safe(lastSeq, out, unsent, n) => Safe(lastSeq', out', unsent', n)
      <3>1. \A u \in Tasks : unsent[u] # 0 => unsent'[u] = unsent[u]
        BY <1>0, <2>1, <2>2 DEF TypeOK
      <3>2. QED BY <2>2, <3>1 DEF Safe, Held
    <2>5. Safe(lastSeq', out', unsent', to)
      BY <2>3 DEF Safe, Held
    <2>6. CursorsSafe'
      <3>1. ASSUME NEW u \in Tasks, task'[u] # "ended" \/ u = live' \/ u = op'.task
            PROVE  Safe(lastSeq', out', unsent', last_seq'[u])
        <4>1. Safe(lastSeq, out, unsent, last_seq[u]) /\ last_seq[u] \in Nat
          BY <1>0, <2>2, <3>1 DEF StreamInv, CursorsSafe, TypeOK
        <4>2. last_seq'[u] \in {last_seq[u], to}
          BY <1>0, <2>1, <3>1 DEF Larger, TypeOK
        <4>3. QED BY <2>4, <2>5, <4>1, <4>2
      <3>2. /\ \A u \in Tasks : cursor[u] \in Nat
            /\ op.from \in Nat
        BY <1>0 DEF TypeOK, Ops
      <3>3. QED BY <2>2, <2>4, <3>1, <3>2 DEF StreamInv, CursorsSafe
    <2>7. requests # 0
      BY <2>2 DEF StreamInv, Untouched
    <2>8. AskedWithinStore'
      BY <2>2 DEF StreamInv, AskedWithinStore
    <2>9. QED BY <2>2, <2>6, <2>7, <2>8, StillCovered
  <1>22. ASSUME NEW t \in Tasks, Send(t) PROVE StreamInv'
    <2> DEFINE b == [first |-> cursor[t] + 1, last |-> unsent[t]]
    <2>1. /\ out' = Append(out, b)
          /\ cursor' = [cursor EXCEPT ![t] = unsent[t]]
          /\ unsent' = [unsent EXCEPT ![t] = 0]
          /\ overtaken' = (overtaken \/ \E u \in Tasks \ {t} :
                                           unsent[u] # 0 /\ unsent[u] = cursor[t])
          /\ UNCHANGED <<journal, hostUp, task, aborted, last_seq, live, op, reqs,
                         storeVars, requests, failures>>
      BY <1>22 DEF Send
    <2>2. unsent[t] # 0 /\ task[t] # "ended" /\ cursor[t] < unsent[t]
      BY <1>0, <1>22 DEF Send, HandShape
    <2>3. /\ b \in Batches /\ b.first = cursor[t] + 1 /\ b.last = unsent[t]
          /\ unsent[t] \in Nat /\ cursor[t] \in Nat
      <3>1. unsent[t] \in 0..MaxSeq /\ cursor[t] \in 0..MaxSeq
        BY <1>0 DEF TypeOK
      <3>2. cursor[t] + 1 \in 1..MaxSeq /\ unsent[t] \in 1..MaxSeq
        BY <2>2, <3>1
      <3>3. QED BY <3>1, <3>2 DEF Batches
    <2>4. requests # 0
      BY <2>2 DEF StreamInv, Untouched
    <2>5. overtaken' \/ Whole'
      <3> SUFFICES ASSUME ~overtaken' PROVE Whole'
        OBVIOUS
      <3>1. Whole /\ \A u \in Tasks \ {t} : ~(unsent[u] # 0 /\ unsent[u] = cursor[t])
        BY <2>1 DEF StreamInv
      <3>2. Covers(lastSeq, out, cursor[t])
        <4>1. Safe(lastSeq, out, unsent, cursor[t])
          BY <2>2 DEF StreamInv, CursorsSafe
        <4>2. ~Held(unsent, cursor[t])
          BY <2>2, <2>3, <3>1 DEF Held
        <4>3. QED BY <4>1, <4>2 DEF Safe
      <3>3. Chain(lastSeq, Append(out, b))
        BY <1>0, <2>3, <3>1, <3>2, ChainAppend DEF Whole, TypeOK
      <3>4. QED BY <2>1, <3>1, <3>3 DEF Whole
    <2>6. \A n \in Nat : Safe(lastSeq, out, unsent, n) => Safe(lastSeq', out', unsent', n)
      <3> SUFFICES ASSUME NEW n \in Nat, Safe(lastSeq, out, unsent, n)
                   PROVE  Safe(lastSeq', out', unsent', n)
        OBVIOUS
      <3>1. CASE Covers(lastSeq, out, n) \/ n <= unsent[t]
        BY <1>0, <2>1, <2>3, <3>1, CoversAppend DEF TypeOK, Safe
      <3>2. ASSUME NEW u \in Tasks, unsent[u] # 0, unsent[u] = n, u # t
            PROVE  Safe(lastSeq', out', unsent', n)
        BY <1>0, <2>1, <3>2 DEF Safe, Held, TypeOK
      <3>3. QED BY <2>3, <3>1, <3>2 DEF Safe, Held
    <2>7. CursorsSafe'
      <3>1. ASSUME NEW u \in Tasks, task'[u] # "ended"
            PROVE  Safe(lastSeq', out', unsent', cursor'[u])
        <4>1. CASE u = t
          <5>1. Covers(lastSeq', out', unsent[t])
            BY <1>0, <2>1, <2>3, CoversAppend DEF TypeOK
          <5>2. QED BY <1>0, <2>1, <4>1, <5>1 DEF Safe, TypeOK
        <4>2. CASE u # t
          <5>1. cursor'[u] = cursor[u] /\ cursor[u] \in Nat /\ task[u] # "ended"
            BY <1>0, <2>1, <3>1, <4>2 DEF TypeOK
          <5>2. QED BY <2>6, <5>1 DEF StreamInv, CursorsSafe
        <4>3. QED BY <4>1, <4>2
      <3>2. /\ \A u \in Tasks : last_seq[u] \in Nat
            /\ op.from \in Nat
        BY <1>0 DEF TypeOK, Ops
      <3>3. QED BY <2>1, <2>6, <3>1, <3>2 DEF StreamInv, CursorsSafe
    <2>8. QED
      BY <2>1, <2>4, <2>5, <2>7 DEF StreamInv, Untouched, AskedWithinStore
  <1>14. ASSUME NEW t \in Tasks, RestartDone(t) PROVE StreamInv'
    <2>1. requests # 0
      BY <1>14 DEF RestartDone, StreamInv, Untouched
    <2>2. AskedWithinStore'
      BY <1>14 DEF RestartDone, StreamInv, AskedWithinStore
    <2>3. CursorsSafe'
      BY <1>0, <1>14 DEF RestartDone, StreamInv, CursorsSafe, TypeOK
    <2>4. QED BY <1>14, <2>1, <2>2, <2>3, StillCovered DEF RestartDone
  <1>15. ASSUME NEW t \in Tasks, RestartGivesUp(t) PROVE StreamInv'
    <2>1. requests # 0
      BY <1>15 DEF RestartGivesUp, StreamInv, Untouched
    <2>2. AskedWithinStore'
      BY <1>15 DEF RestartGivesUp, StreamInv, AskedWithinStore
    <2>3. CursorsSafe'
      BY <1>0, <1>15 DEF RestartGivesUp, StreamInv, CursorsSafe, TypeOK
    <2>4. QED BY <1>15, <2>1, <2>2, <2>3, StillCovered DEF RestartGivesUp
  <1>16. ASSUME NEW t \in Tasks, AbortTakesEffect(t) PROVE StreamInv'
    <2>1. requests # 0
      BY <1>16 DEF AbortTakesEffect, Stopped, StreamInv, Untouched
    <2>2. AskedWithinStore'
      BY <1>16 DEF AbortTakesEffect, Stopped, StreamInv, AskedWithinStore
    <2>3. unsent' = unsent
      BY <1>0, <1>16 DEF AbortTakesEffect, Stopped, TypeOK
    <2>4. Safe(lastSeq, out, unsent, 0)
      BY <1>0 DEF Safe, Covers, TypeOK
    <2>5. \A u \in Tasks : /\ task'[u] # "ended" => task[u] # "ended" /\ u # t
                           /\ last_seq'[u] \in {last_seq[u], 0}
                           /\ u = t => last_seq'[u] = 0
                           /\ u # t => last_seq'[u] = last_seq[u] /\ cursor'[u] = cursor[u]
      BY <1>0, <1>16 DEF AbortTakesEffect, Stopped, TypeOK
    <2>6. UNCHANGED <<lastSeq, out, live, op>>
      BY <1>16 DEF AbortTakesEffect, Stopped
    <2>7. CursorsSafe'
      BY <2>3, <2>4, <2>5, <2>6 DEF StreamInv, CursorsSafe
    <2>8. QED BY <1>16, <2>1, <2>2, <2>7, StillCovered DEF AbortTakesEffect, Stopped
  <1>17. ASSUME NEW t \in Tasks, StreamCloses(t) PROVE StreamInv'
    <2>1. requests # 0
      BY <1>17 DEF StreamCloses, StreamInv, Untouched
    <2>2. AskedWithinStore'
      BY <1>17 DEF StreamCloses, StreamInv, AskedWithinStore
    <2>3. Safe(lastSeq, out, unsent, Larger(last_seq[t], cursor[t]))
      BY <1>17 DEF StreamCloses, StreamInv, CursorsSafe, Larger
    <2>4. CursorsSafe'
      BY <1>0, <1>17, <2>3 DEF StreamCloses, StreamInv, CursorsSafe, TypeOK
    <2>5. QED BY <1>17, <2>1, <2>2, <2>4, StillCovered DEF StreamCloses
  <1>18. CASE HostDies
    <2>1. /\ out' = <<>> /\ reqs' = <<>> /\ op' = Idle /\ live' = None
          /\ task' = [t \in Tasks |-> "ended"]
          /\ UNCHANGED <<storeVars, overtaken, requests>>
      BY <1>18 DEF HostDies
    <2>2. Untouched' /\ AskedWithinStore' /\ (overtaken' \/ Whole')
      BY <2>1 DEF StreamInv, Untouched, AskedWithinStore, Chain, Whole, Idle
    <2>3. CursorsSafe'
      BY <2>1 DEF CursorsSafe, Idle
    <2>4. QED BY <2>2, <2>3 DEF StreamInv
  <1>19. CASE Respawn
    <2>1. UNCHANGED <<taskVars, live, op, out, storeVars, overtaken, requests>>
      BY <1>19 DEF Respawn
    <2>2. AskedWithinStore'
      BY <1>0, <1>19 DEF Respawn, AskedWithinStore, TypeOK
    <2>3. requests = 0 => reqs' = <<>>
      BY <1>19 DEF Respawn
    <2>4. QED
      BY <2>1, <2>2, <2>3 DEF StreamInv, Untouched, CursorsSafe, Whole
  <1>20. CASE UNCHANGED vars
    BY <1>20 DEF vars, StreamInv, Untouched, AskedWithinStore, CursorsSafe, Whole
  <1>21. QED
    BY <1>1, <1>2, <1>3, <1>4, <1>5, <1>6, <1>7, <1>8, <1>9, <1>10, <1>11, <1>12, <1>13,
       <1>14, <1>15, <1>16, <1>17, <1>18, <1>19, <1>20, <1>22
       DEF Next, HostStep, HostTurn, TaskStep

-----------------------------------------------------------------------------
\* The initial state satisfies both invariants.
LEMMA Start == Init => SessionInv /\ StreamInv
  <1> SUFFICES ASSUME Init PROVE SessionInv /\ StreamInv
    OBVIOUS
  <1> USE SessionConstants
  <1>1. TypeOK
    <2>1. hostUp \in BOOLEAN /\ gapDetected \in BOOLEAN /\ overtaken \in BOOLEAN
      BY Zenon DEF Init
    <2>2. op \in Ops /\ reqs \in Seq(Requests) /\ out \in Seq(Batches)
      BY DEF Init, Idle, Ops
    <2>3. QED BY <2>1, <2>2 DEF Init, TypeOK
  <1>2. OpShape /\ NoOrphanStream /\ HandShape
    BY DEF Init, OpShape, NoOrphanStream, HandShape, Idle
  <1>3. Untouched /\ AskedWithinStore /\ CursorsSafe
    BY DEF Init, Untouched, AskedWithinStore, CursorsSafe, Idle
  <1>4. Whole
    BY DEF Init, Whole, Chain
  <1>5. QED BY <1>1, <1>2, <1>3, <1>4 DEF SessionInv, StreamInv

\* Every variable keeps its type, whoever opens, restarts or kills what.
THEOREM TypeCorrect == Spec => []TypeOK
  <1>1. Init => SessionInv BY Start
  <1>2. SessionInv => TypeOK BY DEF SessionInv
  <1>3. QED BY <1>1, <1>2, SessionStep, PTL DEF Spec

\* A Live's Drop and session_restart's take: in every state a supervise task
\* that runs and was not told to stop belongs to the session that is live, being
\* swapped in or being taken out.
THEOREM NoOrphans == Spec => []NoOrphanStream
  <1>1. Init => SessionInv BY Start
  <1>2. SessionInv => NoOrphanStream BY DEF SessionInv
  <1>3. QED BY <1>1, <1>2, SessionStep, PTL DEF Spec

\* However sessions overlap, as long as nobody opens the workspace afresh, every
\* resume cursor is safe, and until a batch is overtaken between fetch_max and
\* forward_batch the pipe continues the store without a hole.
THEOREM Continuous ==
    ASSUME ~FreshReopen
    PROVE  Spec => [](SessionInv /\ StreamInv)
  <1>1. Init => SessionInv /\ StreamInv BY Start
  <1>2. SessionInv /\ StreamInv /\ [Next]_vars
            => (SessionInv /\ StreamInv)'
    BY SessionStep, StreamStep
  <1>3. QED BY <1>1, <1>2, PTL DEF Spec

\* Store.ingestBatch behind replaced, restarted and crashed sessions: the store
\* holds exactly the journal's events up to its lastSeq, and never sees a gap,
\* unless the workspace is opened again from the start, or a pump resumed at a
\* batch that supervise had raised last_seq for and not forwarded was quicker.
THEOREM NoHole ==
    ASSUME ~FreshReopen
    PROVE  Spec => []StoreIsPrefix
  <1>1. SessionInv /\ StreamInv => StoreIsPrefix BY DEF StreamInv, Whole, StoreIsPrefix
  <1>2. QED BY <1>1, Continuous, PTL

\* Live.last_seq, raised before its batch is forwarded: the cursor a restart
\* would resume from is one the extension holds, has coming, or ends a batch
\* that a running task will still forward, so nothing between is lost.
THEOREM ResumeLosesNothing ==
    ASSUME ~FreshReopen
    PROVE  Spec => []ResumeCovered
  <1>1. ASSUME SessionInv, StreamInv, NEW t \in Tasks, task[t] # "ended"
        PROVE  InHandOrOnTheWay(last_seq[t])
    <2>1. CASE Covers(lastSeq, out, last_seq[t])
      BY <2>1 DEF Covers, InHandOrOnTheWay
    <2>2. CASE Held(unsent, last_seq[t])
      BY <1>1, <2>2 DEF Held, SessionInv, HandShape, InHandOrOnTheWay
    <2>3. QED BY <1>1, <2>1, <2>2 DEF StreamInv, CursorsSafe, Safe
  <1>2. SessionInv /\ StreamInv => ResumeCovered
    BY <1>1 DEF ResumeCovered
  <1>3. QED BY <1>2, Continuous, PTL
=============================================================================
