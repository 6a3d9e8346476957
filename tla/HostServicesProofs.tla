------------------------- MODULE HostServicesProofs -------------------------
(***************************************************************************)
(* HostServices' invariants, for every set of scenarios: whatever a window *)
(* asks, however the stream is cut, whenever Core answers and whoever dies.*)
(***************************************************************************)
EXTENDS HostServices, SequenceLemmas, FiniteSetTheorems

Asks(s) == s.asks \cup {Refetch}
Ids(s)  == {Param(r, "id") : r \in Asks(s)}
Args(s) == {Argument(r) : r \in Asks(s)} \cup {None}

\* The leaves any document may come to have.
Leaves(s) == s.doc \cup {s.theirs} \cup {Param(r, "key") : r \in Asks(s)}

Tokens == [tok : {"length"}, n : 1..2, of : {None}]
            \cup [tok : {"end"}, n : {0}, of : {None}]
            \cup [tok : {"body"}, n : 1..2, of : Messages]

Windows(s) ==
    [asked : Seq(Asks(s)), promise : Seq(Outcomes), closed : BOOLEAN,
     heard : Seq(Nat), buffer : Seq(Tokens), contentLength : 1..2 \cup {NoLength},
     pendingAction : SUBSET Ids(s), activating : BOOLEAN]

WellFormed(s, w) ==
    /\ w \in Windows(s)
    /\ Len(w.promise) = Len(w.asked)
    /\ Len(w.asked) <= s.max

\* What was asked stays asked, under its number.
Keeps(w, v) ==
    /\ Len(w.asked) <= Len(v.asked)
    /\ \A i \in 1..Len(w.asked) : v.asked[i] = w.asked[i]

Stages == {"idle", "calling", "locating", "showing", "stopping", "opening",
           "read", "create", "fill", "rename", "written"} \cup Codes

JobRecs(s) == [id : Nat, at : Stages, call : Nat, doc : SUBSET Leaves(s), file : Nat]
CallRecs(s) == [by : Nat, call : DOMAIN Wanted, arg : Args(s),
                state : {"running", "error", "broken", "answered"}, left : BOOLEAN]
Disks(s) == [config : Nat, temp : Nat, text : Seq(SUBSET Leaves(s))]

-----------------------------------------------------------------------------
\* What may come of a request is an outcome.
LEMMA OutcomeFacts ==
    /\ Waiting \in Outcomes
    /\ \A c \in Codes : Err(c) \in Outcomes /\ Err(c) # Waiting
    /\ \A r \in Results : Ok(r) \in Outcomes /\ Ok(r) # Waiting
  BY DEF Outcomes, Waiting, Ok, Err

\* request() adds a promise behind the others and leaves those as they are.
LEMMA SentFacts ==
    ASSUME NEW s, NEW w, WellFormed(s, w), s.max \in Nat, Len(w.asked) < s.max,
           NEW r \in Asks(s)
    PROVE  /\ WellFormed(s, Sent(w, r))
           /\ Keeps(w, Sent(w, r))
           /\ Len(Sent(w, r).asked) = Len(w.asked) + 1
           /\ Sent(w, r).closed = w.closed /\ Sent(w, r).buffer = w.buffer
           /\ Sent(w, r).contentLength = w.contentLength
           /\ \A i \in 1..Len(w.promise) : Sent(w, r).promise[i] = w.promise[i]
           /\ Sent(w, r).promise[Len(w.promise) + 1]
                  = IF w.closed THEN Err("closed") ELSE Waiting
  <1> DEFINE v == Sent(w, r)
             p == IF w.closed THEN Err("closed") ELSE Waiting
  <1>1. /\ w.asked \in Seq(Asks(s)) /\ w.promise \in Seq(Outcomes)
        /\ w \in Windows(s)
    BY DEF WellFormed, Windows
  <1>2. p \in Outcomes
    BY OutcomeFacts DEF Codes
  <1>3. /\ v = [w EXCEPT !.asked = Append(w.asked, r), !.promise = Append(w.promise, p)]
        /\ v.asked = Append(w.asked, r) /\ v.promise = Append(w.promise, p)
    BY <1>1 DEF Sent, Windows
  <1> HIDE DEF v, p
  <1>4. /\ v.asked \in Seq(Asks(s)) /\ v.promise \in Seq(Outcomes)
        /\ Len(v.asked) = Len(w.asked) + 1 /\ Len(v.promise) = Len(w.promise) + 1
        /\ Len(w.asked) \in Nat
        /\ \A i \in 1..Len(w.asked) : v.asked[i] = w.asked[i]
        /\ \A i \in 1..Len(w.promise) : v.promise[i] = w.promise[i]
        /\ v.promise[Len(w.promise) + 1] = p
    BY <1>1, <1>2, <1>3, AppendFacts
  <1>5. /\ v \in Windows(s) /\ v.closed = w.closed /\ v.buffer = w.buffer
        /\ v.contentLength = w.contentLength
    BY <1>1, <1>3, <1>4 DEF Windows
  <1>6. WellFormed(s, v) /\ Keeps(w, v)
    BY <1>4, <1>5 DEF WellFormed, Keeps
  <1>7. QED BY <1>4, <1>5, <1>6 DEF v, p

\* onClose settles what waits and changes no request.
LEMMA ClosingFacts ==
    ASSUME NEW s, NEW w, WellFormed(s, w)
    PROVE  /\ WellFormed(s, Closing(w))
           /\ Closing(w).asked = w.asked
           /\ Closing(w).closed
  <1> DEFINE v == Closing(w)
             f == [i \in DOMAIN w.promise |-> IF w.promise[i] = Waiting THEN Err("closed")
                                                                       ELSE w.promise[i]]
  <1>1. /\ w \in Windows(s) /\ w.promise \in Seq(Outcomes)
        /\ DOMAIN w.promise = 1..Len(w.promise) /\ Len(w.promise) \in Nat
    BY DEF WellFormed, Windows
  <1>2. f \in Seq(Outcomes) /\ Len(f) = Len(w.promise)
    <2>1. \A i \in 1..Len(w.promise) : f[i] \in Outcomes
      BY <1>1, OutcomeFacts DEF Codes
    <2>2. f \in [1..Len(w.promise) -> Outcomes]
      BY <1>1, <2>1
    <2>3. QED BY <1>1, <2>2
  <1>3. v = [w EXCEPT !.closed = TRUE, !.promise = f, !.pendingAction = {},
                      !.activating = FALSE]
    BY DEF Closing
  <1> HIDE DEF v, f
  <1>4. /\ v \in Windows(s) /\ v.asked = w.asked /\ v.promise = f /\ v.closed
    BY <1>1, <1>2, <1>3 DEF Windows
  <1>5. QED BY <1>2, <1>4 DEF WellFormed, v

\* What a turn of the event loop may do to the window's promises besides the
\* one, n, it settles with p: the others stay, and what is asked meanwhile waits.
Turns(w, v, n, p) ==
    /\ Keeps(w, v)
    /\ v.closed = w.closed /\ v.buffer = w.buffer /\ v.contentLength = w.contentLength
    /\ Len(w.promise) <= Len(v.promise)
    /\ \A i \in 1..Len(w.promise) : v.promise[i] = w.promise[i] \/ (i = n /\ v.promise[i] = p)
    /\ \A i \in Len(w.promise) + 1..Len(v.promise) :
          v.promise[i] = IF w.closed THEN Err("closed") ELSE Waiting

\* A caller's finally clears its guard, and may fetch the list again.
LEMMA ReleasedFacts ==
    ASSUME NEW w, WellFormed(scn, w), scn.max \in Nat, NEW id \in 1..Len(w.asked),
           NEW n, NEW p
    PROVE  WellFormed(scn, Released(w, id)) /\ Turns(w, Released(w, id), n, p)
  <1> DEFINE v == Released(w, id)
  <1>1. /\ w \in Windows(scn) /\ Len(w.promise) = Len(w.asked) /\ Len(w.asked) <= scn.max
        /\ w.asked \in Seq(Asks(scn)) /\ w.promise \in Seq(Outcomes)
        /\ Len(w.asked) \in Nat
    BY DEF WellFormed, Windows
  <1>2. CASE w.asked[id].by = "models"
    <2>1. v = [w EXCEPT !.pendingAction = @ \ {w.asked[id].params.id}]
      BY <1>2 DEF Released
    <2>2. v \in Windows(scn) /\ v.asked = w.asked /\ v.promise = w.promise
          /\ v.closed = w.closed /\ v.buffer = w.buffer
          /\ v.contentLength = w.contentLength
      BY <1>1, <2>1 DEF Windows
    <2>3. QED BY <1>1, <2>2 DEF WellFormed, Turns, Keeps
  <1>3. CASE w.asked[id].by = "picker"
    <2> DEFINE free == [w EXCEPT !.activating = FALSE]
    <2>1. v = IF Len(w.asked) < scn.max /\ scn.ready THEN Sent(free, Refetch) ELSE free
      BY <1>3 DEF Released
    <2>2. /\ free \in Windows(scn) /\ free.asked = w.asked /\ free.promise = w.promise
          /\ free.closed = w.closed /\ free.buffer = w.buffer
          /\ free.contentLength = w.contentLength
      BY <1>1 DEF Windows
    <2> HIDE DEF free
    <2>3. WellFormed(scn, free) /\ Turns(w, free, n, p)
      BY <1>1, <2>2 DEF WellFormed, Turns, Keeps
    <2>4. CASE Len(w.asked) < scn.max /\ scn.ready
      <3> DEFINE u == Sent(free, Refetch)
      <3>1. Refetch \in Asks(scn)
        BY DEF Asks
      <3>2. /\ WellFormed(scn, u) /\ Keeps(free, u)
            /\ Len(u.asked) = Len(w.asked) + 1
            /\ u.closed = w.closed /\ u.buffer = w.buffer
            /\ u.contentLength = w.contentLength
            /\ \A i \in 1..Len(w.promise) : u.promise[i] = w.promise[i]
            /\ u.promise[Len(w.promise) + 1]
                  = IF w.closed THEN Err("closed") ELSE Waiting
        <4>1. Len(free.asked) < scn.max
          BY <2>2, <2>4
        <4>2. /\ WellFormed(scn, u) /\ Keeps(free, u)
              /\ Len(u.asked) = Len(free.asked) + 1
              /\ u.closed = free.closed /\ u.buffer = free.buffer
              /\ u.contentLength = free.contentLength
              /\ \A i \in 1..Len(free.promise) : u.promise[i] = free.promise[i]
              /\ u.promise[Len(free.promise) + 1]
                    = IF free.closed THEN Err("closed") ELSE Waiting
          BY <2>3, <3>1, <4>1, SentFacts
        <4>3. QED BY <2>2, <4>2
      <3>3. v = u
        BY <2>1, <2>4
      <3> HIDE DEF u, v
      <3>5. Len(u.promise) = Len(w.promise) + 1
        BY <1>1, <3>2 DEF WellFormed
      <3>6. Turns(w, u, n, p)
        BY <1>1, <2>2, <3>2, <3>5 DEF Turns, Keeps
      <3>7. QED BY <3>2, <3>3, <3>6 DEF v
    <2>5. CASE ~(Len(w.asked) < scn.max /\ scn.ready)
      BY <2>1, <2>3, <2>5
    <2>6. QED BY <2>4, <2>5
  <1>4. CASE w.asked[id].by \notin {"models", "picker"}
    <2>1. v = w BY <1>4 DEF Released
    <2>2. QED BY <1>1, <2>1 DEF WellFormed, Turns, Keeps
  <1>5. QED BY <1>2, <1>3, <1>4

\* dispatch: a response settles its own promise and no other, a notification none.
LEMMA DispatchFacts ==
    ASSUME NEW w, WellFormed(scn, w), scn.max \in Nat, NEW m \in Messages
    PROVE  /\ WellFormed(scn, DispatchOne(w, m))
           /\ Turns(w, DispatchOne(w, m), IF m.kind = "response" THEN m.id ELSE 0, m.body)
  <1> DEFINE v == DispatchOne(w, m)
             n == IF m.kind = "response" THEN m.id ELSE 0
  <1>1. /\ w \in Windows(scn) /\ Len(w.promise) = Len(w.asked) /\ Len(w.asked) <= scn.max
        /\ w.asked \in Seq(Asks(scn)) /\ w.promise \in Seq(Outcomes)
        /\ Len(w.asked) \in Nat /\ w.heard \in Seq(Nat)
    BY DEF WellFormed, Windows
  <1>2. CASE v = w
    BY <1>1, <1>2 DEF WellFormed, Turns, Keeps
  <1>3. CASE m.kind = "note" /\ ~w.closed
    <2>1. v = [w EXCEPT !.heard = Append(@, m.id)]
      BY <1>3 DEF DispatchOne
    <2>2. m.id \in Nat
      BY DEF Messages
    <2> DEFINE h == Append(w.heard, m.id)
    <2>3. h \in Seq(Nat) /\ v = [w EXCEPT !.heard = h]
      BY <1>1, <2>1, <2>2, AppendFacts
    <2> HIDE DEF h, v
    <2>5. /\ v \in Windows(scn) /\ v.asked = w.asked /\ v.promise = w.promise
          /\ v.closed = w.closed /\ v.buffer = w.buffer
          /\ v.contentLength = w.contentLength
      BY <1>1, <2>3 DEF Windows
    <2>6. QED BY <1>1, <2>5 DEF WellFormed, Turns, Keeps, v
  <1>4. CASE m.kind # "note" /\ m.id \in DOMAIN w.promise /\ w.promise[m.id] = Waiting
    <2> DEFINE u == [w EXCEPT !.promise[m.id] = m.body]
    <2>1. v = Released(u, m.id)
      BY <1>4 DEF DispatchOne
    <2>2. m.kind = "response" /\ m.body \in Outcomes /\ m.id \in 1..Len(w.promise)
      BY <1>1, <1>4 DEF Messages
    <2>3. /\ u \in Windows(scn) /\ u.asked = w.asked
          /\ u.promise = [w.promise EXCEPT ![m.id] = m.body]
          /\ u.closed = w.closed /\ u.buffer = w.buffer
          /\ u.contentLength = w.contentLength
      <3> DEFINE q == [w.promise EXCEPT ![m.id] = m.body]
      <3>1. q \in Seq(Outcomes)
        BY <1>1, <2>2
      <3>2. u = [w EXCEPT !.promise = q]
        BY <1>1 DEF Windows
      <3> HIDE DEF u, q
      <3>3. u \in Windows(scn) /\ u.asked = w.asked /\ u.promise = q
            /\ u.closed = w.closed /\ u.buffer = w.buffer
            /\ u.contentLength = w.contentLength
        BY <1>1, <3>1, <3>2 DEF Windows
      <3>4. QED BY <3>3 DEF q
    <2> HIDE DEF u
    <2>4. Len(u.promise) = Len(w.promise)
      BY <1>1, <2>3
    <2>5. WellFormed(scn, u)
      BY <1>1, <2>3, <2>4 DEF WellFormed
    <2>6. WellFormed(scn, v) /\ Turns(u, v, m.id, m.body)
      BY <1>1, <2>1, <2>2, <2>3, <2>5, ReleasedFacts, SMTT(30)
    <2> HIDE DEF v
    <2>7. Turns(w, v, m.id, m.body)
      BY <1>1, <2>3, <2>4, <2>6 DEF Turns, Keeps
    <2>8. QED BY <2>2, <2>6, <2>7 DEF v
  <1>5. QED
    BY <1>2, <1>3, <1>4 DEF DispatchOne

-----------------------------------------------------------------------------
\* The shape of the whole state.
WindowShape == /\ scn \in Scenarios /\ WellFormed(scn, win)
               /\ stdout \in Seq(Tokens)

HostShape ==
    /\ hostUp \in BOOLEAN /\ live \in Lives /\ noted \in Nat
    /\ read \in 0..Len(win.asked)
    /\ jobs \in SUBSET JobRecs(scn)
    /\ \A job \in jobs : job.id \in 1..read
    /\ \A j, k \in jobs : j = k
    /\ ~hostUp => jobs = {}
    /\ out \in Seq(Messages) /\ half \in Messages \cup {None}
    /\ calls \in Seq(CallRecs(scn))

\* The calls Core is at work on and the host waits for are those of the handler.
Awaiting == {"calling", "locating", "showing"}
Open(cs, c) == cs[c].state = "running" /\ ~cs[c].left
Waited ==
    /\ \A job \in jobs : job.at \in Awaiting =>
          job.call \in 1..Len(calls) /\ calls[job.call].by = job.id /\ Open(calls, job.call)
    /\ \A c \in 1..Len(calls) : Open(calls, c) =>
          \E job \in jobs : job.at \in Awaiting /\ job.call = c

\* A response says that its request was read and has no handler any more: it is
\* never given twice.
Given(m, r, js) == m.kind = "response" => m.id \in 1..r /\ \A j \in js : j.id # m.id
Answers ==
    /\ \A i \in 1..Len(out) : Given(out[i], read, jobs)
    /\ half # None => Given(half, read, jobs)
    /\ \A i \in 1..Len(stdout) :
          stdout[i].of \in Messages => Given(stdout[i].of, read, jobs)
    /\ \A i \in 1..Len(win.buffer) :
          win.buffer[i].of \in Messages => Given(win.buffer[i].of, read, jobs)

\* As long as the host lives, what it has not read or is at work on waits.
Due(i) == i > read \/ \E job \in jobs : job.id = i
DueWaits == hostUp => \A i \in 1..Len(win.promise) : Due(i) => win.promise[i] = Waiting

\* config.toml is there, and the temporary name leads to another file.
OnDisk(d) == d.config \in 1..Len(d.text) /\ d.temp \in 0..Len(d.text) /\ d.temp # d.config
DiskShape ==
    /\ disk \in Disks(scn) /\ OnDisk(disk) /\ other \in JobRecs(scn)
    /\ kept \in SUBSET Leaves(scn) /\ met \in BOOLEAN

\* What WellFormed says of the parts.
LEMMA WindowFacts ==
    ASSUME WindowShape
    PROVE  /\ scn.max \in Nat /\ scn.notes \in Nat
           /\ win \in Windows(scn)
           /\ win.asked \in Seq(Asks(scn)) /\ Len(win.asked) \in Nat
           /\ win.promise \in Seq(Outcomes) /\ Len(win.promise) = Len(win.asked)
           /\ win.closed \in BOOLEAN
           /\ win.buffer \in Seq(Tokens) /\ Len(win.buffer) \in Nat
           /\ win.contentLength \in 1..2 \cup {NoLength}
  <1>1. scn.max \in Nat /\ scn.notes \in Nat
    BY HostConstants DEF WindowShape
  <1>2. QED BY <1>1 DEF WindowShape, WellFormed, Windows

\* A request goes out: the window's other promises stay as they are.
LEMMA AskFacts ==
    ASSUME WindowShape, Ask
    PROVE  WellFormed(scn, win') /\ Turns(win, win', 0, Waiting)
  <1>1. PICK r \in scn.asks :
           /\ Len(win.asked) < scn.max
           /\ win' = LET w == Sent(win, r)
                     IN IF w.closed THEN w
                        ELSE CASE r.by = "models" ->
                                    [w EXCEPT !.pendingAction = @ \cup {r.params.id}]
                               [] r.by = "picker" -> [w EXCEPT !.activating = TRUE]
                               [] OTHER -> w
    BY Zenon DEF Ask
  <1> DEFINE w == Sent(win, r)
  <1>2. r \in Asks(scn) BY DEF Asks
  <1>3. /\ WellFormed(scn, w) /\ Keeps(win, w)
        /\ Len(w.asked) = Len(win.asked) + 1
        /\ w.closed = win.closed /\ w.buffer = win.buffer
        /\ w.contentLength = win.contentLength
        /\ \A i \in 1..Len(win.promise) : w.promise[i] = win.promise[i]
        /\ w.promise[Len(win.promise) + 1] = IF win.closed THEN Err("closed") ELSE Waiting
    BY <1>1, <1>2, WindowFacts, SentFacts DEF WindowShape
  <1>4. win' = IF w.closed THEN w
               ELSE CASE r.by = "models" ->
                           [w EXCEPT !.pendingAction = @ \cup {r.params.id}]
                      [] r.by = "picker" -> [w EXCEPT !.activating = TRUE]
                      [] OTHER -> w
    BY <1>1
  <1> HIDE DEF w
  <1>5. Len(w.promise) = Len(win.promise) + 1
    BY <1>3, WindowFacts DEF WellFormed
  <1>6. Turns(win, w, 0, Waiting)
    BY <1>3, <1>5, WindowFacts DEF Turns
  <1>7. ASSUME NEW v, v \in Windows(scn), v.asked = w.asked, v.promise = w.promise,
               v.closed = w.closed, v.buffer = w.buffer,
               v.contentLength = w.contentLength
        PROVE  WellFormed(scn, v) /\ Turns(win, v, 0, Waiting)
    BY <1>3, <1>6, <1>7 DEF WellFormed, Turns, Keeps
  <1>8. w \in Windows(scn)
    BY <1>3 DEF WellFormed
  <1>9. CASE win' = w
    BY <1>3, <1>6, <1>9
  <1>10. CASE win' = [w EXCEPT !.pendingAction = @ \cup {r.params.id}]
    <2>1. r.params.id \in Ids(scn)
      BY <1>2 DEF Ids, Param
    <2>2. /\ win' \in Windows(scn) /\ win'.asked = w.asked /\ win'.promise = w.promise
          /\ win'.closed = w.closed /\ win'.buffer = w.buffer
          /\ win'.contentLength = w.contentLength
      BY <1>8, <1>10, <2>1 DEF Windows
    <2>3. QED BY <1>7, <2>2
  <1>11. CASE win' = [w EXCEPT !.activating = TRUE]
    <2>1. /\ win' \in Windows(scn) /\ win'.asked = w.asked /\ win'.promise = w.promise
          /\ win'.closed = w.closed /\ win'.buffer = w.buffer
          /\ win'.contentLength = w.contentLength
      BY <1>8, <1>11 DEF Windows
    <2>2. QED BY <1>7, <2>1
  <1>12. QED BY <1>4, <1>9, <1>10, <1>11

\* The part of a buffer that is not parsed yet.
LEMMA RestFacts ==
    ASSUME NEW S, NEW q \in Seq(S), NEW e \in 0..Len(q)
    PROVE  /\ SubSeq(q, e + 1, Len(q)) \in Seq(S)
           /\ Len(SubSeq(q, e + 1, Len(q))) = Len(q) - e
           /\ \A i \in 1..Len(q) - e : SubSeq(q, e + 1, Len(q))[i] = q[e + i]
  OBVIOUS

\* A header is parsed, unless it has no length.
LEMMA HeaderFacts ==
    ASSUME WindowShape, ParsesHeader
    PROVE  /\ WellFormed(scn, win') /\ win'.asked = win.asked
           /\ \E e \in 1..Len(win.buffer) :
                /\ win.buffer[e].tok = "end"
                /\ \A k \in 1..e - 1 : win.buffer[k].tok # "end"
                /\ \/ /\ \A k \in 1..e - 1 : win.buffer[k].tok # "length"
                      /\ win' = Closing(win)
                   \/ /\ win'.promise = win.promise /\ win'.closed = win.closed
                      /\ win'.buffer = SubSeq(win.buffer, e + 1, Len(win.buffer))
                      /\ \E k \in 1..e - 1 : /\ win.buffer[k].tok = "length"
                                             /\ win'.contentLength = win.buffer[k].n
  <1>1. PICK e \in Ends :
          /\ \A k \in Ends : e <= k
          /\ LET lengths == {k \in 1..(e - 1) : win.buffer[k].tok = "length"}
             IN win' = IF lengths = {} THEN Closing(win)
                       ELSE [win EXCEPT
                               !.contentLength =
                                    win.buffer[CHOOSE k \in lengths : TRUE].n,
                               !.buffer = SubSeq(@, e + 1, Len(@))]
    BY Zenon DEF ParsesHeader
  <1> DEFINE lengths == {k \in 1..(e - 1) : win.buffer[k].tok = "length"}
  <1>2. /\ e \in 1..Len(win.buffer) /\ win.buffer[e].tok = "end"
        /\ \A k \in 1..e - 1 : win.buffer[k].tok # "end"
    BY <1>1, WindowFacts DEF Ends
  <1>3. CASE lengths = {}
    <2>1. win' = Closing(win)
      BY <1>1, <1>3
    <2>2. WellFormed(scn, win') /\ win'.asked = win.asked
      BY <2>1, ClosingFacts DEF WindowShape
    <2>3. QED BY <1>2, <1>3, <2>1, <2>2
  <1>4. CASE lengths # {}
    <2> DEFINE k == CHOOSE k \in lengths : TRUE
               b == SubSeq(win.buffer, e + 1, Len(win.buffer))
    <2>1. k \in 1..e - 1 /\ win.buffer[k].tok = "length"
      BY <1>4
    <2>2. win' = [win EXCEPT !.contentLength = win.buffer[k].n, !.buffer = b]
      BY <1>1, <1>4, WindowFacts DEF Windows
    <2>3. b \in Seq(Tokens)
      BY <1>2, WindowFacts, RestFacts
    <2> HIDE DEF k, b
    <2>4. win.buffer[k].n \in 1..2
      <3>1. win.buffer[k] \in Tokens
        BY <1>2, <2>1, WindowFacts
      <3>2. QED BY <2>1, <3>1 DEF Tokens
    <2>5. /\ win' \in Windows(scn) /\ win'.asked = win.asked /\ win'.promise = win.promise
          /\ win'.closed = win.closed /\ win'.buffer = b
          /\ win'.contentLength = win.buffer[k].n
      BY <2>2, <2>3, <2>4, WindowFacts DEF Windows
    <2>6. WellFormed(scn, win')
      BY <2>5 DEF WindowShape, WellFormed
    <2>7. QED BY <1>2, <2>1, <2>5, <2>6 DEF b
  <1>5. QED BY <1>3, <1>4

\* A body is parsed: the message it is, if it is one, settles its own promise.
LEMMA BodyFacts ==
    ASSUME WindowShape, ParsesBody
    PROVE  /\ WellFormed(scn, win')
           /\ win.contentLength \in 1..2 /\ win.contentLength <= Len(win.buffer)
           /\ Keeps(win, win') /\ win'.closed = win.closed
           /\ win'.buffer = RestOfBuffer /\ win'.contentLength = NoLength
           /\ Len(win.promise) <= Len(win'.promise)
           /\ \A i \in Len(win.promise) + 1..Len(win'.promise) :
                 win'.promise[i] = IF win.closed THEN Err("closed") ELSE Waiting
           /\ \A i \in 1..Len(win.promise) :
                 \/ win'.promise[i] = win.promise[i]
                 \/ \E k \in 1..Len(win.buffer) :
                       /\ win.buffer[k].of \in Messages
                       /\ win.buffer[k].of.kind = "response"
                       /\ win.buffer[k].of.id = i
                       /\ win.buffer[k].of.body = win'.promise[i]
  <1> DEFINE rest == [win EXCEPT !.buffer = RestOfBuffer, !.contentLength = NoLength]
             body == SubSeq(win.buffer, 1, win.contentLength)
  <1>1. \/ Parsed(body) = {} /\ win' = rest
        \/ \E m \in Parsed(body) : win' = DispatchOne(rest, m)
    BY Zenon DEF ParsesBody
  <1>2. win.contentLength \in 1..2 /\ win.contentLength <= Len(win.buffer)
    BY WindowFacts DEF ParsesBody, BodyDue
  <1>3. RestOfBuffer \in Seq(Tokens)
    BY <1>2, WindowFacts, RestFacts DEF RestOfBuffer
  <1>4. /\ rest \in Windows(scn) /\ rest.asked = win.asked /\ rest.promise = win.promise
        /\ rest.closed = win.closed /\ rest.buffer = RestOfBuffer
        /\ rest.contentLength = NoLength
    BY <1>3, WindowFacts DEF Windows
  <1>5. WellFormed(scn, rest)
    BY <1>4 DEF WindowShape, WellFormed
  <1>6. \A k \in DOMAIN body : /\ k \in 1..Len(win.buffer) /\ body[k] = win.buffer[k]
                               /\ body[k] \in Tokens
    BY <1>2, WindowFacts
  <1> HIDE DEF rest, body
  <1>7. CASE win' = rest
    BY <1>2, <1>4, <1>5, <1>7, WindowFacts DEF Keeps
  <1>8. ASSUME NEW m \in Parsed(body), win' = DispatchOne(rest, m)
        PROVE  WellFormed(scn, win')
               /\ Turns(rest, win', IF m.kind = "response" THEN m.id ELSE 0, m.body)
               /\ \E k \in 1..Len(win.buffer) : win.buffer[k].of = m /\ m \in Messages
    <2>1. PICK k \in DOMAIN body : body[k].of = m /\ m # None
      BY DEF Parsed
    <2>2. m \in Messages
      BY <1>6, <2>1 DEF Tokens
    <2>3. QED BY <1>5, <1>6, <1>8, <2>1, <2>2, WindowFacts, DispatchFacts
  <1>9. CASE \E m \in Parsed(body) : win' = DispatchOne(rest, m)
    <2>1. PICK m \in Parsed(body) : win' = DispatchOne(rest, m)
      BY <1>9
    <2>2. PICK k \in 1..Len(win.buffer) : win.buffer[k].of = m /\ m \in Messages
      BY <1>8, <2>1
    <2>3. /\ WellFormed(scn, win')
          /\ Turns(rest, win', IF m.kind = "response" THEN m.id ELSE 0, m.body)
      BY <1>8, <2>1
    <2>4. Keeps(win, win')
      BY <1>4, <2>3 DEF Turns, Keeps
    <2>5. QED BY <1>2, <1>4, <2>2, <2>3, <2>4, WindowFacts, SMTT(30) DEF Turns
  <1>10. QED BY <1>1, <1>7, <1>9

-----------------------------------------------------------------------------
\* What a step of the host's handlers does to requests and responses.
HostMoves ==
    /\ HostShape' /\ Waited'
    /\ read <= read'
    /\ \A j \in jobs' : j.id > read \/ \E k \in jobs : k.id = j.id
    /\ Len(out) <= Len(out')
    /\ \A i \in 1..Len(out') : \/ i \in 1..Len(out) /\ out'[i] = out[i]
                               \/ Given(out'[i], read', jobs')

\* A handler that is at work is the only one.
LEMMA OnlyHandler ==
    ASSUME HostShape, NEW job \in jobs
    PROVE  /\ jobs = {job} /\ jobs \ {job} = {} /\ hostUp
           /\ \A k : (jobs \ {job}) \cup {k} = {k}
           /\ job \in JobRecs(scn) /\ job.id \in 1..read /\ job.id \in Nat
  BY DEF HostShape

\* Whatever the step is, it moves the host if it keeps to one handler, whose
\* request was read last or had one before, and answers nobody else.
LEMMA Moves ==
    ASSUME WindowShape, HostShape, Waited',
           UNCHANGED <<scn, win, hostUp, half>>,
           read' \in read..Len(win.asked), live' \in Lives, noted' \in Nat,
           calls' \in Seq(CallRecs(scn)),
           \/ jobs' = {}
           \/ \E k \in JobRecs(scn) :
                 /\ jobs' = {k} /\ hostUp
                 /\ \/ k.id = read + 1 /\ read' = read + 1
                    \/ \E j \in jobs : k.id = j.id,
           \/ out' = out
           \/ \E m \in Messages : Given(m, read', jobs') /\ out' = Append(out, m)
           \/ \E m, n \in Messages : /\ Given(m, read', jobs') /\ Given(n, read', jobs')
                                     /\ out' = out \o <<m, n>>
    PROVE  HostMoves
  <1>1. read \in Nat /\ read' \in Nat /\ read <= read' /\ read' \in 0..Len(win'.asked)
    BY WindowFacts DEF HostShape
  <1>2. /\ jobs' \in SUBSET JobRecs(scn') /\ \A j, k \in jobs' : j = k
        /\ ~hostUp' => jobs' = {}
    OBVIOUS
  <1>3. /\ \A j \in jobs' : j.id \in 1..read'
        /\ \A j \in jobs' : j.id > read \/ \E k \in jobs : k.id = j.id
    <2>1. CASE jobs' = {}
      BY <2>1
    <2>2. ASSUME NEW k \in JobRecs(scn), jobs' = {k},
                 \/ k.id = read + 1 /\ read' = read + 1
                 \/ \E j \in jobs : k.id = j.id
          PROVE  k.id \in 1..read' /\ (k.id > read \/ \E j \in jobs : j.id = k.id)
      BY <1>1, <2>2 DEF HostShape
    <2>3. QED BY <2>1, <2>2
  <1>4. /\ out' \in Seq(Messages) /\ Len(out) <= Len(out')
        /\ \A i \in 1..Len(out') : \/ i \in 1..Len(out) /\ out'[i] = out[i]
                                   \/ Given(out'[i], read', jobs')
    <2>0. out \in Seq(Messages) /\ Len(out) \in Nat
      BY DEF HostShape
    <2>1. CASE out' = out
      BY <2>0, <2>1
    <2>2. CASE \E m \in Messages : Given(m, read', jobs') /\ out' = Append(out, m)
      BY <2>0, <2>2, AppendFacts
    <2>3. CASE \E m, n \in Messages : /\ Given(m, read', jobs') /\ Given(n, read', jobs')
                                      /\ out' = out \o <<m, n>>
      <3>1. PICK m \in Messages, n \in Messages :
               /\ Given(m, read', jobs') /\ Given(n, read', jobs')
               /\ out' = out \o <<m, n>>
        BY <2>3
      <3>2. /\ out' \in Seq(Messages) /\ Len(out') = Len(out) + 2
            /\ \A i \in 1..Len(out) : out'[i] = out[i]
            /\ out'[Len(out) + 1] = m /\ out'[Len(out) + 2] = n
        BY <2>0, <3>1
      <3>3. QED BY <2>0, <3>1, <3>2
    <2>4. QED BY <2>1, <2>2, <2>3
  <1>5. HostShape'
    BY <1>1, <1>2, <1>3, <1>4 DEF HostShape
  <1>6. QED BY <1>1, <1>3, <1>4, <1>5 DEF HostMoves

\* Without a handler that waits for Core the host waits for no call, and the
\* other way round.
LEMMA NothingOpen ==
    /\ Waited /\ (\A job \in jobs : job.at \notin Awaiting)
          => \A c \in 1..Len(calls) : ~Open(calls, c)
    /\ (\A c \in 1..Len(calls') : ~Open(calls', c))
          /\ (\A job \in jobs' : job.at \notin Awaiting) => Waited'
  BY DEF Waited

\* A call that is made is the only one the host waits for.
LEMMA CallMade ==
    ASSUME HostShape, Waited, \A job \in jobs : job.at \notin Awaiting,
           NEW id \in Nat, NEW call \in DOMAIN Wanted, NEW arg \in Args(scn),
           Calling(id, call, arg), NEW k, jobs' = {k}, k.at \in Awaiting, k.id = id,
           k.call = Len(calls) + 1
    PROVE  calls' \in Seq(CallRecs(scn)) /\ Waited'
  <1> DEFINE c == [by |-> id, call |-> call, arg |-> arg, state |-> "running",
                   left |-> FALSE]
  <1>1. c \in CallRecs(scn) /\ calls' = Append(calls, c)
    BY DEF Calling, CallRecs
  <1>2. c.by = id /\ c.state = "running" /\ ~c.left
    OBVIOUS
  <1> HIDE DEF c
  <1>3. /\ calls' \in Seq(CallRecs(scn)) /\ Len(calls') = Len(calls) + 1
        /\ Len(calls) \in Nat
        /\ \A i \in 1..Len(calls) : calls'[i] = calls[i]
        /\ calls'[Len(calls) + 1] = c
    BY <1>1, AppendFacts DEF HostShape
  <1>4. \A i \in 1..Len(calls) : ~Open(calls, i)
    BY NothingOpen
  <1>5. QED BY <1>2, <1>3, <1>4 DEF Waited, Open

\* The records of the handlers that are started.
LEMMA JobFacts ==
    ASSUME NEW id \in Nat, NEW at \in Stages
    PROVE  Job(id, at) \in JobRecs(scn) /\ Job(id, at).id = id /\ Job(id, at).at = at
  BY DEF Job, JobRecs

\* A handler takes a call.
LEMMA CalledFacts ==
    ASSUME NEW j \in JobRecs(scn), NEW c \in Nat
    PROVE  /\ [j EXCEPT !.call = c] \in JobRecs(scn)
           /\ [j EXCEPT !.call = c].id = j.id /\ [j EXCEPT !.call = c].at = j.at
           /\ [j EXCEPT !.call = c].call = c
  BY DEF JobRecs

\* A handler goes on to its next stage.
LEMMA StageFacts ==
    ASSUME NEW j \in JobRecs(scn), NEW at \in Stages
    PROVE  /\ [j EXCEPT !.at = at] \in JobRecs(scn)
           /\ [j EXCEPT !.at = at].id = j.id /\ [j EXCEPT !.at = at].at = at
  BY DEF JobRecs

\* A notification and a response are messages.
LEMMA MessageFacts ==
    /\ noted \in Nat => Emits \in Messages /\ Emits.kind = "note"
    /\ \A id \in Nat, body \in Outcomes : /\ Response(id, body) \in Messages
                                          /\ Response(id, body).kind = "response"
                                          /\ Response(id, body).id = id
  BY DEF Emits, Notification, Response, Messages

\* handle() takes the next request: refused, answered at once, or with a handler
\* of its own.
LEMMA TakesMoves ==
    ASSUME WindowShape, HostShape, Waited, HostTakes
    PROVE  HostMoves
  <1> DEFINE id == read + 1
             r  == win.asked[id]
  <1>1. /\ hostUp /\ jobs = {} /\ id \in 1..Len(win.asked) /\ id \in Nat /\ id = read + 1
        /\ read' = read + 1 /\ read' \in read..Len(win.asked)
        /\ UNCHANGED <<scn, win, hostUp, half>>
    BY WindowFacts DEF HostTakes, MayTake, HostShape
  <1>2. \/ Refusal(r) = {} /\ Dispatch(r, id)
        \/ /\ Refusal(r) # {}
           /\ out' = Append(out, Response(id, Err(CHOOSE c \in Refusal(r) : TRUE)))
           /\ UNCHANGED <<calls, jobs, live, noted>>
    BY Zenon DEF HostTakes
  <1>3. r \in Asks(scn) /\ Argument(r) \in Args(scn) /\ None \in Args(scn)
    BY <1>1, WindowFacts DEF Args
  <1> HIDE DEF r, id
  <1>4. /\ Waited /\ \A job \in jobs : job.at \notin Awaiting
        /\ calls \in Seq(CallRecs(scn)) /\ Len(calls) \in Nat /\ noted \in Nat
        /\ live \in Lives
    BY <1>1 DEF HostShape
  <1>5. UNCHANGED calls /\ (\A k \in jobs' : k.at \notin Awaiting) => Waited'
    <2>1. \A c \in 1..Len(calls) : ~Open(calls, c)
      BY <1>4, NothingOpen
    <2> SUFFICES ASSUME UNCHANGED calls, \A k \in jobs' : k.at \notin Awaiting
                 PROVE  Waited'
      OBVIOUS
    <2>2. \A c \in 1..Len(calls') : ~Open(calls', c)
      BY <2>1
    <2>3. QED BY <2>2, NothingOpen
  <1>6. CASE Refusal(r) # {}
    <2>1. (CHOOSE c \in Refusal(r) : TRUE) \in Codes
      <3>1. Refusal(r) \subseteq Codes
        BY DEF Refusal, Codes
      <3>2. QED BY <1>6, <3>1
    <2> DEFINE m == Response(id, Err(CHOOSE c \in Refusal(r) : TRUE))
    <2>2. m \in Messages /\ m.id = id
      BY <1>1, <2>1, OutcomeFacts, MessageFacts
    <2> HIDE DEF m
    <2>3. out' = Append(out, m) /\ UNCHANGED <<calls, jobs, live, noted>>
      BY <1>2, <1>6 DEF m
    <2>4. Waited' /\ Given(m, read', jobs') /\ jobs' = {}
      BY <1>1, <1>5, <2>2, <2>3 DEF Given
    <2>5. QED BY <1>1, <1>4, <2>2, <2>3, <2>4, Moves
  <1>7. CASE Refusal(r) = {}
    <2>0. Dispatch(r, id) BY <1>2, <1>7
    <2>1. CASE /\ r.method \in DOMAIN Forwards
               /\ Calling(id, Forwards[r.method].call, Argument(r))
               /\ jobs' = jobs \cup {[Job(id, "calling") EXCEPT !.call = Len(calls) + 1]}
               /\ UNCHANGED <<live, out, noted>>
      <3> DEFINE k == [Job(id, "calling") EXCEPT !.call = Len(calls) + 1]
      <3>1. /\ k \in JobRecs(scn) /\ k.id = id /\ k.at = "calling"
            /\ k.call = Len(calls) + 1
        <4> DEFINE j == Job(id, "calling")
        <4>1. j \in JobRecs(scn) /\ j.id = id /\ j.at = "calling"
          BY <1>1, JobFacts DEF Stages
        <4>2. Len(calls) + 1 \in Nat BY <1>4
        <4> HIDE DEF j
        <4>3. QED BY <4>1, <4>2, CalledFacts DEF j
      <3> HIDE DEF k
      <3>2. jobs' = {k}
        BY <1>1, <2>1 DEF k
      <3>3. calls' \in Seq(CallRecs(scn)) /\ Waited'
        BY <1>1, <1>3, <1>4, <2>1, <3>1, <3>2, CallMade, EveryCallIsWanted DEF Awaiting
      <3>4. QED BY <1>1, <1>4, <2>1, <3>1, <3>2, <3>3, Moves
    <2>2. CASE /\ r.method \in {"session/status", "about/info"}
               /\ out' = Append(out, Response(id, Ok(
                             IF r.method = "about/info" THEN "About"
                             ELSE IF live = "none" THEN "null" ELSE "SessionInfo")))
               /\ UNCHANGED <<calls, jobs, live, noted>>
      <3> DEFINE what == IF r.method = "about/info" THEN "About"
                         ELSE IF live = "none" THEN "null" ELSE "SessionInfo"
                 m == Response(id, Ok(what))
      <3>1. what \in Results
        BY DEF Results
      <3> HIDE DEF what
      <3>2. m \in Messages /\ m.id = id
        BY <1>1, <3>1, OutcomeFacts, MessageFacts
      <3>3. out' = Append(out, m)
        BY <2>2 DEF what
      <3> HIDE DEF m
      <3>4. Waited' /\ Given(m, read', jobs') /\ jobs' = {}
        BY <1>1, <1>5, <2>2, <3>2 DEF Given
      <3>5. QED BY <1>1, <1>4, <2>2, <3>2, <3>3, <3>4, Moves
    <2>3. CASE /\ live' = "none"
               /\ out' = out \o << Emits, Response(id, Ok("null")) >>
               /\ noted' = noted + 1
               /\ UNCHANGED <<calls, jobs>>
      <3> DEFINE m == Response(id, Ok("null"))
      <3>1. "null" \in Results
        BY DEF Results
      <3>2. m \in Messages /\ m.id = id /\ Emits \in Messages /\ Emits.kind = "note"
        BY <1>1, <1>4, <3>1, OutcomeFacts, MessageFacts
      <3> HIDE DEF m
      <3>3. out' = out \o <<Emits, m>>
        BY <2>3 DEF m
      <3>4. /\ Waited' /\ Given(m, read', jobs') /\ Given(Emits, read', jobs') /\ jobs' = {}
            /\ live' \in Lives /\ noted' \in Nat
        BY <1>1, <1>4, <1>5, <2>3, <3>2 DEF Given, Lives
      <3>5. QED BY <1>1, <1>4, <2>3, <3>2, <3>3, <3>4, Moves
    <2>4. CASE /\ live' = "none"
               /\ jobs' = jobs \cup {Job(id, "stopping")}
               /\ UNCHANGED <<calls, out, noted>>
      <3>1. /\ Job(id, "stopping") \in JobRecs(scn) /\ jobs' = {Job(id, "stopping")}
            /\ Job(id, "stopping").id = id /\ Job(id, "stopping").at = "stopping"
        <4>1. /\ Job(id, "stopping") \in JobRecs(scn)
              /\ Job(id, "stopping").id = id /\ Job(id, "stopping").at = "stopping"
          BY <1>1, JobFacts DEF Stages
        <4>2. QED BY <1>1, <2>4, <4>1
      <3>2. Waited' /\ live' \in Lives
        BY <1>5, <2>4, <3>1 DEF Awaiting, Lives
      <3>3. QED BY <1>1, <1>4, <2>4, <3>1, <3>2, Moves
    <2>5. CASE /\ jobs' = jobs \cup {Job(id, "opening")}
               /\ out' = Append(out, Emits)
               /\ noted' = noted + 1
               /\ UNCHANGED <<calls, live>>
      <3>1. /\ Job(id, "opening") \in JobRecs(scn) /\ jobs' = {Job(id, "opening")}
            /\ Job(id, "opening").id = id /\ Job(id, "opening").at = "opening"
            /\ Emits \in Messages /\ Given(Emits, read', jobs')
        <4>1. /\ Job(id, "opening") \in JobRecs(scn)
              /\ Job(id, "opening").id = id /\ Job(id, "opening").at = "opening"
          BY <1>1, JobFacts DEF Stages
        <4>2. Emits \in Messages /\ Emits.kind = "note"
          BY <1>4, MessageFacts
        <4>3. QED BY <1>1, <2>5, <4>1, <4>2 DEF Given
      <3>2. Waited' /\ noted' \in Nat
        BY <1>4, <1>5, <2>5, <3>1 DEF Awaiting
      <3>3. QED BY <1>1, <1>4, <2>5, <3>1, <3>2, Moves
    <2>6. CASE /\ Calling(id, "WorkspaceStatus", None)
               /\ jobs' = jobs \cup {[Job(id, "locating") EXCEPT !.call = Len(calls) + 1]}
               /\ UNCHANGED <<live, out, noted>>
      <3> DEFINE k == [Job(id, "locating") EXCEPT !.call = Len(calls) + 1]
      <3>1. /\ k \in JobRecs(scn) /\ k.id = id /\ k.at = "locating"
            /\ k.call = Len(calls) + 1
        <4> DEFINE j == Job(id, "locating")
        <4>1. j \in JobRecs(scn) /\ j.id = id /\ j.at = "locating"
          BY <1>1, JobFacts DEF Stages
        <4>2. Len(calls) + 1 \in Nat BY <1>4
        <4> HIDE DEF j
        <4>3. QED BY <4>1, <4>2, CalledFacts DEF j
      <3> HIDE DEF k
      <3>2. jobs' = {k}
        BY <1>1, <2>6 DEF k
      <3>3. calls' \in Seq(CallRecs(scn)) /\ Waited'
        BY <1>1, <1>3, <1>4, <2>6, <3>1, <3>2, CallMade, EveryCallIsWanted DEF Awaiting
      <3>4. QED BY <1>1, <1>4, <2>6, <3>1, <3>2, <3>3, Moves
    <2>7. CASE /\ jobs' = jobs \cup {Job(id, "read")}
               /\ UNCHANGED <<calls, live, out, noted>>
      <3>1. /\ Job(id, "read") \in JobRecs(scn) /\ jobs' = {Job(id, "read")}
            /\ Job(id, "read").id = id /\ Job(id, "read").at = "read"
        <4>1. /\ Job(id, "read") \in JobRecs(scn)
              /\ Job(id, "read").id = id /\ Job(id, "read").at = "read"
          BY <1>1, JobFacts DEF Stages
        <4>2. QED BY <1>1, <2>7, <4>1
      <3>2. Waited'
        BY <1>5, <2>7, <3>1 DEF Awaiting
      <3>3. QED BY <1>1, <1>4, <2>7, <3>1, <3>2, Moves
    <2>8. QED BY <2>0, <2>1, <2>2, <2>3, <2>4, <2>5, <2>6, <2>7 DEF Dispatch
  <1>8. QED BY <1>6, <1>7

\* The call of a handler ends, for Core or for the host: nothing is waited for.
LEMMA CallSettled ==
    ASSUME HostShape, Waited, NEW job \in jobs, NEW c \in 1..Len(calls), job.call = c,
           Open(calls, c), NEW v \in CallRecs(scn), v.state # "running" \/ v.left,
           calls' = [calls EXCEPT ![c] = v]
    PROVE  /\ calls' \in Seq(CallRecs(scn))
           /\ \A i \in 1..Len(calls') : ~Open(calls', i)
  <1>1. calls \in Seq(CallRecs(scn)) /\ Len(calls) \in Nat
    BY DEF HostShape
  <1>2. /\ calls' \in Seq(CallRecs(scn)) /\ Len(calls') = Len(calls)
        /\ \A i \in 1..Len(calls) : i # c => calls'[i] = calls[i]
        /\ calls'[c] = v
    BY <1>1
  <1>3. \A i \in 1..Len(calls) : Open(calls, i) => i = c
    BY DEF Waited, HostShape
  <1>4. QED BY <1>2, <1>3 DEF Open

\* A handler answers its own request, is done, and waits for nothing.
LEMMA AnswerMoves ==
    ASSUME WindowShape, HostShape, NEW job \in jobs, NEW body \in Outcomes,
           Answer(job, body), UNCHANGED <<scn, win, hostUp, half, read>>,
           live' \in Lives, noted' \in Nat, calls' \in Seq(CallRecs(scn)),
           \A c \in 1..Len(calls') : ~Open(calls', c)
    PROVE  HostMoves
  <1> DEFINE m == Response(job.id, body)
  <1>1. jobs' = {} /\ job.id \in 1..read /\ job.id \in Nat /\ hostUp
    BY OnlyHandler DEF Answer
  <1>2. m \in Messages /\ m.id = job.id
    BY <1>1, MessageFacts
  <1>3. out' = Append(out, m)
    BY DEF Answer
  <1> HIDE DEF m
  <1>4. Waited'
    BY <1>1, NothingOpen
  <1>5. Given(m, read', jobs')
    BY <1>1, <1>2 DEF Given
  <1>6. read' \in read..Len(win.asked)
    BY WindowFacts DEF HostShape
  <1>7. QED BY <1>1, <1>2, <1>3, <1>4, <1>5, <1>6, Moves

\* A handler goes on without a call.
LEMMA StageMoves ==
    ASSUME WindowShape, HostShape, NEW job \in jobs, NEW k \in JobRecs(scn),
           jobs' = (jobs \ {job}) \cup {k}, k.id = job.id, k.at \notin Awaiting,
           UNCHANGED <<scn, win, hostUp, half, read>>,
           live' \in Lives, noted' \in Nat, calls' \in Seq(CallRecs(scn)),
           \A c \in 1..Len(calls') : ~Open(calls', c),
           out' = out \/ (noted \in Nat /\ out' = Append(out, Emits))
    PROVE  HostMoves
  <1>1. jobs' = {k} /\ hostUp
    BY OnlyHandler
  <1>2. Waited'
    BY <1>1, NothingOpen
  <1>3. read' \in read..Len(win.asked)
    BY WindowFacts DEF HostShape
  <1>4. \/ out' = out
        \/ \E m \in Messages : Given(m, read', jobs') /\ out' = Append(out, m)
    BY MessageFacts DEF Given
  <1>5. QED BY <1>1, <1>2, <1>3, <1>4, Moves

\* Core's reply is an outcome.
LEMMA ReplyFacts ==
    ASSUME NEW call \in DOMAIN Wanted,
           NEW answer \in {"error", "broken"} \cup {Wanted[call]}
    PROVE  Reply(call, answer) \in Outcomes
  <1>1. Wanted[call] \in Results
    BY DEF Results
  <1>2. QED BY <1>1, OutcomeFacts DEF Reply, Codes

\* The handler whose call has ended answers, or goes on to write.
LEMMA ContinuesMoves ==
    ASSUME WindowShape, HostShape, NEW job \in jobs, NEW body \in Outcomes,
           Continues(job, body), UNCHANGED <<scn, win, hostUp, half, read, live, noted>>,
           calls' \in Seq(CallRecs(scn)), \A c \in 1..Len(calls') : ~Open(calls', c)
    PROVE  HostMoves
  <1>1. live' \in Lives /\ noted' \in Nat
    BY DEF HostShape
  <1>2. CASE job.at = "locating" /\ body.is = "ok"
    <2> DEFINE k == [job EXCEPT !.at = "read"]
    <2>1. jobs' = (jobs \ {job}) \cup {k} /\ out' = out
      BY <1>2 DEF Continues
    <2>2. job \in JobRecs(scn)
      BY OnlyHandler
    <2>3. k \in JobRecs(scn) /\ k.id = job.id /\ k.at = "read"
      BY <2>2, StageFacts DEF Stages
    <2> HIDE DEF k
    <2>4. QED BY <1>1, <2>1, <2>3, StageMoves DEF Awaiting
  <1>3. CASE ~(job.at = "locating" /\ body.is = "ok")
    BY <1>1, <1>3, AnswerMoves DEF Continues
  <1>4. QED BY <1>2, <1>3

\* Core answers: its handler goes on, if it still waits.
LEMMA CoreAnswersMoves ==
    ASSUME WindowShape, HostShape, Waited, CoreAnswers
    PROVE  HostMoves
  <1>1. PICK c \in DOMAIN calls, answer \in {"error", "broken", "answered"} :
          /\ calls[c].state = "running"
          /\ calls' = [calls EXCEPT ![c].state = answer]
          /\ \/ Caller(c) = {} /\ UNCHANGED <<jobs, out>>
             \/ \E job \in Caller(c) :
                   Continues(job, Reply(calls[c].call,
                         IF answer = "answered" THEN Wanted[calls[c].call] ELSE answer))
    BY Zenon DEF CoreAnswers
  <1>2. UNCHANGED <<scn, win, hostUp, half, read, live, noted>>
    BY DEF CoreAnswers
  <1> DEFINE v == [calls[c] EXCEPT !.state = answer]
  <1>3. /\ calls \in Seq(CallRecs(scn)) /\ Len(calls) \in Nat /\ c \in 1..Len(calls)
        /\ calls[c] \in CallRecs(scn) /\ live' \in Lives /\ noted' \in Nat
        /\ read' \in read..Len(win.asked)
    BY <1>1, <1>2, WindowFacts DEF HostShape
  <1>4. /\ v \in CallRecs(scn) /\ v.state # "running" /\ v.left = calls[c].left
        /\ calls[c].call \in DOMAIN Wanted
    BY <1>3 DEF CallRecs
  <1>5. calls' = [calls EXCEPT ![c] = v]
    BY <1>1
  <1> HIDE DEF v
  <1>6. CASE Caller(c) = {} /\ UNCHANGED <<jobs, out>>
    <2>0. calls[c].left
      <3>1. ~calls[c].left => \E job \in jobs : job.call = c
        BY <1>1, <1>3 DEF Waited, Open
      <3>2. QED BY <1>6, <3>1 DEF Caller
    <2>1. /\ calls' \in Seq(CallRecs(scn)) /\ Len(calls') = Len(calls)
          /\ \A i \in 1..Len(calls) : i # c => calls'[i] = calls[i]
          /\ calls'[c] = v
      BY <1>3, <1>4, <1>5
    <2>2. \A i \in 1..Len(calls) : /\ Open(calls', i) <=> Open(calls, i)
                                   /\ Open(calls, i) => calls'[i] = calls[i]
      BY <1>4, <2>0, <2>1 DEF Open
    <2>3. Waited'
      BY <1>6, <2>1, <2>2 DEF Waited
    <2>4. \/ jobs' = {}
          \/ \E k \in JobRecs(scn) : jobs' = {k} /\ hostUp /\ \E j \in jobs : k.id = j.id
      BY <1>6, OnlyHandler
    <2>5. QED BY <1>2, <1>3, <1>6, <2>1, <2>3, <2>4, Moves
  <1>7. CASE \E job \in Caller(c) :
               Continues(job, Reply(calls[c].call,
                     IF answer = "answered" THEN Wanted[calls[c].call] ELSE answer))
    <2>1. PICK job \in jobs :
            /\ job.call = c /\ ~calls[c].left
            /\ Continues(job, Reply(calls[c].call,
                  IF answer = "answered" THEN Wanted[calls[c].call] ELSE answer))
      BY <1>7 DEF Caller
    <2> DEFINE body == Reply(calls[c].call,
                  IF answer = "answered" THEN Wanted[calls[c].call] ELSE answer)
    <2>2. body \in Outcomes
      BY <1>4, ReplyFacts
    <2>3. /\ calls' \in Seq(CallRecs(scn))
          /\ \A i \in 1..Len(calls') : ~Open(calls', i)
      BY <1>1, <1>3, <1>4, <1>5, <2>1, CallSettled, ZenonT(40) DEF Open
    <2> HIDE DEF body
    <2>4. Continues(job, body)
      BY <2>1 DEF body
    <2>5. QED BY <1>2, <2>2, <2>3, <2>4, ContinuesMoves
  <1>8. QED BY <1>1, <1>6, <1>7

\* The host gives a call up: its handler answers, Core goes on alone.
LEMMA TimesOutMoves ==
    ASSUME WindowShape, HostShape, Waited, TimesOut
    PROVE  HostMoves
  <1>1. PICK job \in jobs :
          /\ job.at \in {"calling", "locating", "showing"}
          /\ calls[job.call].state = "running" /\ ~calls[job.call].left
          /\ calls' = [calls EXCEPT ![job.call].left = TRUE]
          /\ Continues(job, Err("bridge.transport"))
    BY Zenon DEF TimesOut
  <1>2. UNCHANGED <<scn, win, hostUp, half, read, live, noted>>
    BY DEF TimesOut
  <1> DEFINE c == job.call
             v == [calls[c] EXCEPT !.left = TRUE]
  <1>3. /\ c \in 1..Len(calls) /\ Open(calls, c)
    BY <1>1 DEF Waited, Awaiting
  <1>4. calls[c] \in CallRecs(scn)
    BY <1>3 DEF HostShape
  <1>5. v \in CallRecs(scn) /\ v.left
    BY <1>4 DEF CallRecs
  <1>6. calls' = [calls EXCEPT ![c] = v]
    BY <1>1
  <1> HIDE DEF v
  <1>7. /\ calls' \in Seq(CallRecs(scn))
        /\ \A i \in 1..Len(calls') : ~Open(calls', i)
    BY <1>3, <1>5, <1>6, CallSettled
  <1>8. Err("bridge.transport") \in Outcomes
    BY OutcomeFacts DEF Codes
  <1>9. QED BY <1>1, <1>2, <1>7, <1>8, ContinuesMoves

\* session/open and session/restart come to their end: the notification, then
\* the response.
LEMMA OpenMoves ==
    ASSUME WindowShape, HostShape, Waited, OpenEnds \/ StopEnds
    PROVE  HostMoves
  <1>1. PICK job \in jobs : job.at \in {"opening", "stopping"}
    BY DEF OpenEnds, StopEnds
  <1>2. /\ jobs = {job} /\ job \in JobRecs(scn) /\ job.id \in 1..read /\ job.id \in Nat
        /\ jobs \ {job} = {} /\ hostUp
    BY OnlyHandler
  <1>3. /\ \A c \in 1..Len(calls) : ~Open(calls, c)
        /\ UNCHANGED <<scn, win, hostUp, half, read, calls>>
        /\ calls \in Seq(CallRecs(scn)) /\ noted \in Nat /\ live \in Lives
        /\ Emits \in Messages /\ Emits.kind = "note"
        /\ read' \in read..Len(win.asked)
    <2>1. \A k \in jobs : k.at \notin Awaiting
      BY <1>1, <1>2 DEF Awaiting
    <2>2. calls \in Seq(CallRecs(scn)) /\ noted \in Nat /\ live \in Lives
      BY DEF HostShape
    <2>3. Emits \in Messages /\ Emits.kind = "note"
      BY <2>2, MessageFacts
    <2>4. UNCHANGED <<scn, win, hostUp, half, read, calls>>
      BY DEF OpenEnds, StopEnds
    <2>5. read' \in read..Len(win.asked)
      BY <2>4, WindowFacts DEF HostShape
    <2>6. QED BY <2>1, <2>2, <2>3, <2>4, <2>5, NothingOpen
  <1>4. ASSUME NEW body \in Outcomes, noted' = noted + 1, jobs' = jobs \ {job},
               out' = out \o << Emits, Response(job.id, body) >>, live' \in Lives
        PROVE  HostMoves
    <2> DEFINE m == Response(job.id, body)
    <2>1. m \in Messages /\ m.id = job.id
      BY <1>2, MessageFacts
    <2>2. out' = out \o <<Emits, m>>
      BY <1>4
    <2> HIDE DEF m
    <2>3. Given(Emits, read', jobs') /\ Given(m, read', jobs') /\ jobs' = {}
      BY <1>2, <1>3, <1>4, <2>1 DEF Given
    <2>4. Waited'
      BY <1>3, <2>3, NothingOpen
    <2>5. noted' \in Nat /\ calls' \in Seq(CallRecs(scn))
      BY <1>3, <1>4
    <2>6. QED BY <1>3, <1>4, <2>1, <2>2, <2>3, <2>4, <2>5, Moves
  <1>5. ASSUME OpenEnds PROVE HostMoves
    <2>1. \/ Opens(job, "owned")
          \/ Opens(job, "adopted")
          \/ /\ noted' = noted + 1
             /\ jobs' = jobs \ {job}
             /\ out' = out \o << Emits, Response(job.id, Err("bridge.startup_timeout")) >>
             /\ UNCHANGED live
      BY <1>2, <1>5 DEF OpenEnds
    <2>2. Ok("SessionInfo") \in Outcomes /\ Err("bridge.startup_timeout") \in Outcomes
      BY OutcomeFacts DEF Results, Codes
    <2>3. CASE Opens(job, "owned") \/ Opens(job, "adopted")
      BY <1>4, <2>2, <2>3 DEF Opens, Lives
    <2>4. CASE /\ noted' = noted + 1
               /\ jobs' = jobs \ {job}
               /\ out' = out \o << Emits, Response(job.id, Err("bridge.startup_timeout")) >>
               /\ UNCHANGED live
      BY <1>3, <1>4, <2>2, <2>4
    <2>5. QED BY <2>1, <2>3, <2>4
  <1>6. ASSUME StopEnds PROVE HostMoves
    <2>1. /\ UNCHANGED live
          /\ \/ /\ jobs' = (jobs \ {job}) \cup {[job EXCEPT !.at = "opening"]}
                /\ out' = Append(out, Emits)
                /\ noted' = noted + 1
             \/ /\ Answer(job, Err("bridge.fs.io"))
                /\ UNCHANGED noted
      BY <1>2, <1>6 DEF StopEnds
    <2>2. CASE /\ jobs' = (jobs \ {job}) \cup {[job EXCEPT !.at = "opening"]}
               /\ out' = Append(out, Emits)
               /\ noted' = noted + 1
      <3> DEFINE k == [job EXCEPT !.at = "opening"]
      <3>1. k \in JobRecs(scn) /\ k.id = job.id /\ k.at = "opening"
        BY <1>2, StageFacts DEF Stages
      <3> HIDE DEF k
      <3>2. jobs' = (jobs \ {job}) \cup {k}
        BY <2>2 DEF k
      <3>3. noted' \in Nat /\ live' \in Lives
        BY <1>3, <2>1, <2>2
      <3>4. QED BY <1>3, <2>2, <3>1, <3>2, <3>3, StageMoves DEF Awaiting
    <2>3. CASE Answer(job, Err("bridge.fs.io")) /\ UNCHANGED noted
      <3>1. Err("bridge.fs.io") \in Outcomes
        BY OutcomeFacts DEF Codes
      <3>2. QED BY <1>3, <2>1, <2>3, <3>1, AnswerMoves
    <2>4. QED BY <2>1, <2>2, <2>3
  <1>7. QED BY <1>5, <1>6

\* What a step of write_key makes of the document, the disk and the handler.
LEMMA WriteFacts ==
    ASSUME DiskShape, NEW w \in JobRecs(scn), NEW leaf \in Leaves(scn),
           NEW step \in write_key(w, leaf)
    PROVE  /\ w.at \in {"read", "create", "fill", "rename"}
           /\ step.w \in JobRecs(scn) /\ step.w.id = w.id
           /\ step.w.at \in Writing \cup {"written"} \cup Codes
           /\ step.disk \in Disks(scn) /\ OnDisk(step.disk)
           /\ step.kept \in SUBSET Leaves(scn)
  <1> USE DEF Step
  <1>1. /\ disk \in Disks(scn) /\ disk.text \in Seq(SUBSET Leaves(scn))
        /\ Len(disk.text) \in Nat /\ disk.config \in 1..Len(disk.text)
        /\ disk.temp \in 0..Len(disk.text) /\ disk.temp # disk.config
        /\ kept \in SUBSET Leaves(scn)
    BY DEF DiskShape, Disks, OnDisk
  <1>0. disk \in Disks(scn)
    BY <1>1
  <1>2. \A doc \in SUBSET Leaves(scn) : set_dotted(doc, leaf) \in SUBSET Leaves(scn)
    BY DEF set_dotted
  <1>3. Document \in SUBSET Leaves(scn)
    BY <1>1 DEF Document
  <1>4. ASSUME NEW at \in Stages, step = Step([w EXCEPT !.at = at], disk, kept)
        PROVE  /\ step.w \in JobRecs(scn) /\ step.w.id = w.id /\ step.w.at = at
               /\ step.disk = disk /\ step.kept = kept
    BY <1>4, StageFacts
  <1>5. ASSUME NEW code \in Codes, step = Failed(w, code)
        PROVE  /\ step.w \in JobRecs(scn) /\ step.w.id = w.id /\ step.w.at = code
               /\ step.disk = disk /\ step.kept = kept
    BY <1>4, <1>5 DEF Failed, Stages
  <1>6. CASE w.at = "read" /\ step = Read(w, leaf)
    <2>1. CASE Crosses(Document, leaf)
      BY <1>1, <1>5, <1>6, <2>1 DEF Read, Codes, DiskShape
    <2>2. CASE ~Crosses(Document, leaf)
      <3> DEFINE v == [w EXCEPT !.at = "create", !.doc = set_dotted(Document, leaf)]
      <3>1. v \in JobRecs(scn) /\ v.id = w.id /\ v.at = "create"
        BY <1>2, <1>3 DEF JobRecs, Stages
      <3> HIDE DEF v
      <3>2. step = Step(v, disk, kept)
        BY <1>6, <2>2 DEF Read, v
      <3>3. QED BY <1>1, <1>6, <3>1, <3>2 DEF Writing, DiskShape
    <2>3. QED BY <2>1, <2>2
  <1>7. CASE w.at = "create" /\ step = CreateTemp(w)
    <2>1. CASE disk.temp = 0
      <3> DEFINE v == [w EXCEPT !.at = "fill", !.file = Len(disk.text) + 1]
                 t == Append(disk.text, {})
                 d == [disk EXCEPT !.text = t, !.temp = Len(disk.text) + 1]
      <3>0. Len(disk.text) + 1 \in Nat
        BY <1>1
      <3>1. v \in JobRecs(scn) /\ v.id = w.id /\ v.at = "fill"
        BY <3>0 DEF JobRecs, Stages
      <3>2. t \in Seq(SUBSET Leaves(scn)) /\ Len(t) = Len(disk.text) + 1
        BY <1>1, AppendFacts
      <3>3. step = Step(v, d, kept)
        BY <1>1, <1>7, <2>1 DEF CreateTemp
      <3> HIDE DEF v, t
      <3>4. /\ d \in Disks(scn) /\ d.text = t /\ d.temp = Len(disk.text) + 1
            /\ d.config = disk.config
        BY <1>0, <3>0, <3>2 DEF Disks
      <3> HIDE DEF d
      <3>5. OnDisk(d)
        BY <1>1, <3>2, <3>4 DEF OnDisk
      <3>6. QED BY <1>1, <1>7, <3>1, <3>3, <3>4, <3>5 DEF Writing
    <2>2. CASE disk.temp # 0
      <3> DEFINE v == [w EXCEPT !.at = "fill", !.file = disk.temp]
                 t == [disk.text EXCEPT ![disk.temp] = {}]
                 d == [disk EXCEPT !.text = t]
      <3>0. disk.temp \in Nat
        BY <1>1
      <3>1. v \in JobRecs(scn) /\ v.id = w.id /\ v.at = "fill"
        BY <3>0 DEF JobRecs, Stages
      <3>2. t \in Seq(SUBSET Leaves(scn)) /\ Len(t) = Len(disk.text)
        BY <1>1, <2>2
      <3>3. step = Step(v, d, kept)
        BY <1>1, <1>7, <2>2 DEF CreateTemp
      <3> HIDE DEF v, t
      <3>4. /\ d \in Disks(scn) /\ d.text = t /\ d.temp = disk.temp
            /\ d.config = disk.config
        BY <1>1, <3>2 DEF Disks
      <3> HIDE DEF d
      <3>5. OnDisk(d)
        BY <1>1, <3>2, <3>4 DEF OnDisk
      <3>6. QED BY <1>1, <1>7, <3>1, <3>3, <3>4, <3>5 DEF Writing
    <2>3. QED BY <2>1, <2>2
  <1>8. CASE w.at = "fill" /\ step = Fill(w)
    <2> DEFINE v == [w EXCEPT !.at = "rename"]
               t == [disk.text EXCEPT ![w.file] = w.doc]
               d == [disk EXCEPT !.text = t]
    <2>1. v \in JobRecs(scn) /\ v.id = w.id /\ v.at = "rename"
      BY StageFacts DEF Stages
    <2>2. t \in Seq(SUBSET Leaves(scn)) /\ Len(t) = Len(disk.text)
      <3>1. w.doc \in SUBSET Leaves(scn)
        BY DEF JobRecs
      <3> DEFINE x == w.doc
                 f == w.file
      <3>2. x \in SUBSET Leaves(scn) /\ t = [disk.text EXCEPT ![f] = x]
        BY <3>1
      <3> HIDE DEF x, f, t
      <3>3. disk.text \in [1..Len(disk.text) -> SUBSET Leaves(scn)]
        BY <1>1
      <3>4. t \in [1..Len(disk.text) -> SUBSET Leaves(scn)]
        BY <3>2, <3>3
      <3>5. QED BY <1>1, <3>4
    <2>3. step = Step(v, d, kept)
      BY <1>8 DEF Fill
    <2> HIDE DEF v, t
    <2>4. /\ d \in Disks(scn) /\ d.text = t /\ d.temp = disk.temp
          /\ d.config = disk.config
      BY <1>1, <2>2 DEF Disks
    <2> HIDE DEF d
    <2>5. OnDisk(d)
      BY <1>1, <2>2, <2>4 DEF OnDisk
    <2>6. QED BY <1>1, <1>8, <2>1, <2>3, <2>4, <2>5 DEF Writing
  <1>9. CASE w.at = "rename" /\ step = Rename(w, leaf)
    <2>1. CASE disk.temp = 0
      BY <1>1, <1>5, <1>9, <2>1 DEF Rename, Codes, DiskShape
    <2>2. CASE disk.temp # 0
      <3> DEFINE v == [w EXCEPT !.at = "written"]
                 d == [disk EXCEPT !.config = disk.temp, !.temp = 0]
      <3>1. v \in JobRecs(scn) /\ v.id = w.id /\ v.at = "written"
        BY StageFacts DEF Stages
      <3>2. step = Step(v, d, set_dotted(kept, leaf))
        BY <1>9, <2>2 DEF Rename
      <3>3. /\ d \in Disks(scn) /\ d.text = disk.text /\ d.temp = 0
            /\ d.config = disk.temp
        BY <1>1 DEF Disks
      <3> HIDE DEF v, d
      <3>4. OnDisk(d)
        BY <1>1, <2>2, <3>3 DEF OnDisk
      <3>5. QED BY <1>1, <1>2, <1>9, <3>1, <3>2, <3>3, <3>4
    <2>3. QED BY <2>1, <2>2
  <1>10. CASE w.at \in Writing /\ step = Failed(w, "bridge.fs.io")
    BY <1>1, <1>5, <1>10 DEF Codes, DiskShape, Writing
  <1>11. QED BY <1>6, <1>7, <1>8, <1>9, <1>10 DEF write_key

\* config/write goes on: the file is one step further, the handler asks for the
\* configuration it wrote, or answers.
LEMMA WritesMoves ==
    ASSUME WindowShape, HostShape, Waited, DiskShape, HostWrites
    PROVE  HostMoves /\ DiskShape'
  <1>1. PICK job \in jobs : \E step \in write_key(job, Param(Of(job), "key")) :
          /\ Does(step, {other})
          /\ CASE step.w.at \in Writing ->
                     /\ jobs' = (jobs \ {job}) \cup {step.w}
                     /\ UNCHANGED <<calls, out>>
               [] step.w.at = "written" ->
                     /\ Calling(job.id, "ConfigShow", None)
                     /\ jobs' = (jobs \ {job})
                          \cup {[Job(job.id, "showing") EXCEPT !.call = Len(calls) + 1]}
                     /\ UNCHANGED out
               [] OTHER -> Answer(job, Err(step.w.at)) /\ UNCHANGED calls
    BY Zenon DEF HostWrites
  <1>2. /\ jobs = {job} /\ job \in JobRecs(scn) /\ job.id \in 1..read /\ job.id \in Nat
        /\ jobs \ {job} = {} /\ hostUp
    BY OnlyHandler
  <1>3. Param(Of(job), "key") \in Leaves(scn)
    <2>1. Of(job) \in Asks(scn)
      BY <1>2, WindowFacts DEF Of, HostShape
    <2>2. QED BY <2>1 DEF Leaves
  <1>4. PICK step \in write_key(job, Param(Of(job), "key")) :
          /\ Does(step, {other})
          /\ CASE step.w.at \in Writing ->
                     /\ jobs' = (jobs \ {job}) \cup {step.w}
                     /\ UNCHANGED <<calls, out>>
               [] step.w.at = "written" ->
                     /\ Calling(job.id, "ConfigShow", None)
                     /\ jobs' = (jobs \ {job})
                          \cup {[Job(job.id, "showing") EXCEPT !.call = Len(calls) + 1]}
                     /\ UNCHANGED out
               [] OTHER -> Answer(job, Err(step.w.at)) /\ UNCHANGED calls
    BY <1>1
  <1>5. /\ job.at \in {"read", "create", "fill", "rename"}
        /\ step.w \in JobRecs(scn) /\ step.w.id = job.id
        /\ step.w.at \in Writing \cup {"written"} \cup Codes
        /\ step.disk \in Disks(scn) /\ OnDisk(step.disk)
        /\ step.kept \in SUBSET Leaves(scn)
    BY <1>2, <1>3, <1>4, WriteFacts
  <1>6. UNCHANGED <<scn, win, hostUp, read, live, half, stdout, other, noted>>
    BY DEF HostWrites
  <1>7. DiskShape'
    <2>1. disk' = step.disk /\ kept' = step.kept
      BY <1>4 DEF Does
    <2>2. met' \in BOOLEAN
      BY <1>4, Zenon DEF Does, DiskShape
    <2>3. QED BY <1>5, <1>6, <2>1, <2>2 DEF DiskShape
  <1>8. /\ \A k \in jobs : k.at \notin Awaiting
        /\ \A c \in 1..Len(calls) : ~Open(calls, c)
        /\ calls \in Seq(CallRecs(scn)) /\ Len(calls) \in Nat
        /\ live' \in Lives /\ noted' \in Nat
    <2>1. \A k \in jobs : k.at \notin Awaiting
      BY <1>2, <1>5 DEF Awaiting
    <2>2. QED BY <1>6, <2>1, NothingOpen DEF HostShape
  <1>9. CASE step.w.at \in Writing
    <2>1. jobs' = (jobs \ {job}) \cup {step.w} /\ UNCHANGED <<calls, out>>
      BY <1>4, <1>9 DEF Writing
    <2>2. step.w.at \notin Awaiting
      BY <1>9 DEF Writing, Awaiting
    <2>3. HostMoves
      BY <1>5, <1>6, <1>8, <2>1, <2>2, StageMoves
    <2>4. QED BY <1>7, <2>3
  <1>10. CASE step.w.at = "written"
    <2> DEFINE k == [Job(job.id, "showing") EXCEPT !.call = Len(calls) + 1]
    <2>1. /\ k \in JobRecs(scn) /\ k.id = job.id /\ k.at = "showing"
          /\ k.call = Len(calls) + 1
      <3> DEFINE j == Job(job.id, "showing")
      <3>1. j \in JobRecs(scn) /\ j.id = job.id /\ j.at = "showing"
        BY <1>2, JobFacts DEF Stages
      <3>2. Len(calls) + 1 \in Nat BY <1>8
      <3> HIDE DEF j
      <3>3. QED BY <3>1, <3>2, CalledFacts DEF j
    <2> HIDE DEF k
    <2>2. jobs' = {k} /\ UNCHANGED out /\ Calling(job.id, "ConfigShow", None)
      BY <1>2, <1>4, <1>10 DEF k, Writing
    <2>3. calls' \in Seq(CallRecs(scn)) /\ Waited'
      BY <1>2, <1>8, <2>1, <2>2, CallMade, EveryCallIsWanted DEF Awaiting, Args
    <2>4. HostMoves
      <3>1. read' \in read..Len(win.asked)
        BY <1>6, WindowFacts DEF HostShape
      <3>2. QED BY <1>2, <1>6, <1>8, <2>1, <2>2, <2>3, <3>1, Moves
    <2>5. QED BY <1>7, <2>4
  <1>11. CASE step.w.at \notin Writing \cup {"written"}
    <2>1. Answer(job, Err(step.w.at)) /\ UNCHANGED calls
      BY <1>4, <1>11
    <2>2. Err(step.w.at) \in Outcomes
      BY <1>5, <1>11, OutcomeFacts
    <2>3. HostMoves
      BY <1>6, <1>8, <2>1, <2>2, AnswerMoves
    <2>4. QED BY <1>7, <2>3
  <1>12. QED BY <1>9, <1>10, <1>11

\* The supervise task emits.
LEMMA EmitMoves ==
    ASSUME WindowShape, HostShape, Waited, Emit
    PROVE  HostMoves
  <1>1. /\ noted \in Nat /\ live' \in Lives /\ noted' \in Nat
        /\ calls' \in Seq(CallRecs(scn))
        /\ UNCHANGED <<scn, win, hostUp, read, live, jobs, half, calls>>
        /\ out' = Append(out, Emits)
    BY DEF Emit, HostShape
  <1>2. Waited'
    BY <1>1 DEF Waited
  <1>3. read' \in read..Len(win.asked)
    BY <1>1, WindowFacts DEF HostShape
  <1>4. \/ jobs' = {}
        \/ \E k \in JobRecs(scn) : jobs' = {k} /\ hostUp /\ \E j \in jobs : k.id = j.id
    BY <1>1, OnlyHandler
  <1>5. Emits \in Messages /\ Given(Emits, read', jobs')
    BY <1>1, MessageFacts DEF Given
  <1>6. QED BY <1>1, <1>2, <1>3, <1>4, <1>5, Moves

-----------------------------------------------------------------------------
(***************************************************************************)
(* Framing.  S is what the client has not parsed, in its buffer and in the *)
(* pipe; L the length it knows of the body it is in front of; h the        *)
(* message whose body the writer has not written.                          *)
(***************************************************************************)
Opening(S, L, h) ==
    IF L = NoLength
    THEN /\ S = <<>> => h = None
         /\ S # <<>> => S[1].tok = "length"
    ELSE /\ S = <<>> => h # None /\ Length(h) = L
         /\ S # <<>> => S[1].tok = "body" /\ S[1].n = 1 /\ Length(S[1].of) = L

\* A length is followed by the end of its header and by a body of that length,
\* a body by the next frame.
Follows(S, h) ==
    \A k \in 1..Len(S) :
       /\ S[k].tok = "length" =>
             /\ k + 1 <= Len(S) /\ S[k + 1].tok = "end"
             /\ IF k + 2 <= Len(S)
                THEN S[k + 2].tok = "body" /\ S[k + 2].n = 1
                     /\ Length(S[k + 2].of) = S[k].n
                ELSE h # None /\ Length(h) = S[k].n
       /\ S[k].tok = "body" =>
             IF S[k].n < Length(S[k].of)
             THEN k + 1 <= Len(S) /\ S[k + 1] = Token("body", S[k].n + 1, S[k].of)
             ELSE IF k + 1 <= Len(S) THEN S[k + 1].tok = "length" ELSE h = None

\* A message has one or two tokens of body.
LEMMA LengthFacts ==
    ASSUME NEW m \in Messages
    PROVE  Length(m) \in 1..2 /\ m # None
  BY NoneIsNoMessage DEF Length

\* The header of a message, behind whole frames, opens its own.
LEMMA FrameHeader ==
    ASSUME NEW S \in Seq(Tokens), NEW L, Opening(S, L, None), Follows(S, None),
           NEW m \in Messages
    PROVE  /\ S \o Header(m) \in Seq(Tokens)
           /\ \A i \in 1..Len(S \o Header(m)) :
                 \/ i \in 1..Len(S) /\ (S \o Header(m))[i] = S[i]
                 \/ (S \o Header(m))[i].of = None
           /\ Opening(S \o Header(m), L, m) /\ Follows(S \o Header(m), m)
  <1> DEFINE a == Token("length", Length(m), None)
             b == Token("end", 0, None)
             T == S \o Header(m)
  <1>1. /\ Length(m) \in 1..2 /\ m # None
    BY LengthFacts
  <1>2. a \in Tokens /\ a.tok = "length" /\ a.n = Length(m) /\ a.of = None
    BY <1>1 DEF Token, Tokens
  <1>3. b \in Tokens /\ b.tok = "end" /\ b.of = None
    BY DEF Token, Tokens
  <1>4. T = S \o <<a, b>>
    BY DEF Header
  <1> HIDE DEF a, b, T
  <1>5. /\ T \in Seq(Tokens) /\ Len(T) = Len(S) + 2 /\ Len(S) \in Nat
        /\ \A i \in 1..Len(S) : T[i] = S[i]
        /\ T[Len(S) + 1] = a /\ T[Len(S) + 2] = b
    BY <1>2, <1>3, <1>4
  <1>6. Opening(T, L, m)
    <2>1. T # <<>>
      BY <1>5
    <2>2. CASE S = <<>>
      <3>1. T[1] = a
        BY <1>5, <2>2
      <3>2. QED BY <1>2, <2>1, <2>2, <3>1 DEF Opening
    <2>3. CASE S # <<>>
      <3>1. T[1] = S[1]
        BY <1>5, <2>3
      <3>2. QED BY <2>1, <2>3, <3>1 DEF Opening
    <2>4. QED BY <2>2, <2>3
  <1>7. Follows(T, m)
    <2> SUFFICES ASSUME NEW k \in 1..Len(T)
                 PROVE  /\ T[k].tok = "length" =>
                             /\ k + 1 <= Len(T) /\ T[k + 1].tok = "end"
                             /\ IF k + 2 <= Len(T)
                                THEN T[k + 2].tok = "body" /\ T[k + 2].n = 1
                                     /\ Length(T[k + 2].of) = T[k].n
                                ELSE m # None /\ Length(m) = T[k].n
                        /\ T[k].tok = "body" =>
                             IF T[k].n < Length(T[k].of)
                             THEN /\ k + 1 <= Len(T)
                                  /\ T[k + 1] = Token("body", T[k].n + 1, T[k].of)
                             ELSE IF k + 1 <= Len(T) THEN T[k + 1].tok = "length"
                                                     ELSE m = None
      BY DEF Follows
    <2>1. CASE k \in 1..Len(S)
      BY <1>2, <1>5, <2>1 DEF Follows
    <2>2. CASE k = Len(S) + 1
      BY <1>1, <1>2, <1>3, <1>5, <2>2
    <2>3. CASE k = Len(S) + 2
      BY <1>3, <1>5, <2>3
    <2>4. QED BY <1>5, <2>1, <2>2, <2>3
  <1>8. \A i \in 1..Len(T) : (i \in 1..Len(S) /\ T[i] = S[i]) \/ T[i].of = None
    BY <1>2, <1>3, <1>5
  <1>9. QED BY <1>5, <1>6, <1>7, <1>8 DEF T

\* The body of a message, behind its header, closes its frame.
LEMMA FrameBody ==
    ASSUME NEW S \in Seq(Tokens), NEW L, NEW m \in Messages,
           Opening(S, L, m), Follows(S, m)
    PROVE  /\ S \o Body(m) \in Seq(Tokens)
           /\ \A i \in 1..Len(S \o Body(m)) :
                 \/ i \in 1..Len(S) /\ (S \o Body(m))[i] = S[i]
                 \/ (S \o Body(m))[i].of = m
           /\ Opening(S \o Body(m), L, None) /\ Follows(S \o Body(m), None)
  <1> DEFINE B == Body(m)
             T == S \o B
  <1>1. Length(m) \in 1..2 /\ m # None
    BY LengthFacts
  <1>2. /\ B \in Seq(Tokens) /\ Len(B) = Length(m)
        /\ \A i \in 1..Length(m) : /\ B[i] = Token("body", i, m)
                                   /\ B[i].tok = "body" /\ B[i].n = i /\ B[i].of = m
    <2>1. B = [k \in 1..Length(m) |-> Token("body", k, m)]
      BY DEF Body
    <2>2. \A i \in 1..Length(m) : Token("body", i, m) \in Tokens
      BY <1>1 DEF Token, Tokens
    <2>3. \A i \in 1..Length(m) : /\ Token("body", i, m).tok = "body"
                                  /\ Token("body", i, m).n = i
                                  /\ Token("body", i, m).of = m
      BY DEF Token
    <2> HIDE DEF B
    <2>4. B \in Seq(Tokens) /\ Len(B) = Length(m)
      BY <1>1, <2>1, <2>2
    <2>5. QED BY <2>1, <2>3, <2>4
  <1> HIDE DEF B
  <1>3. /\ T \in Seq(Tokens) /\ Len(T) = Len(S) + Length(m) /\ Len(S) \in Nat
        /\ \A i \in 1..Len(S) : T[i] = S[i]
        /\ \A i \in 1..Length(m) : T[Len(S) + i] = B[i]
    BY <1>1, <1>2
  <1> HIDE DEF T
  <1>4. /\ T[Len(S) + 1] = B[1]
        /\ Length(m) = 2 => T[Len(S) + 2] = B[2]
    BY <1>1, <1>3
  <1>5. Opening(T, L, None)
    <2>1. T # <<>>
      BY <1>1, <1>3
    <2>2. CASE S = <<>>
      <3>1. T[1] = B[1] /\ L # NoLength /\ Length(m) = L
        BY <1>1, <1>3, <1>4, <2>2 DEF Opening
      <3>2. B[1].tok = "body" /\ B[1].n = 1 /\ B[1].of = m
        BY <1>1, <1>2
      <3>3. QED BY <2>1, <3>1, <3>2 DEF Opening
    <2>3. CASE S # <<>>
      <3>1. T[1] = S[1]
        BY <1>3, <2>3
      <3>2. QED BY <2>1, <2>3, <3>1 DEF Opening
    <2>4. QED BY <2>2, <2>3
  <1>6. Follows(T, None)
    <2> SUFFICES ASSUME NEW k \in 1..Len(T)
                 PROVE  /\ T[k].tok = "length" =>
                             /\ k + 1 <= Len(T) /\ T[k + 1].tok = "end"
                             /\ IF k + 2 <= Len(T)
                                THEN T[k + 2].tok = "body" /\ T[k + 2].n = 1
                                     /\ Length(T[k + 2].of) = T[k].n
                                ELSE None # None /\ Length(None) = T[k].n
                        /\ T[k].tok = "body" =>
                             IF T[k].n < Length(T[k].of)
                             THEN /\ k + 1 <= Len(T)
                                  /\ T[k + 1] = Token("body", T[k].n + 1, T[k].of)
                             ELSE IF k + 1 <= Len(T) THEN T[k + 1].tok = "length"
                                                     ELSE None = None
      BY DEF Follows
    <2>1. CASE k \in 1..Len(S)
      <3>1. CASE T[k].tok = "length"
        <4>1. S[k].tok = "length" /\ S[k] = T[k]
          BY <1>3, <2>1, <3>1
        <4>2. /\ k + 1 <= Len(S) /\ S[k + 1].tok = "end"
              /\ IF k + 2 <= Len(S)
                 THEN S[k + 2].tok = "body" /\ S[k + 2].n = 1
                      /\ Length(S[k + 2].of) = S[k].n
                 ELSE Length(m) = S[k].n
          BY <2>1, <4>1 DEF Follows
        <4>3. CASE k + 2 <= Len(S)
          <5>1. T[k + 1] = S[k + 1] /\ T[k + 2] = S[k + 2] /\ k + 2 <= Len(T)
            BY <1>1, <1>3, <2>1, <4>3
          <5>2. QED BY <1>3, <2>1, <3>1, <4>1, <4>2, <4>3, <5>1
        <4>4. CASE k + 2 = Len(S) + 1
          <5>1. T[k + 1] = S[k + 1] /\ T[k + 2] = B[1] /\ k + 2 <= Len(T)
            BY <1>1, <1>3, <1>4, <2>1, <4>4
          <5>2. B[1].tok = "body" /\ B[1].n = 1 /\ B[1].of = m
            BY <1>1, <1>2
          <5>3. S[k + 1].tok = "end" /\ Length(m) = S[k].n
            BY <4>2, <4>4, <1>3, <2>1
          <5>4. QED BY <3>1, <4>1, <4>4, <5>1, <5>2, <5>3
        <4>5. QED BY <1>3, <2>1, <4>2, <4>3, <4>4
      <3>2. CASE T[k].tok = "body"
        BY <1>1, <1>3, <2>1, <3>2 DEF Follows
      <3>3. QED BY <3>1, <3>2
    <2>2. CASE k = Len(S) + 1
      BY <1>1, <1>2, <1>3, <1>4, <2>2
    <2>3. CASE k = Len(S) + 2 /\ Length(m) = 2
      BY <1>1, <1>2, <1>3, <1>4, <2>3
    <2>4. QED BY <1>1, <1>3, <2>1, <2>2, <2>3
  <1>7. \A i \in 1..Len(T) : (i \in 1..Len(S) /\ T[i] = S[i]) \/ T[i].of = m
    <2>1. \A i \in Len(S) + 1..Len(T) : T[i].of = m
      BY <1>1, <1>2, <1>3, <1>4
    <2>2. QED BY <1>3, <2>1
  <1>8. QED BY <1>3, <1>5, <1>6, <1>7 DEF T, B

\* What is in front of the stream can be taken away.
LEMMA FrameDrop ==
    ASSUME NEW S \in Seq(Tokens), NEW h, Follows(S, h), NEW e \in 0..Len(S)
    PROVE  Follows(SubSeq(S, e + 1, Len(S)), h)
  <1> DEFINE T == SubSeq(S, e + 1, Len(S))
  <1>1. /\ Len(T) = Len(S) - e /\ Len(S) \in Nat
        /\ \A i \in 1..Len(S) - e : T[i] = S[e + i]
    BY RestFacts
  <1> HIDE DEF T
  <1>2. ASSUME NEW k \in 1..Len(T), T[k].tok = "length"
        PROVE  /\ k + 1 <= Len(T) /\ T[k + 1].tok = "end"
               /\ IF k + 2 <= Len(T)
                  THEN T[k + 2].tok = "body" /\ T[k + 2].n = 1
                       /\ Length(T[k + 2].of) = T[k].n
                  ELSE h # None /\ Length(h) = T[k].n
    <2> DEFINE j == e + k
    <2>1. j \in 1..Len(S) /\ S[j] = T[k]
      BY <1>1, <1>2
    <2>2. /\ j + 1 <= Len(S) => T[k + 1] = S[j + 1]
          /\ j + 2 <= Len(S) => T[k + 2] = S[j + 2]
      BY <1>1, <1>2
    <2> HIDE DEF j
    <2>3. /\ j + 1 <= Len(S) /\ S[j + 1].tok = "end"
          /\ IF j + 2 <= Len(S)
             THEN S[j + 2].tok = "body" /\ S[j + 2].n = 1
                  /\ Length(S[j + 2].of) = S[j].n
             ELSE h # None /\ Length(h) = S[j].n
      BY <1>2, <2>1 DEF Follows
    <2>4. (k + 1 <= Len(T) <=> j + 1 <= Len(S)) /\ (k + 2 <= Len(T) <=> j + 2 <= Len(S))
      BY <1>1 DEF j
    <2>5. QED BY <2>1, <2>2, <2>3, <2>4
  <1>3. ASSUME NEW k \in 1..Len(T), T[k].tok = "body"
        PROVE  IF T[k].n < Length(T[k].of)
               THEN k + 1 <= Len(T) /\ T[k + 1] = Token("body", T[k].n + 1, T[k].of)
               ELSE IF k + 1 <= Len(T) THEN T[k + 1].tok = "length" ELSE h = None
    <2> DEFINE j == e + k
    <2>1. j \in 1..Len(S) /\ S[j] = T[k]
      BY <1>1, <1>3
    <2>2. j + 1 <= Len(S) => T[k + 1] = S[j + 1]
      BY <1>1, <1>3
    <2>3. k + 1 <= Len(T) <=> j + 1 <= Len(S)
      BY <1>1
    <2> HIDE DEF j
    <2>4. QED BY <1>3, <2>1, <2>2, <2>3 DEF Follows
  <1>4. QED BY <1>2, <1>3 DEF Follows, T

\* In front of a header there is one, and behind it the body it announces.
LEMMA FrameHead ==
    ASSUME NEW S \in Seq(Tokens), NEW h, Opening(S, NoLength, h), Follows(S, h),
           S # <<>>
    PROVE  /\ Len(S) >= 2 /\ S[1].tok = "length" /\ S[2].tok = "end"
           /\ S[1].n \in 1..2 /\ S[1].n # NoLength
           /\ Opening(SubSeq(S, 3, Len(S)), S[1].n, h)
  <1>1. Len(S) \in Nat /\ Len(S) >= 1 /\ S[1] \in Tokens /\ S[1].tok = "length"
    BY DEF Opening
  <1>2. S[1].n \in 1..2 /\ S[1].n # NoLength
    BY <1>1 DEF Tokens, NoLength
  <1>3. /\ 2 <= Len(S) /\ S[2].tok = "end"
        /\ IF 3 <= Len(S)
           THEN S[3].tok = "body" /\ S[3].n = 1 /\ Length(S[3].of) = S[1].n
           ELSE h # None /\ Length(h) = S[1].n
    <2>1. /\ 1 + 1 <= Len(S) /\ S[1 + 1].tok = "end"
          /\ IF 1 + 2 <= Len(S)
             THEN S[1 + 2].tok = "body" /\ S[1 + 2].n = 1 /\ Length(S[1 + 2].of) = S[1].n
             ELSE h # None /\ Length(h) = S[1].n
      <3>1. 1 \in 1..Len(S)
        BY <1>1
      <3>2. QED BY <1>1, <3>1 DEF Follows
    <2>2. 1 + 1 = 2 /\ 1 + 2 = 3
      OBVIOUS
    <2>3. QED BY <2>1, <2>2
  <1> DEFINE T == SubSeq(S, 3, Len(S))
  <1>4. /\ Len(T) = Len(S) - 2 /\ T \in Seq(Tokens)
        /\ 3 <= Len(S) => T[1] = S[3]
    <2>1. 2 \in 0..Len(S)
      BY <1>1, <1>3
    <2>2. T = SubSeq(S, 2 + 1, Len(S))
      OBVIOUS
    <2>3. /\ Len(T) = Len(S) - 2 /\ T \in Seq(Tokens)
          /\ \A i \in 1..Len(S) - 2 : T[i] = S[2 + i]
      BY <2>1, <2>2, RestFacts
    <2>4. QED BY <1>1, <2>3
  <1> HIDE DEF T
  <1>5. CASE 3 <= Len(S)
    <2>1. T # <<>>
      BY <1>1, <1>4, <1>5
    <2>2. T[1].tok = "body" /\ T[1].n = 1 /\ Length(T[1].of) = S[1].n
      BY <1>3, <1>4, <1>5
    <2>3. Opening(T, S[1].n, h)
      BY <1>2, <2>1, <2>2 DEF Opening
    <2>4. QED BY <1>1, <1>2, <1>3, <2>3 DEF T
  <1>6. CASE Len(S) = 2
    <2>1. T = <<>>
      BY <1>4, <1>6
    <2>2. h # None /\ Length(h) = S[1].n
      BY <1>3, <1>6
    <2>3. Opening(T, S[1].n, h)
      BY <1>2, <2>1, <2>2 DEF Opening
    <2>4. QED BY <1>1, <1>2, <1>3, <2>3 DEF T
  <1>7. 3 <= Len(S) \/ Len(S) = 2
    <2> DEFINE n == Len(S)
    <2>1. n \in Nat /\ 2 <= n
      BY <1>1, <1>3
    <2> HIDE DEF n
    <2>2. 3 <= n \/ n = 2
      BY <2>1
    <2>3. QED BY <2>2 DEF n
  <1>8. QED BY <1>5, <1>6, <1>7

\* Behind a whole body the next frame opens.
LEMMA FrameTail ==
    ASSUME NEW S \in Seq(Tokens), NEW L \in 1..2, NEW h, Opening(S, L, h), Follows(S, h),
           L <= Len(S)
    PROVE  Opening(SubSeq(S, L + 1, Len(S)), NoLength, h)
  <1>1. /\ Len(S) \in Nat /\ Len(S) >= 1 /\ S[1] \in Tokens
        /\ S[1].tok = "body" /\ S[1].n = 1 /\ Length(S[1].of) = L
    <2>1. Len(S) \in Nat /\ Len(S) >= 1 /\ S # <<>> /\ L # NoLength
      BY DEF NoLength
    <2>2. QED BY <2>1 DEF Opening
  <1>2. \A k \in 1..Len(S) : S[k].tok = "body" =>
             IF S[k].n < Length(S[k].of)
             THEN k + 1 <= Len(S) /\ S[k + 1] = Token("body", S[k].n + 1, S[k].of)
             ELSE IF k + 1 <= Len(S) THEN S[k + 1].tok = "length" ELSE h = None
    BY DEF Follows
  <1>3. IF L + 1 <= Len(S) THEN S[L + 1].tok = "length" ELSE h = None
    <2>1. CASE L = 1
      <3>1. 1 \in 1..Len(S) /\ ~(S[1].n < Length(S[1].of))
        BY <1>1, <2>1
      <3>2. QED BY <1>1, <1>2, <2>1, <3>1
    <2>2. CASE L = 2
      <3>1. 1 \in 1..Len(S) /\ S[1].n < Length(S[1].of) /\ S[1].n + 1 = 2 /\ 1 + 1 = 2
        BY <1>1, <2>2
      <3>2. 2 <= Len(S) /\ S[2] = Token("body", 2, S[1].of)
        BY <1>1, <1>2, <3>1
      <3>3. S[2].tok = "body" /\ S[2].n = 2 /\ S[2].of = S[1].of
        BY <3>2 DEF Token
      <3>4. 2 \in 1..Len(S) /\ ~(S[2].n < Length(S[2].of))
        BY <1>1, <2>2, <3>2, <3>3
      <3>5. QED BY <1>2, <2>2, <3>3, <3>4
    <2>3. QED BY <2>1, <2>2
  <1> DEFINE T == SubSeq(S, L + 1, Len(S))
  <1>4. /\ Len(T) = Len(S) - L /\ T \in Seq(Tokens)
        /\ \A i \in 1..Len(S) - L : T[i] = S[L + i]
    <2>1. L \in 0..Len(S)
      BY <1>1
    <2>2. QED BY <2>1, RestFacts
  <1> HIDE DEF T
  <1>5. CASE L + 1 <= Len(S)
    <2>1. T # <<>> /\ T[1] = S[L + 1]
      BY <1>1, <1>4, <1>5
    <2>2. QED BY <1>3, <1>5, <2>1 DEF Opening, T
  <1>6. CASE ~(L + 1 <= Len(S))
    <2>1. T = <<>>
      BY <1>1, <1>4, <1>6
    <2>2. QED BY <1>3, <1>6, <2>1 DEF Opening, T
  <1>7. QED BY <1>5, <1>6

\* What is taken off the buffer is taken off the stream.
LEMMA FrontOfStream ==
    ASSUME NEW S, NEW p \in Seq(S), NEW q \in Seq(S), NEW e \in 0..Len(p)
    PROVE  SubSeq(p, e + 1, Len(p)) \o q = SubSeq(p \o q, e + 1, Len(p \o q))
  <1> DEFINE r == SubSeq(p, e + 1, Len(p))
             c == p \o q
             B == SubSeq(c, e + 1, Len(c))
             A == r \o q
  <1>1. /\ r \in Seq(S) /\ Len(r) = Len(p) - e
        /\ \A i \in 1..Len(p) - e : r[i] = p[e + i]
    BY RestFacts
  <1>2. /\ c \in Seq(S) /\ Len(c) = Len(p) + Len(q) /\ Len(p) \in Nat /\ Len(q) \in Nat
        /\ \A i \in 1..Len(p) : c[i] = p[i]
        /\ \A i \in 1..Len(q) : c[Len(p) + i] = q[i]
    BY ConcatFacts
  <1> HIDE DEF r, c
  <1>3. /\ A \in Seq(S) /\ Len(A) = Len(r) + Len(q)
        /\ \A i \in 1..Len(r) : A[i] = r[i]
        /\ \A i \in 1..Len(q) : A[Len(r) + i] = q[i]
    <2>1. r \in Seq(S)
      BY <1>1
    <2>2. r \o q \in Seq(S)
      BY <2>1
    <2>3. Len(r \o q) = Len(r) + Len(q)
      BY <2>1
    <2>4. \A i \in 1..Len(r) : (r \o q)[i] = r[i]
      BY <2>1
    <2>5. \A i \in 1..Len(q) : (r \o q)[Len(r) + i] = q[i]
      BY <2>1
    <2>6. QED BY <2>1, <2>2, <2>3, <2>4, <2>5
  <1>4. /\ B \in Seq(S) /\ Len(B) = Len(c) - e
        /\ \A i \in 1..Len(c) - e : B[i] = c[e + i]
    <2>1. e \in 0..Len(c)
      BY <1>2
    <2>2. QED BY <1>2, <2>1, RestFacts
  <1> HIDE DEF A, B
  <1>5. Len(A) = Len(B)
    BY <1>1, <1>2, <1>3, <1>4
  <1>6. ASSUME NEW i \in 1..Len(p) - e PROVE A[i] = B[i]
    <2>1. A[i] = p[e + i]
      BY <1>1, <1>3
    <2>2. i \in 1..Len(c) - e /\ e + i \in 1..Len(p)
      BY <1>2
    <2>3. B[i] = p[e + i]
      BY <1>2, <1>4, <2>2
    <2>4. QED BY <2>1, <2>3
  <1>7. ASSUME NEW i \in 1..Len(q) PROVE A[Len(r) + i] = B[Len(r) + i]
    <2>1. A[Len(r) + i] = q[i]
      BY <1>3
    <2>2. /\ Len(r) + i \in 1..Len(c) - e
          /\ e + (Len(r) + i) = Len(p) + i
      BY <1>1, <1>2
    <2>3. B[Len(r) + i] = c[Len(p) + i]
      BY <1>4, <2>2
    <2>4. QED BY <1>2, <2>1, <2>3
  <1>8. \A i \in 1..Len(A) : A[i] = B[i]
    <2> SUFFICES ASSUME NEW i \in 1..Len(A) PROVE A[i] = B[i]
      OBVIOUS
    <2>1. CASE i \in 1..Len(p) - e
      BY <1>6, <2>1
    <2>2. CASE i \notin 1..Len(p) - e
      <3> DEFINE j == i - Len(r)
      <3>1. j \in 1..Len(q) /\ Len(r) + j = i
        BY <1>1, <1>2, <1>3, <2>2
      <3>2. QED BY <1>7, <3>1
    <2>3. QED BY <2>1, <2>2
  <1>9. A = B
    BY <1>3, <1>4, <1>5, <1>8, SameSequence
  <1>10. QED BY <1>9 DEF A, B, r, c

\* What the client reads was in the pipe, and what it leaves stays there.
LEMMA ReadOfStream ==
    ASSUME NEW S, NEW p \in Seq(S), NEW q \in Seq(S), NEW n \in 0..Len(q)
    PROVE  /\ (p \o SubSeq(q, 1, n)) \o SubSeq(q, n + 1, Len(q)) = p \o q
           /\ p \o SubSeq(q, 1, n) \in Seq(S)
  <1> DEFINE f == SubSeq(q, 1, n)
             r == SubSeq(q, n + 1, Len(q))
             g == p \o f
             A == g \o r
             B == p \o q
  <1>1. f \in Seq(S) /\ Len(f) = n /\ \A i \in 1..n : f[i] = q[i]
    OBVIOUS
  <1>2. r \in Seq(S) /\ Len(r) = Len(q) - n /\ \A i \in 1..Len(q) - n : r[i] = q[n + i]
    BY RestFacts
  <1>3. /\ B \in Seq(S) /\ Len(B) = Len(p) + Len(q) /\ Len(p) \in Nat /\ Len(q) \in Nat
        /\ \A i \in 1..Len(p) : B[i] = p[i]
        /\ \A i \in 1..Len(q) : B[Len(p) + i] = q[i]
    BY ConcatFacts
  <1> HIDE DEF f, r, B
  <1>4. /\ g \in Seq(S) /\ Len(g) = Len(p) + n
        /\ \A i \in 1..Len(p) : g[i] = p[i]
        /\ \A i \in 1..n : g[Len(p) + i] = f[i]
    <2>1. f \in Seq(S) /\ Len(f) = n
      BY <1>1
    <2>2. p \o f \in Seq(S)
      BY <2>1
    <2>3. Len(p \o f) = Len(p) + Len(f)
      BY <2>1
    <2>4. \A i \in 1..Len(p) : (p \o f)[i] = p[i]
      BY <2>1
    <2>5. \A i \in 1..Len(f) : (p \o f)[Len(p) + i] = f[i]
      BY <2>1
    <2>6. QED BY <2>1, <2>2, <2>3, <2>4, <2>5
  <1> HIDE DEF g
  <1>5. /\ A \in Seq(S) /\ Len(A) = Len(g) + Len(r)
        /\ \A i \in 1..Len(g) : A[i] = g[i]
        /\ \A i \in 1..Len(r) : A[Len(g) + i] = r[i]
    <2>1. g \in Seq(S) /\ r \in Seq(S)
      BY <1>2, <1>4
    <2>2. g \o r \in Seq(S)
      BY <2>1
    <2>3. Len(g \o r) = Len(g) + Len(r)
      BY <2>1
    <2>4. \A i \in 1..Len(g) : (g \o r)[i] = g[i]
      BY <2>1
    <2>5. \A i \in 1..Len(r) : (g \o r)[Len(g) + i] = r[i]
      BY <2>1
    <2>6. QED BY <2>1, <2>2, <2>3, <2>4, <2>5
  <1> HIDE DEF A
  <1>6. ASSUME NEW i \in 1..Len(p) PROVE A[i] = B[i]
    <2>1. i \in 1..Len(g)
      BY <1>3, <1>4
    <2>2. QED BY <1>3, <1>4, <1>5, <2>1
  <1>7. ASSUME NEW i \in 1..n PROVE A[Len(p) + i] = B[Len(p) + i] /\ i \in 1..Len(q)
                                    /\ g[Len(p) + i] = q[i]
    <2>1. Len(p) + i \in 1..Len(g) /\ i \in 1..Len(q)
      BY <1>3, <1>4
    <2>2. A[Len(p) + i] = g[Len(p) + i] /\ g[Len(p) + i] = f[i] /\ f[i] = q[i]
      BY <1>1, <1>4, <1>5, <2>1
    <2>3. QED BY <1>3, <2>1, <2>2
  <1>8. ASSUME NEW i \in 1..Len(r) PROVE A[Len(g) + i] = B[Len(g) + i]
    <2>1. A[Len(g) + i] = q[n + i]
      BY <1>2, <1>5
    <2>2. n + i \in 1..Len(q) /\ Len(g) + i = Len(p) + (n + i)
      BY <1>2, <1>3, <1>4
    <2>3. QED BY <1>3, <2>1, <2>2
  <1>9. Len(A) = Len(B)
    BY <1>2, <1>3, <1>4, <1>5
  <1>10. \A i \in 1..Len(A) : A[i] = B[i]
    <2> SUFFICES ASSUME NEW i \in 1..Len(A) PROVE A[i] = B[i]
      OBVIOUS
    <2>1. CASE i <= Len(p)
      BY <1>6, <2>1
    <2>2. CASE i > Len(p) /\ i <= Len(g)
      <3> DEFINE j == i - Len(p)
      <3>1. j \in 1..n /\ Len(p) + j = i
        BY <1>3, <1>4, <2>2
      <3>2. QED BY <1>7, <3>1
    <2>3. CASE i > Len(g)
      <3> DEFINE j == i - Len(g)
      <3>1. j \in 1..Len(r) /\ Len(g) + j = i
        BY <1>2, <1>3, <1>4, <1>5, <2>3
      <3>2. QED BY <1>8, <3>1
    <2>4. QED BY <1>3, <1>4, <2>1, <2>2, <2>3
  <1>11. A = B
    BY <1>3, <1>5, <1>9, <1>10, SameSequence
  <1>12. QED BY <1>4, <1>11 DEF A, B, f, g, r

-----------------------------------------------------------------------------
(***************************************************************************)
(* The inductive invariant.                                                *)
(***************************************************************************)
\* While the host lives the client's stream is open and framed: no header comes
\* without a length, no body is cut.
Stream == win.buffer \o stdout
Framed == hostUp => /\ ~win.closed
                    /\ Opening(Stream, win.contentLength, half)
                    /\ Follows(Stream, half)

IInv == /\ WindowShape /\ HostShape /\ Waited /\ DiskShape
        /\ Framed /\ Answers /\ DueWaits

\* The steps of the host that leave the window and the pipe alone.
Handling == HostLoop \/ CoreAnswers \/ Emit

\* Every step of the host moves the host, and keeps the file on disk whole.
LEMMA HandlingMoves ==
    ASSUME WindowShape, HostShape, Waited, DiskShape, Handling
    PROVE  HostMoves /\ DiskShape' /\ UNCHANGED <<scn, win, hostUp, half, stdout>>
  <1>1. CASE HostTakes
    <2>1. UNCHANGED <<scn, win, hostUp, half, stdout, disk, other, kept, met>>
      BY <1>1 DEF HostTakes
    <2>2. HostMoves BY <1>1, TakesMoves
    <2>3. QED BY <2>1, <2>2 DEF DiskShape
  <1>2. CASE TimesOut
    <2>1. UNCHANGED <<scn, win, hostUp, half, stdout, disk, other, kept, met>>
      BY <1>2 DEF TimesOut
    <2>2. HostMoves BY <1>2, TimesOutMoves
    <2>3. QED BY <2>1, <2>2 DEF DiskShape
  <1>3. CASE OpenEnds \/ StopEnds
    <2>1. UNCHANGED <<scn, win, hostUp, half, stdout, disk, other, kept, met>>
      BY <1>3 DEF OpenEnds, StopEnds
    <2>2. HostMoves BY <1>3, OpenMoves
    <2>3. QED BY <2>1, <2>2 DEF DiskShape
  <1>4. CASE HostWrites
    <2>1. UNCHANGED <<scn, win, hostUp, half, stdout>>
      BY <1>4 DEF HostWrites
    <2>2. HostMoves /\ DiskShape' BY <1>4, WritesMoves
    <2>3. QED BY <2>1, <2>2
  <1>5. CASE CoreAnswers
    <2>1. UNCHANGED <<scn, win, hostUp, half, stdout, disk, other, kept, met>>
      BY <1>5 DEF CoreAnswers
    <2>2. HostMoves BY <1>5, CoreAnswersMoves
    <2>3. QED BY <2>1, <2>2 DEF DiskShape
  <1>6. CASE Emit
    <2>1. UNCHANGED <<scn, win, hostUp, half, stdout, disk, other, kept, met>>
      BY <1>6 DEF Emit
    <2>2. HostMoves BY <1>6, EmitMoves
    <2>3. QED BY <2>1, <2>2 DEF DiskShape
  <1>7. QED BY <1>1, <1>2, <1>3, <1>4, <1>5, <1>6 DEF Handling, HostLoop, HostTurn

\* What was given stays given, as the host moves on.
LEMMA StillGiven ==
    ASSUME HostShape, HostMoves, NEW m \in Messages, Given(m, read, jobs)
    PROVE  Given(m, read', jobs')
  <1>1. read \in Nat /\ read' \in Nat /\ read <= read'
    BY DEF HostMoves, HostShape
  <1>2. SUFFICES ASSUME m.kind = "response"
                 PROVE  m.id \in 1..read' /\ \A j \in jobs' : j.id # m.id
    BY DEF Given
  <1>3. m.id \in 1..read /\ \A j \in jobs : j.id # m.id
    BY <1>2 DEF Given
  <1>4. \A j \in jobs' : j.id \in Nat
    BY DEF HostMoves, HostShape, JobRecs
  <1>5. QED BY <1>1, <1>3, <1>4 DEF HostMoves

\* The host keeps the invariant: what it answers was asked, and answered once.
LEMMA HandlingStep ==
    ASSUME IInv, Handling
    PROVE  IInv'
  <1>1. HostMoves /\ DiskShape' /\ UNCHANGED <<scn, win, hostUp, half, stdout>>
    BY HandlingMoves DEF IInv
  <1>2. HostShape' /\ Waited'
    BY <1>1 DEF HostMoves
  <1>3. WindowShape' /\ Framed'
    BY <1>1 DEF IInv, WindowShape, Framed, Stream
  <1>4. Answers'
    <2>1. \A i \in 1..Len(out') : Given(out'[i], read', jobs')
      <3> SUFFICES ASSUME NEW i \in 1..Len(out') PROVE Given(out'[i], read', jobs')
        OBVIOUS
      <3>1. CASE i \in 1..Len(out) /\ out'[i] = out[i]
        <4>1. out[i] \in Messages /\ Given(out[i], read, jobs)
          BY <3>1 DEF IInv, HostShape, Answers
        <4>2. QED BY <1>1, <3>1, <4>1, StillGiven DEF IInv
      <3>2. QED BY <1>1, <3>1 DEF HostMoves
    <2>2. half # None => Given(half, read', jobs')
      BY <1>1, StillGiven DEF IInv, HostShape, Answers
    <2>3. \A i \in 1..Len(stdout) :
             stdout[i].of \in Messages => Given(stdout[i].of, read', jobs')
      BY <1>1, StillGiven DEF IInv, Answers
    <2>4. \A i \in 1..Len(win.buffer) :
             win.buffer[i].of \in Messages => Given(win.buffer[i].of, read', jobs')
      BY <1>1, StillGiven DEF IInv, Answers
    <2>5. QED BY <1>1, <2>1, <2>2, <2>3, <2>4 DEF Answers
  <1>5. DueWaits'
    <2>1. \A i \in 1..Len(win.promise) : Due(i)' => Due(i)
      <3> SUFFICES ASSUME NEW i \in 1..Len(win.promise), Due(i)' PROVE Due(i)
        OBVIOUS
      <3>0. read \in Nat /\ read' \in Nat /\ read <= read' /\ i \in Nat
        BY <1>1 DEF IInv, HostMoves, HostShape
      <3>1. CASE i > read'
        BY <3>0, <3>1 DEF Due
      <3>2. CASE \E j \in jobs' : j.id = i
        BY <1>1, <3>2 DEF Due, HostMoves
      <3>3. QED BY <3>1, <3>2 DEF Due
    <2>2. QED BY <1>1, <2>1 DEF IInv, DueWaits
  <1>6. QED BY <1>1, <1>2, <1>3, <1>4, <1>5 DEF IInv

\* The parts about the host do not depend on what the window does, as long as it
\* forgets no request.
LEMMA HostStays ==
    ASSUME IInv, WellFormed(scn, win'), Keeps(win, win'),
           UNCHANGED <<scn, hostUp, read, live, jobs, out, half, calls, disk,
                       other, noted, kept, met>>
    PROVE  HostShape' /\ Waited' /\ DiskShape'
  <1>1. read' \in 0..Len(win'.asked)
    <2>1. /\ Len(win.asked) \in Nat /\ read \in 0..Len(win.asked)
      BY WindowFacts DEF IInv, HostShape
    <2>2. Len(win'.asked) \in Nat
      BY DEF WellFormed, Windows
    <2>3. QED BY <2>1, <2>2 DEF Keeps
  <1>2. HostShape'
    BY <1>1 DEF IInv, HostShape
  <1>3. Waited' /\ DiskShape'
    BY DEF IInv, Waited, Open, DiskShape
  <1>4. QED BY <1>2, <1>3

\* A request that is sent waits, its stream being open.
LEMMA AskStep ==
    ASSUME IInv, Ask
    PROVE  IInv'
  <1>1. /\ UNCHANGED <<scn, hostUp, read, live, jobs, out, half, calls, disk,
                       other, noted, kept, met>>
        /\ UNCHANGED stdout
    BY DEF Ask
  <1>2. WellFormed(scn, win') /\ Turns(win, win', 0, Waiting)
    BY AskFacts DEF IInv
  <1>3. HostShape' /\ Waited' /\ DiskShape' /\ WindowShape'
    BY <1>1, <1>2, HostStays DEF IInv, WindowShape, Turns
  <1>4. Framed' /\ Answers'
    BY <1>1, <1>2 DEF IInv, Framed, Stream, Answers, Turns
  <1>5. DueWaits'
    <2> SUFFICES ASSUME hostUp, NEW i \in 1..Len(win'.promise), Due(i)
                 PROVE  win'.promise[i] = Waiting
      BY <1>1 DEF DueWaits, Due
    <2>1. ~win.closed
      BY DEF IInv, Framed
    <2>2. CASE i <= Len(win.promise)
      <3>1. i \in 1..Len(win.promise) /\ i # 0
        BY <2>2, WindowFacts DEF IInv
      <3>2. win'.promise[i] = win.promise[i]
        BY <1>2, <3>1 DEF Turns
      <3>3. QED BY <3>1, <3>2 DEF IInv, DueWaits
    <2>3. CASE ~(i <= Len(win.promise))
      <3>1. i \in Len(win.promise) + 1..Len(win'.promise)
        BY <2>3, WindowFacts DEF IInv
      <3>2. QED BY <1>2, <2>1, <3>1 DEF Turns
    <2>4. QED BY <2>2, <2>3
  <1>6. QED BY <1>3, <1>4, <1>5 DEF IInv

\* The client settles what was answered, and nothing the host has still to do.
LEMMA BodyStep ==
    ASSUME IInv, ParsesBody
    PROVE  IInv'
  <1>1. /\ UNCHANGED <<scn, hostUp, read, live, jobs, out, half, calls, disk,
                       other, noted, kept, met>>
        /\ UNCHANGED stdout
    BY DEF ParsesBody
  <1> DEFINE L == win.contentLength
  <1>2. /\ WellFormed(scn, win') /\ Keeps(win, win') /\ win'.closed = win.closed
        /\ L \in 1..2 /\ L <= Len(win.buffer)
        /\ win'.buffer = RestOfBuffer /\ win'.contentLength = NoLength
    BY BodyFacts DEF IInv
  <1>3. HostShape' /\ Waited' /\ DiskShape' /\ WindowShape'
    BY <1>1, <1>2, HostStays DEF IInv, WindowShape
  <1>4. /\ win.buffer \in Seq(Tokens) /\ stdout \in Seq(Tokens) /\ Len(win.buffer) \in Nat
    BY WindowFacts DEF IInv, WindowShape
  <1>5. Framed'
    <2> SUFFICES ASSUME hostUp
                 PROVE  /\ ~win'.closed
                        /\ Opening(win'.buffer \o stdout, NoLength, half)
                        /\ Follows(win'.buffer \o stdout, half)
      BY <1>1, <1>2 DEF Framed, Stream
    <2>1. ~win.closed /\ Opening(Stream, L, half) /\ Follows(Stream, half)
      BY DEF IInv, Framed
    <2>2. /\ Stream \in Seq(Tokens) /\ Len(Stream) = Len(win.buffer) + Len(stdout)
          /\ Len(stdout) \in Nat
      BY <1>4, ConcatFacts DEF Stream
    <2>3. win'.buffer \o stdout = SubSeq(Stream, L + 1, Len(Stream))
      <3>1. L \in 0..Len(win.buffer)
        BY <1>2, <1>4
      <3>2. QED BY <1>2, <1>4, <3>1, FrontOfStream DEF Stream, RestOfBuffer
    <2>4. L <= Len(Stream) /\ L \in 0..Len(Stream)
      BY <1>2, <1>4, <2>2
    <2> HIDE DEF L
    <2>5. QED BY <1>2, <2>1, <2>2, <2>3, <2>4, FrameTail, FrameDrop
  <1>6. Answers'
    <2>1. \A i \in 1..Len(win'.buffer) :
             win'.buffer[i].of \in Messages => Given(win'.buffer[i].of, read, jobs)
      <3> SUFFICES ASSUME NEW i \in 1..Len(win'.buffer), win'.buffer[i].of \in Messages
                   PROVE  Given(win'.buffer[i].of, read, jobs)
        OBVIOUS
      <3>1. L + i \in 1..Len(win.buffer) /\ win'.buffer[i] = win.buffer[L + i]
        <4>1. L \in 0..Len(win.buffer)
          BY <1>2, <1>4
        <4>2. /\ Len(win'.buffer) = Len(win.buffer) - L
              /\ \A k \in 1..Len(win.buffer) - L : win'.buffer[k] = win.buffer[L + k]
          BY <1>2, <1>4, <4>1, RestFacts, ZenonT(40) DEF RestOfBuffer
        <4>3. QED BY <1>4, <4>1, <4>2
      <3>2. QED BY <3>1 DEF IInv, Answers
    <2>2. QED BY <1>1, <2>1 DEF IInv, Answers
  <1>7. DueWaits'
    <2> SUFFICES ASSUME hostUp, NEW i \in 1..Len(win'.promise), Due(i)
                 PROVE  win'.promise[i] = Waiting
      BY <1>1 DEF DueWaits, Due
    <2>1. ~win.closed
      BY DEF IInv, Framed
    <2>2. CASE i <= Len(win.promise)
      <3>1. i \in 1..Len(win.promise)
        BY <2>2, WindowFacts DEF IInv
      <3>2. win.promise[i] = Waiting
        BY <3>1 DEF IInv, DueWaits
      <3>3. ASSUME NEW k \in 1..Len(win.buffer), win.buffer[k].of \in Messages,
                   win.buffer[k].of.kind = "response", win.buffer[k].of.id = i
            PROVE  FALSE
        <4>1. i \in 1..read /\ \A j \in jobs : j.id # i
          BY <3>3 DEF IInv, Answers, Given
        <4>2. read \in Nat
          BY DEF IInv, HostShape
        <4>3. QED BY <4>1, <4>2 DEF Due
      <3>4. win'.promise[i] = win.promise[i]
        BY <3>1, <3>3, BodyFacts DEF IInv
      <3>5. QED BY <3>2, <3>4
    <2>3. CASE ~(i <= Len(win.promise))
      <3>1. i \in Len(win.promise) + 1..Len(win'.promise)
        BY <2>3, WindowFacts DEF IInv
      <3>2. QED BY <2>1, <3>1, BodyFacts DEF IInv
    <2>4. QED BY <2>2, <2>3
  <1>8. QED BY <1>3, <1>5, <1>6, <1>7 DEF IInv

\* The client's loop finds the length in every header it comes to.
LEMMA HeaderStep ==
    ASSUME IInv, ParsesHeader
    PROVE  IInv'
  <1>1. /\ UNCHANGED <<scn, hostUp, read, live, jobs, out, half, calls, disk,
                       other, noted, kept, met>>
        /\ UNCHANGED stdout
    BY DEF ParsesHeader
  <1>2. WellFormed(scn, win') /\ win'.asked = win.asked
    BY HeaderFacts DEF IInv
  <1>3. Keeps(win, win')
    BY <1>2, WindowFacts DEF IInv, Keeps
  <1>4. HostShape' /\ Waited' /\ DiskShape' /\ WindowShape'
    BY <1>1, <1>2, <1>3, HostStays DEF IInv, WindowShape
  <1>5. PICK e \in 1..Len(win.buffer) :
          /\ win.buffer[e].tok = "end"
          /\ \A k \in 1..e - 1 : win.buffer[k].tok # "end"
          /\ \/ /\ \A k \in 1..e - 1 : win.buffer[k].tok # "length"
                /\ win' = Closing(win)
             \/ /\ win'.promise = win.promise /\ win'.closed = win.closed
                /\ win'.buffer = SubSeq(win.buffer, e + 1, Len(win.buffer))
                /\ \E k \in 1..e - 1 : /\ win.buffer[k].tok = "length"
                                       /\ win'.contentLength = win.buffer[k].n
    BY HeaderFacts DEF IInv
  <1>6. /\ win.buffer \in Seq(Tokens) /\ stdout \in Seq(Tokens) /\ Len(win.buffer) \in Nat
        /\ Len(Stream) = Len(win.buffer) + Len(stdout) /\ Stream \in Seq(Tokens)
        /\ Len(stdout) \in Nat /\ e \in Nat
        /\ \A i \in 1..Len(win.buffer) : Stream[i] = win.buffer[i]
    <2>1. win.buffer \in Seq(Tokens) /\ stdout \in Seq(Tokens) /\ Len(win.buffer) \in Nat
      BY WindowFacts DEF IInv, WindowShape
    <2>2. QED BY <2>1, ConcatFacts DEF Stream
  <1>7. ASSUME hostUp
        PROVE  /\ ~win.closed /\ e = 2 /\ win.buffer[1].tok = "length"
               /\ win.buffer[1].n = Stream[1].n /\ win.contentLength = NoLength
               /\ Opening(SubSeq(Stream, 3, Len(Stream)), Stream[1].n, half)
    <2>1. ~win.closed /\ Opening(Stream, NoLength, half) /\ Follows(Stream, half)
          /\ win.contentLength = NoLength
      BY <1>7 DEF IInv, Framed, ParsesHeader, HeaderDue
    <2>2. Stream # <<>>
      BY <1>6
    <2>3. /\ Len(Stream) >= 2 /\ Stream[1].tok = "length" /\ Stream[2].tok = "end"
          /\ Opening(SubSeq(Stream, 3, Len(Stream)), Stream[1].n, half)
      BY <1>6, <2>1, <2>2, FrameHead
    <2>4. 1 \in 1..Len(win.buffer) /\ win.buffer[1] = Stream[1]
      BY <1>6
    <2>5. e # 1
      BY <1>5, <2>3, <2>4
    <2>6. 2 \in 1..Len(win.buffer) /\ win.buffer[2] = Stream[2]
      BY <1>6, <2>5
    <2>7. ~(e > 2)
      <3>1. e > 2 => 2 \in 1..e - 1
        BY <1>6
      <3>2. QED BY <1>5, <2>3, <2>6, <3>1
    <2>8. e = 2
      BY <1>6, <2>5, <2>7
    <2>9. QED BY <2>1, <2>3, <2>4, <2>8
  <1>8. CASE win' = Closing(win)
    <2>1. CASE hostUp
      <3>1. ~(\A k \in 1..e - 1 : win.buffer[k].tok # "length")
        <4>1. e - 1 = 1 /\ win.buffer[1].tok = "length"
          BY <1>7, <2>1
        <4>2. QED BY <4>1
      <3>2. ~win.closed /\ win'.closed
        BY <1>7, <1>8, <2>1, ClosingFacts DEF IInv, WindowShape
      <3>3. FALSE
        BY <1>5, <3>1, <3>2
      <3>4. QED BY <3>3
    <2>2. CASE ~hostUp
      <3>1. Framed' /\ DueWaits'
        BY <1>1, <2>2 DEF Framed, DueWaits
      <3>2. win'.buffer = win.buffer
        BY <1>8, WindowFacts DEF IInv, Closing, Windows
      <3>3. Answers'
        BY <1>1, <3>2 DEF IInv, Answers
      <3>4. QED BY <1>4, <3>1, <3>3 DEF IInv
    <2>3. QED BY <2>1, <2>2
  <1>9. CASE /\ win'.promise = win.promise /\ win'.closed = win.closed
             /\ win'.buffer = SubSeq(win.buffer, e + 1, Len(win.buffer))
             /\ \E k \in 1..e - 1 : /\ win.buffer[k].tok = "length"
                                    /\ win'.contentLength = win.buffer[k].n
    <2>1. e \in 0..Len(win.buffer)
      BY <1>6
    <2>2. DueWaits'
      BY <1>1, <1>9 DEF IInv, DueWaits, Due
    <2>3. Answers'
      <3>1. \A i \in 1..Len(win'.buffer) :
               win'.buffer[i].of \in Messages => Given(win'.buffer[i].of, read, jobs)
        <4> SUFFICES ASSUME NEW i \in 1..Len(win'.buffer), win'.buffer[i].of \in Messages
                     PROVE  Given(win'.buffer[i].of, read, jobs)
          OBVIOUS
        <4>1. e + i \in 1..Len(win.buffer) /\ win'.buffer[i] = win.buffer[e + i]
          <5>1. /\ Len(win'.buffer) = Len(win.buffer) - e
                /\ \A k \in 1..Len(win.buffer) - e : win'.buffer[k] = win.buffer[e + k]
            BY <1>6, <1>9, <2>1, RestFacts, ZenonT(40)
          <5>2. QED BY <1>6, <2>1, <5>1
        <4>2. QED BY <4>1 DEF IInv, Answers
      <3>2. QED BY <1>1, <3>1 DEF IInv, Answers
    <2>4. Framed'
      <3> SUFFICES ASSUME hostUp
                   PROVE  /\ ~win'.closed
                          /\ Opening(win'.buffer \o stdout, win'.contentLength, half)
                          /\ Follows(win'.buffer \o stdout, half)
        BY <1>1 DEF Framed, Stream
      <3>1. ~win'.closed /\ win'.contentLength = Stream[1].n
        <4>1. PICK k \in 1..e - 1 : win'.contentLength = win.buffer[k].n
          BY <1>9
        <4>2. k = 1
          BY <1>7, <4>1
        <4>3. QED BY <1>7, <1>9, <4>1, <4>2
      <3>2. win'.buffer \o stdout = SubSeq(Stream, e + 1, Len(Stream))
        BY <1>6, <1>9, <2>1, FrontOfStream DEF Stream
      <3>3. win'.buffer \o stdout = SubSeq(Stream, 3, Len(Stream))
        BY <1>7, <3>2
      <3>4. Follows(win'.buffer \o stdout, half)
        <4>1. e \in 0..Len(Stream)
          BY <1>6, <2>1
        <4>2. Follows(Stream, half)
          BY DEF IInv, Framed
        <4>3. QED BY <1>6, <3>2, <4>1, <4>2, FrameDrop
      <3>5. QED BY <1>7, <3>1, <3>3, <3>4
    <2>5. QED BY <1>4, <2>2, <2>3, <2>4 DEF IInv
  <1>10. QED BY <1>5, <1>8, <1>9

\* A chunk moves from the pipe to the buffer: the stream is the same.
LEMMA ReadStep ==
    ASSUME IInv, ClientReads
    PROVE  IInv'
  <1>1. PICK n \in Cuts :
          /\ win' = [win EXCEPT !.buffer = @ \o SubSeq(stdout, 1, n)]
          /\ stdout' = SubSeq(stdout, n + 1, Len(stdout))
    BY Zenon DEF ClientReads
  <1>2. UNCHANGED <<scn, hostUp, read, live, jobs, out, half, calls, disk,
                    other, noted, kept, met>>
    BY DEF ClientReads
  <1>3. /\ win.buffer \in Seq(Tokens) /\ stdout \in Seq(Tokens) /\ Len(stdout) \in Nat
        /\ win \in Windows(scn)
    BY WindowFacts DEF IInv, WindowShape
  <1>4. n \in 0..Len(stdout)
    BY <1>1, <1>3 DEF Cuts
  <1> DEFINE b == win.buffer \o SubSeq(stdout, 1, n)
  <1>5. /\ b \in Seq(Tokens) /\ b \o stdout' = Stream
        /\ \A i \in 1..Len(b) : \/ i \in 1..Len(win.buffer) /\ b[i] = win.buffer[i]
                                \/ \E k \in 1..Len(stdout) : b[i] = stdout[k]
    <2>1. b \in Seq(Tokens) /\ b \o SubSeq(stdout, n + 1, Len(stdout)) = win.buffer \o stdout
      <3>1. \A p, q \in Seq(Tokens) : \A k \in 0..Len(q) :
              /\ (p \o SubSeq(q, 1, k)) \o SubSeq(q, k + 1, Len(q)) = p \o q
              /\ p \o SubSeq(q, 1, k) \in Seq(Tokens)
        BY ReadOfStream
      <3>2. win.buffer \in Seq(Tokens) /\ stdout \in Seq(Tokens)
        BY <1>3
      <3>3. QED BY <1>4, <3>1, <3>2, Zenon
    <2>4. \A i \in 1..Len(b) : \/ i \in 1..Len(win.buffer) /\ b[i] = win.buffer[i]
                               \/ \E k \in 1..Len(stdout) : b[i] = stdout[k]
      <3> DEFINE f == SubSeq(stdout, 1, n)
      <3>1. f \in Seq(Tokens) /\ Len(f) = n /\ \A i \in 1..n : f[i] = stdout[i]
        BY <1>3, <1>4
      <3>2. b = win.buffer \o f
        OBVIOUS
      <3> HIDE DEF f, b
      <3>3. /\ Len(b) = Len(win.buffer) + n /\ Len(win.buffer) \in Nat
            /\ \A i \in 1..Len(win.buffer) : b[i] = win.buffer[i]
            /\ \A i \in 1..n : b[Len(win.buffer) + i] = f[i]
        <4>1. win.buffer \in Seq(Tokens) /\ f \in Seq(Tokens)
          BY <1>3, <3>1
        <4>2. \A p, q \in Seq(Tokens) :
                /\ Len(p \o q) = Len(p) + Len(q) /\ Len(p) \in Nat
                /\ \A i \in 1..Len(p) : (p \o q)[i] = p[i]
                /\ \A i \in 1..Len(q) : (p \o q)[Len(p) + i] = q[i]
          BY ConcatFacts
        <4>3. /\ Len(b) = Len(win.buffer) + Len(f) /\ Len(win.buffer) \in Nat
              /\ \A i \in 1..Len(win.buffer) : b[i] = win.buffer[i]
              /\ \A i \in 1..Len(f) : b[Len(win.buffer) + i] = f[i]
          BY <3>2, <4>1, <4>2, Zenon
        <4>4. QED BY <3>1, <4>3
      <3>4. ASSUME NEW i \in 1..Len(b), i \notin 1..Len(win.buffer)
            PROVE  \E k \in 1..Len(stdout) : b[i] = stdout[k]
        <4> DEFINE k == i - Len(win.buffer)
        <4>1. k \in 1..n /\ k \in 1..Len(stdout) /\ Len(win.buffer) + k = i
          BY <1>3, <1>4, <3>3, <3>4
        <4>2. QED BY <3>1, <3>3, <4>1
      <3>5. QED BY <3>3, <3>4
    <2>2. b \o stdout' = Stream
      BY <1>1, <2>1 DEF Stream
    <2>3. QED BY <2>1, <2>2, <2>4
  <1>6. win' = [win EXCEPT !.buffer = b]
    BY <1>1
  <1> HIDE DEF b
  <1>7. /\ win' \in Windows(scn) /\ win'.asked = win.asked /\ win'.promise = win.promise
        /\ win'.closed = win.closed /\ win'.buffer = b
        /\ win'.contentLength = win.contentLength
    BY <1>3, <1>5, <1>6 DEF Windows
  <1>8. WellFormed(scn, win') /\ Keeps(win, win')
    BY <1>7, WindowFacts DEF IInv, WindowShape, WellFormed, Keeps
  <1>9. /\ stdout' \in Seq(Tokens) /\ Len(stdout') = Len(stdout) - n
        /\ \A i \in 1..Len(stdout) - n : stdout'[i] = stdout[n + i]
    BY <1>1, <1>3, <1>4, RestFacts
  <1>10. HostShape' /\ Waited' /\ DiskShape' /\ WindowShape'
    BY <1>2, <1>8, <1>9, HostStays DEF IInv, WindowShape
  <1>11. Framed' /\ DueWaits'
    BY <1>2, <1>5, <1>7 DEF IInv, Framed, Stream, DueWaits, Due
  <1>12. Answers'
    <2>1. \A i \in 1..Len(stdout') :
             stdout'[i].of \in Messages => Given(stdout'[i].of, read, jobs)
      <3> SUFFICES ASSUME NEW i \in 1..Len(stdout'), stdout'[i].of \in Messages
                   PROVE  Given(stdout'[i].of, read, jobs)
        OBVIOUS
      <3>1. n + i \in 1..Len(stdout) /\ stdout'[i] = stdout[n + i]
        BY <1>3, <1>4, <1>9
      <3>2. QED BY <3>1 DEF IInv, Answers
    <2>2. \A i \in 1..Len(b) : b[i].of \in Messages => Given(b[i].of, read, jobs)
      BY <1>5 DEF IInv, Answers
    <2>3. QED BY <1>2, <1>7, <2>1, <2>2 DEF IInv, Answers
  <1>13. QED BY <1>10, <1>11, <1>12 DEF IInv

\* The client closes only behind a host that is gone.
LEMMA CloseStep ==
    ASSUME IInv, ClientCloses
    PROVE  IInv'
  <1>1. /\ UNCHANGED <<scn, hostUp, read, live, jobs, out, half, calls, disk,
                       other, noted, kept, met>>
        /\ UNCHANGED stdout /\ ~hostUp /\ win' = Closing(win)
    BY DEF ClientCloses
  <1>2. WellFormed(scn, win') /\ win'.asked = win.asked
    BY <1>1, ClosingFacts DEF IInv, WindowShape
  <1>3. Keeps(win, win')
    BY <1>2, WindowFacts DEF IInv, Keeps
  <1>4. HostShape' /\ Waited' /\ DiskShape' /\ WindowShape'
    BY <1>1, <1>2, <1>3, HostStays DEF IInv, WindowShape
  <1>5. Framed' /\ DueWaits'
    BY <1>1 DEF Framed, DueWaits
  <1>6. win'.buffer = win.buffer
    BY <1>1, WindowFacts DEF IInv, Closing, Windows
  <1>7. Answers'
    BY <1>1, <1>6 DEF IInv, Answers
  <1>8. QED BY <1>4, <1>5, <1>7 DEF IInv

\* The writer puts whole frames behind whole frames.
LEMMA HeaderWritten ==
    ASSUME IInv, WriteHeader
    PROVE  IInv'
  <1>1. /\ UNCHANGED <<scn, win, hostUp, read, live, jobs, calls, disk, other,
                       noted, kept, met>>
        /\ hostUp /\ half = None /\ out # <<>> /\ half' = Head(out) /\ out' = Tail(out)
        /\ stdout' = stdout \o Header(Head(out))
    BY DEF WriteHeader
  <1> DEFINE m == Head(out)
  <1>2. /\ out \in Seq(Messages) /\ stdout \in Seq(Tokens) /\ win.buffer \in Seq(Tokens)
        /\ Stream \in Seq(Tokens)
    <2>1. out \in Seq(Messages) /\ stdout \in Seq(Tokens) /\ win.buffer \in Seq(Tokens)
      BY WindowFacts DEF IInv, HostShape, WindowShape
    <2>2. QED BY <2>1, ConcatFacts DEF Stream
  <1>3. /\ m \in Messages /\ m = out[1] /\ 1 \in 1..Len(out)
        /\ out' \in Seq(Messages) /\ Len(out') = Len(out) - 1 /\ Len(out) \in Nat
        /\ \A i \in 1..Len(out) - 1 : out'[i] = out[i + 1]
    BY <1>1, <1>2, TailFacts
  <1> HIDE DEF m
  <1>4. Header(m) \in Seq(Tokens) /\ \A i \in 1..Len(Header(m)) : Header(m)[i].of = None
    <2>1. Length(m) \in 1..2 BY <1>3, LengthFacts
    <2>2. /\ Token("length", Length(m), None) \in Tokens
          /\ Token("length", Length(m), None).of = None
      BY <2>1 DEF Token, Tokens
    <2>3. Token("end", 0, None) \in Tokens /\ Token("end", 0, None).of = None
      BY DEF Token, Tokens
    <2>4. QED BY <2>2, <2>3 DEF Header
  <1>5. /\ stdout' \in Seq(Tokens)
        /\ Len(stdout') = Len(stdout) + Len(Header(m))
        /\ \A i \in 1..Len(stdout) : stdout'[i] = stdout[i]
        /\ \A i \in 1..Len(Header(m)) : stdout'[Len(stdout) + i] = Header(m)[i]
        /\ Len(stdout) \in Nat /\ Len(Header(m)) \in Nat
    <2>1. stdout' = stdout \o Header(m)
      BY <1>1 DEF m
    <2>2. QED BY <1>2, <1>4, <2>1, ConcatFacts
  <1>6. WindowShape' /\ HostShape' /\ Waited' /\ DiskShape' /\ DueWaits'
    <2>1. half' \in Messages
      BY <1>1, <1>3 DEF m
    <2>2. QED BY <1>1, <1>3, <1>5, <2>1
            DEF IInv, WindowShape, HostShape, Waited, Open, DiskShape, DueWaits, Due
  <1>7. Framed'
    <2>1. ~win.closed /\ Opening(Stream, win.contentLength, None) /\ Follows(Stream, None)
      BY <1>1 DEF IInv, Framed
    <2>2. win.buffer \o stdout' = Stream \o Header(m)
      <3>1. win.buffer \o (stdout \o Header(m)) = (win.buffer \o stdout) \o Header(m)
        <4>1. \A p, q, r \in Seq(Tokens) : p \o (q \o r) = (p \o q) \o r
          BY ConcatAssociates
        <4>2. win.buffer \in Seq(Tokens) /\ stdout \in Seq(Tokens)
              /\ Header(m) \in Seq(Tokens)
          BY <1>2, <1>4
        <4>3. QED BY <4>1, <4>2, Zenon
      <3>2. QED BY <1>1, <3>1 DEF Stream, m
    <2>3. /\ Opening(Stream \o Header(m), win.contentLength, m)
          /\ Follows(Stream \o Header(m), m)
      BY <1>2, <1>3, <2>1, FrameHeader
    <2>4. half' = m
      BY <1>1 DEF m
    <2>5. QED BY <1>1, <2>1, <2>2, <2>3, <2>4 DEF Framed, Stream
  <1>8. Answers'
    <2>1. \A i \in 1..Len(out') : Given(out'[i], read, jobs)
      BY <1>3 DEF IInv, Answers
    <2>2. Given(half', read, jobs)
      BY <1>1, <1>3 DEF IInv, Answers, m
    <2>3. \A i \in 1..Len(stdout') :
             stdout'[i].of \in Messages => Given(stdout'[i].of, read, jobs)
      <3> SUFFICES ASSUME NEW i \in 1..Len(stdout'), stdout'[i].of \in Messages
                   PROVE  Given(stdout'[i].of, read, jobs)
        OBVIOUS
      <3>1. CASE i \in 1..Len(stdout)
        BY <1>5, <3>1 DEF IInv, Answers
      <3>2. CASE i \notin 1..Len(stdout)
        <4> DEFINE k == i - Len(stdout)
        <4>1. k \in 1..Len(Header(m)) /\ Len(stdout) + k = i
          BY <1>5, <3>2
        <4>2. stdout'[i].of = None
          BY <1>4, <1>5, <4>1
        <4>3. QED BY <4>2, NoneIsNoMessage
      <3>3. QED BY <3>1, <3>2
    <2>4. QED BY <1>1, <2>1, <2>2, <2>3 DEF IInv, Answers
  <1>9. QED BY <1>6, <1>7, <1>8 DEF IInv

\* The body that is owed closes the frame its header opened.
LEMMA BodyWritten ==
    ASSUME IInv, WriteBody
    PROVE  IInv'
  <1>1. /\ UNCHANGED <<scn, win, hostUp, read, live, jobs, out, calls, disk, other,
                       noted, kept, met>>
        /\ hostUp /\ half # None /\ half' = None /\ stdout' = stdout \o Body(half)
    BY DEF WriteBody
  <1>2. /\ stdout \in Seq(Tokens) /\ win.buffer \in Seq(Tokens) /\ Stream \in Seq(Tokens)
        /\ half \in Messages /\ Len(stdout) \in Nat
    <2>1. stdout \in Seq(Tokens) /\ win.buffer \in Seq(Tokens)
      BY WindowFacts DEF IInv, WindowShape
    <2>2. half \in Messages
      BY <1>1 DEF IInv, HostShape
    <2>3. QED BY <2>1, <2>2, ConcatFacts DEF Stream
  <1> DEFINE B == Body(half)
  <1>3. B \in Seq(Tokens) /\ \A i \in 1..Len(B) : B[i].of = half
    <2>1. Length(half) \in 1..2 BY <1>2, LengthFacts
    <2>2. \A i \in 1..Length(half) : /\ Token("body", i, half) \in Tokens
                                     /\ Token("body", i, half).of = half
      BY <1>2, <2>1 DEF Token, Tokens
    <2>3. B = [k \in 1..Length(half) |-> Token("body", k, half)]
      BY DEF Body
    <2> HIDE DEF B
    <2>4. B \in Seq(Tokens) /\ Len(B) = Length(half)
      BY <2>1, <2>2, <2>3
    <2>5. QED BY <2>1, <2>2, <2>3, <2>4
  <1>4. stdout' = stdout \o B
    BY <1>1
  <1> HIDE DEF B
  <1>5. /\ stdout' \in Seq(Tokens)
        /\ Len(stdout') = Len(stdout) + Len(B)
        /\ \A i \in 1..Len(stdout) : stdout'[i] = stdout[i]
        /\ \A i \in 1..Len(B) : stdout'[Len(stdout) + i] = B[i]
        /\ Len(B) \in Nat
    BY <1>2, <1>3, <1>4, ConcatFacts
  <1>6. WindowShape' /\ HostShape' /\ Waited' /\ DiskShape' /\ DueWaits'
    BY <1>1, <1>5
       DEF IInv, WindowShape, HostShape, Waited, Open, DiskShape, DueWaits, Due
  <1>7. Framed'
    <2>1. ~win.closed /\ Opening(Stream, win.contentLength, half) /\ Follows(Stream, half)
      BY <1>1 DEF IInv, Framed
    <2>2. win.buffer \o stdout' = Stream \o B
      <3>1. \A p, q, r \in Seq(Tokens) : p \o (q \o r) = (p \o q) \o r
        BY ConcatAssociates
      <3>2. win.buffer \o (stdout \o B) = (win.buffer \o stdout) \o B
        BY <1>2, <1>3, <3>1, Zenon
      <3>3. QED BY <1>4, <3>2 DEF Stream
    <2>3. /\ Opening(Stream \o B, win.contentLength, None)
          /\ Follows(Stream \o B, None)
      BY <1>2, <2>1, FrameBody DEF B
    <2>4. QED BY <1>1, <2>1, <2>2, <2>3 DEF Framed, Stream
  <1>8. Answers'
    <2>1. \A i \in 1..Len(stdout') :
             stdout'[i].of \in Messages => Given(stdout'[i].of, read, jobs)
      <3> SUFFICES ASSUME NEW i \in 1..Len(stdout'), stdout'[i].of \in Messages
                   PROVE  Given(stdout'[i].of, read, jobs)
        OBVIOUS
      <3>1. CASE i \in 1..Len(stdout)
        BY <1>5, <3>1 DEF IInv, Answers
      <3>2. CASE i \notin 1..Len(stdout)
        <4> DEFINE k == i - Len(stdout)
        <4>1. k \in 1..Len(B) /\ Len(stdout) + k = i
          BY <1>2, <1>5, <3>2
        <4>2. stdout'[i].of = half
          BY <1>3, <1>5, <4>1
        <4>3. QED BY <1>1, <4>2 DEF IInv, Answers
      <3>3. QED BY <3>1, <3>2
    <2>2. QED BY <1>1, <2>1 DEF IInv, Answers
  <1>9. QED BY <1>6, <1>7, <1>8 DEF IInv

\* With the host die its handlers; what it was asked may still be answered by
\* what is in the pipe, and then by the end of the stream.
LEMMA ExitStep ==
    ASSUME IInv, HostExits
    PROVE  IInv'
  <1>1. /\ UNCHANGED <<scn, win, read, stdout, disk, other, noted, kept, met>>
        /\ hostUp' = FALSE /\ jobs' = {} /\ out' = <<>> /\ half' = None /\ live' = "none"
        /\ calls' = [c \in DOMAIN calls |-> [calls[c] EXCEPT !.left = TRUE]]
    BY DEF HostExits
  <1>2. calls \in Seq(CallRecs(scn)) /\ Len(calls) \in Nat
    BY DEF IInv, HostShape
  <1>3. /\ calls' \in Seq(CallRecs(scn)) /\ Len(calls') = Len(calls)
        /\ \A c \in 1..Len(calls) : calls'[c] = [calls[c] EXCEPT !.left = TRUE]
    <2>1. ASSUME NEW c \in 1..Len(calls)
          PROVE  [calls[c] EXCEPT !.left = TRUE] \in CallRecs(scn)
      <3>1. calls[c] \in CallRecs(scn) BY <1>2
      <3>2. QED BY <3>1 DEF CallRecs
    <2>2. calls' \in [1..Len(calls) -> CallRecs(scn)]
      BY <1>1, <1>2, <2>1
    <2>3. QED BY <1>1, <1>2, <2>2
  <1>4. \A c \in 1..Len(calls') : ~Open(calls', c)
    <2>1. ASSUME NEW c \in 1..Len(calls) PROVE [calls[c] EXCEPT !.left = TRUE].left
      <3>1. calls[c] \in CallRecs(scn) BY <1>2
      <3>2. QED BY <3>1 DEF CallRecs
    <2>2. \A c \in 1..Len(calls') : calls'[c].left
      BY <1>3, <2>1
    <2>3. QED BY <2>2 DEF Open
  <1>5. Waited'
    BY <1>1, <1>4 DEF Waited
  <1>6. HostShape'
    <2>0. hostUp' \in BOOLEAN
      BY <1>1, Zenon
    <2>1. /\ live' \in Lives /\ jobs' \in SUBSET JobRecs(scn') /\ out' \in Seq(Messages)
          /\ half' \in Messages \cup {None}
      BY <1>1 DEF Lives
    <2>2. noted' \in Nat /\ read' \in 0..Len(win'.asked)
      BY <1>1 DEF IInv, HostShape
    <2>3. calls' \in Seq(CallRecs(scn'))
      BY <1>1, <1>3
    <2>4. QED BY <1>1, <2>0, <2>1, <2>2, <2>3 DEF HostShape
  <1>7. WindowShape' /\ DiskShape' /\ Framed' /\ DueWaits'
    BY <1>1 DEF IInv, WindowShape, DiskShape, Framed, DueWaits
  <1>8. Answers'
    BY <1>1 DEF IInv, Answers, Given
  <1>9. QED BY <1>5, <1>6, <1>7, <1>8 DEF IInv

\* The other window's host changes the disk and nothing else.
LEMMA OtherStep ==
    ASSUME IInv, OtherWrites
    PROVE  IInv'
  <1>1. PICK step \in write_key(other, scn.theirs) : Does(step, jobs) /\ other' = step.w
    BY DEF OtherWrites
  <1>2. UNCHANGED <<scn, win, hostUp, read, live, jobs, out, half, stdout, calls, noted>>
    BY DEF OtherWrites
  <1>3. scn.theirs \in Leaves(scn) /\ other \in JobRecs(scn)
    BY DEF Leaves, IInv, DiskShape
  <1>4. /\ step.w \in JobRecs(scn) /\ step.disk \in Disks(scn) /\ OnDisk(step.disk)
        /\ step.kept \in SUBSET Leaves(scn)
    BY <1>1, <1>3, WriteFacts DEF IInv
  <1>5. disk' = step.disk /\ kept' = step.kept
    BY <1>1 DEF Does
  <1>6. met' \in BOOLEAN
    BY <1>1, Zenon DEF Does, IInv, DiskShape
  <1>7. DiskShape'
    BY <1>1, <1>2, <1>4, <1>5, <1>6 DEF DiskShape
  <1>8. QED
    BY <1>2, <1>7 DEF IInv, WindowShape, HostShape, Waited, Open, Framed, Stream,
                      Answers, DueWaits, Due

\* A window that has asked nothing, a host that was asked nothing.
LEMMA InitInv == Init => IInv
  <1> SUFFICES ASSUME Init PROVE IInv
    OBVIOUS
  <1> USE DEF Init
  <1>1. WindowShape
    <2>1. win \in Windows(scn)
      BY DEF Windows
    <2>2. scn \in Scenarios /\ scn.max \in Nat
      BY HostConstants
    <2>3. Len(win.asked) = 0 /\ Len(win.promise) = 0 /\ stdout \in Seq(Tokens)
      OBVIOUS
    <2>4. 0 <= scn.max
      BY <2>2
    <2>5. QED BY <2>1, <2>2, <2>3, <2>4 DEF WindowShape, WellFormed
  <1>2. HostShape
    BY ScenarioLives DEF HostShape
  <1>3. Waited
    BY DEF Waited
  <1>4. DiskShape
    <2>1. scn.doc \in SUBSET Leaves(scn)
      BY DEF Leaves
    <2> DEFINE at == IF scn.theirs = <<>> THEN "idle" ELSE "read"
    <2>2. at \in Stages
      BY DEF Stages
    <2> HIDE DEF at
    <2>3. other \in JobRecs(scn)
      <3>1. other = Job(0, at) BY DEF at
      <3>2. QED BY <2>2, <3>1, JobFacts
    <2>4. <<scn.doc>> \in Seq(SUBSET Leaves(scn)) /\ Len(<<scn.doc>>) = 1
      BY <2>1
    <2>5. disk \in Disks(scn) /\ OnDisk(disk)
      BY <2>4 DEF Disks, OnDisk
    <2>6. QED BY <2>1, <2>3, <2>5 DEF DiskShape
  <1>5. Framed
    <2>1. Stream = <<>>
      BY DEF Stream
    <2>2. QED BY <2>1 DEF Framed, Opening, Follows
  <1>6. Answers
    BY DEF Answers
  <1>7. DueWaits
    BY DEF DueWaits
  <1>8. QED BY <1>1, <1>2, <1>3, <1>4, <1>5, <1>6, <1>7 DEF IInv

\* Whatever is asked and whoever dies: one handler at a time, whole frames, no
\* request answered twice or before it was read.
THEOREM Inductive == Spec => []IInv
  <1>1. IInv /\ [Next]_vars => IInv'
    <2> SUFFICES ASSUME IInv, [Next]_vars PROVE IInv'
      OBVIOUS
    <2>1. CASE Ask BY <2>1, AskStep
    <2>2. CASE HostLoop \/ CoreAnswers \/ Emit BY <2>2, HandlingStep DEF Handling
    <2>3. CASE OtherWrites BY <2>3, OtherStep
    <2>4. CASE Writer BY <2>4, HeaderWritten, BodyWritten DEF Writer
    <2>5. CASE Client BY <2>5, ReadStep, HeaderStep, BodyStep, CloseStep DEF Client
    <2>6. CASE HostExits BY <2>6, ExitStep
    <2>7. CASE UNCHANGED vars
      BY <2>7 DEF IInv, WindowShape, HostShape, Waited, Open, DiskShape, Framed, Stream,
                  Answers, DueWaits, Due, vars
    <2>8. QED BY <2>1, <2>2, <2>3, <2>4, <2>5, <2>6, <2>7 DEF Next
  <1>2. QED BY InitInv, <1>1, PTL DEF Spec

\* Promises and requests go together, at most one handler is at work and its
\* request waits, and the client closes only behind a host that is gone.
THEOREM TypeCorrect == Spec => []TypeOK
  <1>1. IInv => TypeOK
    <2> SUFFICES ASSUME IInv PROVE TypeOK
      OBVIOUS
    <2>1. /\ scn \in Scenarios /\ DOMAIN win.promise = DOMAIN win.asked
          /\ Len(win.asked) <= scn.max
          /\ \A i \in DOMAIN win.promise : win.promise[i] \in Outcomes
          /\ win.contentLength \in 1..2 \cup {NoLength}
      <3>1. /\ win.promise \in Seq(Outcomes) /\ Len(win.promise) = Len(win.asked)
            /\ win.asked \in Seq(Asks(scn))
            /\ win.contentLength \in 1..2 \cup {NoLength}
        BY WindowFacts DEF IInv
      <3>2. QED BY <3>1 DEF IInv, WindowShape, WellFormed
    <2>2. hostUp \in BOOLEAN /\ live \in Lives /\ read \in 0..Len(win.asked)
      BY DEF IInv, HostShape
    <2>3. Cardinality(jobs) <= 1
      <3>1. CASE jobs = {}
        <4>1. Cardinality(jobs) = 0 BY <3>1, FS_EmptySet
        <4>2. QED BY <4>1
      <3>2. CASE jobs # {}
        <4>1. PICK job \in jobs : TRUE BY <3>2
        <4>2. jobs = {job} BY OnlyHandler DEF IInv
        <4>3. Cardinality(jobs) = 1 BY <4>2, FS_Singleton
        <4>4. QED BY <4>3
      <3>3. QED BY <3>1, <3>2
    <2>4. ASSUME NEW job \in jobs
          PROVE  /\ job.id \in 1..read /\ win.promise[job.id] = Waiting
                 /\ job.at \in {"calling", "locating", "showing"} =>
                      calls[job.call].by = job.id /\ calls[job.call].state = "running"
      <3>1. job.id \in 1..read /\ hostUp
        BY OnlyHandler DEF IInv
      <3>2. job.id \in 1..Len(win.promise)
        BY <2>2, <3>1, WindowFacts DEF IInv
      <3>3. win.promise[job.id] = Waiting
        BY <3>1, <3>2 DEF IInv, DueWaits, Due
      <3>4. QED BY <3>1, <3>3 DEF IInv, Waited, Open, Awaiting
    <2>5. win.closed => ~hostUp
      BY DEF IInv, Framed
    <2>6. \A c \in DOMAIN calls : calls[c].call \in DOMAIN Wanted
      <3>1. calls \in Seq(CallRecs(scn)) BY DEF IInv, HostShape
      <3>2. \A c \in DOMAIN calls : calls[c] \in CallRecs(scn) BY <3>1
      <3>3. QED BY <3>2 DEF CallRecs
    <2>7. disk.temp \in 0..Len(disk.text) /\ disk.config \in 0..Len(disk.text)
      <3>1. disk.text \in Seq(SUBSET Leaves(scn)) BY DEF IInv, DiskShape, Disks
      <3>2. Len(disk.text) \in Nat BY <3>1
      <3>3. QED BY <3>2 DEF IInv, DiskShape, OnDisk
    <2>8. QED BY <2>1, <2>2, <2>3, <2>4, <2>5, <2>6, <2>7 DEF TypeOK
  <1>2. QED BY Inductive, <1>1, PTL

-----------------------------------------------------------------------------
(***************************************************************************)
(* Boots.  The host waits for one call at a time, the last it made.        *)
(***************************************************************************)
Latest == \A c \in 1..Len(calls) : Open(calls, c) => c = Len(calls)

\* The calls may end, and one may be made.
CallsMove == \/ /\ Len(calls') = Len(calls)
                /\ \A c \in 1..Len(calls) : Open(calls', c) => Open(calls, c)
             \/ Len(calls') = Len(calls) + 1 /\ Open(calls', Len(calls) + 1)

\* A call that is made is the last, and is waited for.
LEMMA CallingMoves ==
    ASSUME HostShape, NEW id, NEW call, NEW arg, Calling(id, call, arg)
    PROVE  CallsMove
  <1> DEFINE c == [by |-> id, call |-> call, arg |-> arg, state |-> "running",
                   left |-> FALSE]
  <1>1. calls' = Append(calls, c) /\ c.state = "running" /\ ~c.left
    BY DEF Calling
  <1> HIDE DEF c
  <1>2. calls \in Seq(CallRecs(scn)) /\ Len(calls) \in Nat
    BY DEF HostShape
  <1>3. Len(calls') = Len(calls) + 1 /\ calls'[Len(calls) + 1] = c
    BY <1>1, <1>2
  <1>4. QED BY <1>1, <1>3 DEF CallsMove, Open

\* A call ends for one side or the other, and is not taken up again.
LEMMA EndingMoves ==
    ASSUME HostShape, NEW c \in 1..Len(calls), NEW v, v.state # "running" \/ v.left,
           calls' = [calls EXCEPT ![c] = v]
    PROVE  CallsMove
  <1>1. calls \in Seq(CallRecs(scn)) /\ Len(calls) \in Nat
    BY DEF HostShape
  <1>2. /\ Len(calls') = Len(calls)
        /\ \A i \in 1..Len(calls) : i # c => calls'[i] = calls[i]
        /\ calls'[c] = v
    BY <1>1
  <1>3. QED BY <1>2 DEF CallsMove, Open

\* Every step ends calls or makes one.
LEMMA EveryStepsCalls ==
    ASSUME IInv, [Next]_vars
    PROVE  CallsMove
  <1>1. HostShape /\ calls \in Seq(CallRecs(scn)) /\ Len(calls) \in Nat
    BY DEF IInv, HostShape
  <1>2. CASE UNCHANGED calls
    BY <1>2 DEF CallsMove, Open
  <1>3. CASE HostTakes
    <2>1. \E id, call, arg : UNCHANGED calls \/ Calling(id, call, arg)
      BY <1>3 DEF HostTakes, Dispatch
    <2>2. QED BY <1>1, <1>2, <2>1, CallingMoves
  <1>4. CASE HostWrites
    <2>1. PICK job \in jobs : \E step \in write_key(job, Param(Of(job), "key")) :
            CASE step.w.at \in Writing ->
                       /\ jobs' = (jobs \ {job}) \cup {step.w}
                       /\ UNCHANGED <<calls, out>>
                 [] step.w.at = "written" ->
                       /\ Calling(job.id, "ConfigShow", None)
                       /\ jobs' = (jobs \ {job})
                            \cup {[Job(job.id, "showing") EXCEPT !.call = Len(calls) + 1]}
                       /\ UNCHANGED out
                 [] OTHER -> Answer(job, Err(step.w.at)) /\ UNCHANGED calls
      BY <1>4, Zenon DEF HostWrites
    <2>2. UNCHANGED calls \/ Calling(job.id, "ConfigShow", None)
      BY <2>1 DEF Writing
    <2>3. QED BY <1>1, <1>2, <2>2, CallingMoves
  <1>5. CASE CoreAnswers
    <2>1. PICK c \in DOMAIN calls, answer \in {"error", "broken", "answered"} :
            calls' = [calls EXCEPT ![c].state = answer]
      BY <1>5, Zenon DEF CoreAnswers
    <2> DEFINE v == [calls[c] EXCEPT !.state = answer]
    <2>2. c \in 1..Len(calls) /\ calls[c] \in CallRecs(scn)
      BY <1>1
    <2>3. v.state # "running"
      BY <2>2 DEF CallRecs
    <2>4. calls' = [calls EXCEPT ![c] = v]
      BY <2>1
    <2> HIDE DEF v
    <2>5. QED BY <1>1, <2>2, <2>3, <2>4, EndingMoves
  <1>6. CASE TimesOut
    <2>1. PICK job \in jobs : /\ job.at \in Awaiting
                              /\ calls' = [calls EXCEPT ![job.call].left = TRUE]
      BY <1>6 DEF TimesOut, Awaiting
    <2> DEFINE v == [calls[job.call] EXCEPT !.left = TRUE]
    <2>2. job.call \in 1..Len(calls)
      BY <2>1 DEF IInv, Waited
    <2>3. calls[job.call] \in CallRecs(scn)
      BY <1>1, <2>2
    <2>4. v.left
      BY <2>3 DEF CallRecs
    <2>5. calls' = [calls EXCEPT ![job.call] = v]
      BY <2>1
    <2> HIDE DEF v
    <2>6. QED BY <1>1, <2>2, <2>4, <2>5, EndingMoves
  <1>7. CASE HostExits
    <2>1. calls' = [c \in DOMAIN calls |-> [calls[c] EXCEPT !.left = TRUE]]
      BY <1>7 DEF HostExits
    <2>2. ASSUME NEW c \in 1..Len(calls) PROVE [calls[c] EXCEPT !.left = TRUE].left
      <3>1. calls[c] \in CallRecs(scn) BY <1>1
      <3>2. QED BY <3>1 DEF CallRecs
    <2>3. Len(calls') = Len(calls)
      BY <1>1, <2>1
    <2>4. \A c \in 1..Len(calls) : ~Open(calls', c)
      BY <1>1, <2>1, <2>2 DEF Open
    <2>5. QED BY <2>3, <2>4 DEF CallsMove
  <1>8. CASE Ask \/ OtherWrites \/ Emit \/ Writer \/ Client \/ OpenEnds \/ StopEnds
    <2>1. UNCHANGED calls
      BY <1>8 DEF Ask, OtherWrites, Emit, Writer, WriteHeader, WriteBody, Client,
                  ClientReads, ParsesHeader, ParsesBody, ClientCloses, OpenEnds, StopEnds
    <2>2. QED BY <1>2, <2>1
  <1>9. CASE UNCHANGED vars
    BY <1>2, <1>9 DEF vars
  <1>10. QED
    BY <1>3, <1>4, <1>5, <1>6, <1>7, <1>8, <1>9 DEF Next, HostLoop, HostTurn

\* A second boot reaches Core while one still runs only if the host gave the first
\* up, or died: whatever the two views ask, and however often.
THEOREM NoSecondBoot == Spec => []SecondBootAfterTimeout
  <1>1. Init => Latest
    BY DEF Init, Latest
  <1>2. IInv /\ IInv' /\ Latest /\ [Next]_vars => Latest'
    <2> SUFFICES ASSUME IInv, IInv', Latest, [Next]_vars,
                        NEW c \in 1..Len(calls'), Open(calls', c)
                 PROVE  c = Len(calls')
      BY DEF Latest
    <2>1. CallsMove
      BY EveryStepsCalls
    <2>2. Len(calls) \in Nat
      BY DEF IInv, HostShape
    <2>3. CASE Len(calls') = Len(calls)
      BY <2>1, <2>2, <2>3 DEF CallsMove, Latest
    <2>4. CASE Len(calls') = Len(calls) + 1 /\ Open(calls', Len(calls) + 1)
      <3>1. \A d \in 1..Len(calls') : Open(calls', d) =>
               \E job \in jobs' : job.call = d
        BY DEF IInv, Waited
      <3>2. \A j, k \in jobs' : j = k
        BY DEF IInv, HostShape
      <3>3. Len(calls) + 1 \in 1..Len(calls')
        BY <2>2, <2>4
      <3>4. QED BY <2>4, <3>1, <3>2, <3>3
    <2>5. QED BY <2>1, <2>3, <2>4 DEF CallsMove
  <1>3. IInv /\ Latest => SecondBootAfterTimeout
    <2> SUFFICES ASSUME IInv, Latest, NEW c \in DOMAIN calls, NEW d \in DOMAIN calls,
                        c < d, calls[c].state = "running"
                 PROVE  calls[c].left
      BY DEF SecondBootAfterTimeout
    <2>1. calls \in Seq(CallRecs(scn)) /\ Len(calls) \in Nat
      BY DEF IInv, HostShape
    <2>2. c \in 1..Len(calls) /\ d \in 1..Len(calls) /\ c # Len(calls)
      BY <2>1
    <2>3. QED BY <2>2 DEF Latest, Open
  <1>4. QED BY Inductive, <1>1, <1>2, <1>3, PTL DEF Spec

-----------------------------------------------------------------------------
(***************************************************************************)
(* The document.  A writer that is alone has in its hand what the file     *)
(* holds and its own key; the file that it fills is not the document's.    *)
(***************************************************************************)
WriterOK(w, leaf, d, keys) ==
    /\ w.at \in Writing => w.doc = set_dotted(keys, leaf)
    /\ w.at \in {"fill", "rename"} => w.file = d.temp /\ w.file # 0
    /\ w.at = "rename" => d.text[w.file] = w.doc

KeyOf(job) == Param(Of(job), "key")

Alone == ~met =>
    /\ disk.text[disk.config] = kept
    /\ \A job \in jobs : /\ job.at \in Writing => other.at \notin Writing
                         /\ WriterOK(job, KeyOf(job), disk, kept)
    /\ WriterOK(other, scn.theirs, disk, kept)

\* A step of a writer that is alone leaves the document whole, before its rename
\* and after it.
LEMMA WriteKeeps ==
    ASSUME DiskShape, NEW w \in JobRecs(scn), NEW leaf \in Leaves(scn),
           NEW step \in write_key(w, leaf),
           disk.text[disk.config] = kept, WriterOK(w, leaf, disk, kept)
    PROVE  /\ step.disk.text[step.disk.config] = step.kept
           /\ WriterOK(step.w, leaf, step.disk, step.kept)
           /\ w.at \notin Writing => step.disk = disk /\ step.kept = kept
  <1> USE DEF Step
  <1>1. /\ disk \in Disks(scn) /\ disk.text \in Seq(SUBSET Leaves(scn))
        /\ Len(disk.text) \in Nat /\ disk.config \in 1..Len(disk.text)
        /\ disk.temp \in 0..Len(disk.text) /\ disk.temp # disk.config
        /\ Document = kept /\ disk.config # 0
    BY DEF DiskShape, Disks, OnDisk, Document
  <1>2. ASSUME NEW code \in Codes, step = Failed(w, code)
        PROVE  /\ step.disk = disk /\ step.kept = kept
               /\ step.w.at = code /\ WriterOK(step.w, leaf, disk, kept)
    <2>1. step.disk = disk /\ step.kept = kept /\ step.w = [w EXCEPT !.at = code]
      BY <1>2 DEF Failed
    <2>2. step.w.at = code
      BY <2>1 DEF JobRecs
    <2>3. code \notin Writing
      BY DEF Codes, Writing
    <2>4. QED BY <2>1, <2>2, <2>3 DEF WriterOK, Writing
  <1>3. CASE w.at = "read" /\ step = Read(w, leaf)
    <2>1. CASE Crosses(Document, leaf)
      BY <1>2, <1>3, <2>1 DEF Read, Codes
    <2>2. CASE ~Crosses(Document, leaf)
      <3> DEFINE v == [w EXCEPT !.at = "create", !.doc = set_dotted(Document, leaf)]
      <3>1. v.at = "create" /\ v.doc = set_dotted(kept, leaf)
        BY <1>1 DEF JobRecs
      <3> HIDE DEF v
      <3>2. step = Step(v, disk, kept)
        BY <1>3, <2>2 DEF Read, v
      <3>3. QED BY <3>1, <3>2 DEF WriterOK
    <2>3. QED BY <2>1, <2>2
  <1>4. CASE w.at = "create" /\ step = CreateTemp(w)
    <2>0. w.doc = set_dotted(kept, leaf) /\ w.at \in Writing
      BY <1>4 DEF WriterOK, Writing
    <2>1. CASE disk.temp = 0
      <3> DEFINE n == Len(disk.text) + 1
                 v == [w EXCEPT !.at = "fill", !.file = n]
                 t == Append(disk.text, {})
                 d == [disk EXCEPT !.text = t, !.temp = n]
      <3>1. v.at = "fill" /\ v.doc = w.doc /\ v.file = n
        BY DEF JobRecs
      <3>2. t[disk.config] = disk.text[disk.config] /\ n # 0
        BY <1>1
      <3>3. step = Step(v, d, kept)
        BY <1>4, <2>1 DEF CreateTemp
      <3> HIDE DEF v, t, n
      <3>4. d.text = t /\ d.temp = n /\ d.config = disk.config
        BY <1>1 DEF Disks
      <3> HIDE DEF d
      <3>5. QED BY <2>0, <3>1, <3>2, <3>3, <3>4 DEF WriterOK
    <2>2. CASE disk.temp # 0
      <3> DEFINE v == [w EXCEPT !.at = "fill", !.file = disk.temp]
                 t == [disk.text EXCEPT ![disk.temp] = {}]
                 d == [disk EXCEPT !.text = t]
      <3>1. v.at = "fill" /\ v.doc = w.doc /\ v.file = disk.temp
        BY DEF JobRecs
      <3>2. t[disk.config] = disk.text[disk.config]
        BY <1>1
      <3>3. step = Step(v, d, kept)
        BY <1>1, <1>4, <2>2 DEF CreateTemp
      <3> HIDE DEF v, t
      <3>4. d.text = t /\ d.temp = disk.temp /\ d.config = disk.config
        BY <1>1 DEF Disks
      <3> HIDE DEF d
      <3>5. QED BY <2>0, <2>2, <3>1, <3>2, <3>3, <3>4 DEF WriterOK
    <2>3. QED BY <2>1, <2>2
  <1>5. CASE w.at = "fill" /\ step = Fill(w)
    <2>0. /\ w.doc = set_dotted(kept, leaf) /\ w.at \in Writing
          /\ w.file = disk.temp /\ w.file # 0
      BY <1>5 DEF WriterOK, Writing
    <2> DEFINE v == [w EXCEPT !.at = "rename"]
               t == [disk.text EXCEPT ![w.file] = w.doc]
               d == [disk EXCEPT !.text = t]
    <2>1. v.at = "rename" /\ v.doc = w.doc /\ v.file = w.file
      BY DEF JobRecs
    <2>2. t[disk.config] = disk.text[disk.config] /\ t[w.file] = w.doc
      BY <1>1, <2>0
    <2>3. step = Step(v, d, kept)
      BY <1>5 DEF Fill
    <2> HIDE DEF v, t
    <2>4. d.text = t /\ d.temp = disk.temp /\ d.config = disk.config
      BY <1>1 DEF Disks
    <2> HIDE DEF d
    <2>5. QED BY <2>0, <2>1, <2>2, <2>3, <2>4 DEF WriterOK
  <1>6. CASE w.at = "rename" /\ step = Rename(w, leaf)
    <2>0. /\ w.doc = set_dotted(kept, leaf) /\ w.at \in Writing
          /\ w.file = disk.temp /\ w.file # 0 /\ disk.text[w.file] = w.doc
      BY <1>6 DEF WriterOK, Writing
    <2> DEFINE v == [w EXCEPT !.at = "written"]
               d == [disk EXCEPT !.config = disk.temp, !.temp = 0]
    <2>1. v.at = "written"
      BY DEF JobRecs
    <2>2. step = Step(v, d, set_dotted(kept, leaf))
      BY <1>6, <2>0 DEF Rename
    <2>3. d.text = disk.text /\ d.config = disk.temp
      BY <1>1 DEF Disks
    <2> HIDE DEF v, d
    <2>4. QED BY <2>0, <2>1, <2>2, <2>3 DEF WriterOK, Writing
  <1>7. CASE w.at \in Writing /\ step = Failed(w, "bridge.fs.io")
    BY <1>2, <1>7 DEF Codes
  <1>8. QED BY <1>3, <1>4, <1>5, <1>6, <1>7 DEF write_key

\* A handler that does not serve config/write comes to no writing.
LEMMA NoNewWriter ==
    ASSUME IInv, Handling, ~HostWrites
    PROVE  /\ \A j \in jobs' : j \in jobs \/ j.at \notin Writing
           /\ UNCHANGED <<scn, win, disk, other, kept, met>>
  <1>1. CASE HostTakes
    <2>1. \A j \in jobs' : j \in jobs \/ j.at \in {"calling", "locating", "stopping",
                                                    "opening", "read"}
      BY <1>1 DEF HostTakes, Dispatch, Job
    <2>2. QED BY <1>1, <2>1 DEF HostTakes, Writing
  <1>2. ASSUME NEW job \in jobs, NEW body, Continues(job, body)
        PROVE  \A j \in jobs' : j \in jobs \/ j.at \notin Writing
    <2>1. job \in JobRecs(scn) BY OnlyHandler DEF IInv
    <2>2. [job EXCEPT !.at = "read"].at = "read"
      BY <2>1 DEF JobRecs
    <2>3. QED BY <1>2, <2>2 DEF Continues, Answer, Writing
  <1>3. CASE TimesOut
    <2>1. UNCHANGED <<scn, win, disk, other, kept, met>>
      BY <1>3 DEF TimesOut
    <2>2. QED BY <1>2, <1>3, <2>1 DEF TimesOut
  <1>4. CASE CoreAnswers
    <2>1. UNCHANGED <<scn, win, disk, other, kept, met>>
      BY <1>4 DEF CoreAnswers
    <2>2. UNCHANGED jobs \/ \E job \in jobs : \E body : Continues(job, body)
      BY <1>4 DEF CoreAnswers, Caller
    <2>3. QED BY <1>2, <2>1, <2>2
  <1>5. CASE OpenEnds
    BY <1>5 DEF OpenEnds, Opens
  <1>6. CASE StopEnds
    <2>1. UNCHANGED <<scn, win, disk, other, kept, met>>
      BY <1>6 DEF StopEnds
    <2>2. PICK job \in jobs : jobs' = (jobs \ {job}) \cup {[job EXCEPT !.at = "opening"]}
                              \/ jobs' = jobs \ {job}
      BY <1>6 DEF StopEnds, Answer
    <2>3. job \in JobRecs(scn) BY OnlyHandler DEF IInv
    <2>4. [job EXCEPT !.at = "opening"].at = "opening"
      BY <2>3 DEF JobRecs
    <2>5. QED BY <2>1, <2>2, <2>4 DEF Writing
  <1>7. CASE Emit
    BY <1>7 DEF Emit
  <1>8. QED BY <1>1, <1>3, <1>4, <1>5, <1>6, <1>7 DEF Handling, HostLoop, HostTurn

\* What a handler writes is what its request asked, whatever is asked meanwhile.
LEMMA SameKey ==
    ASSUME IInv, Keeps(win, win')
    PROVE  \A job \in jobs : KeyOf(job)' = KeyOf(job) /\ KeyOf(job) \in Leaves(scn)
  <1> SUFFICES ASSUME NEW job \in jobs
               PROVE  KeyOf(job)' = KeyOf(job) /\ KeyOf(job) \in Leaves(scn)
    OBVIOUS
  <1>1. job.id \in 1..Len(win.asked)
    <2>1. job.id \in 1..read /\ read \in 0..Len(win.asked)
      BY OnlyHandler DEF IInv, HostShape
    <2>2. Len(win.asked) \in Nat BY WindowFacts DEF IInv
    <2>3. QED BY <2>1, <2>2
  <1>2. win'.asked[job.id] = win.asked[job.id]
    BY <1>1 DEF Keeps
  <1>3. win.asked[job.id] \in Asks(scn)
    BY <1>1, WindowFacts DEF IInv
  <1>4. KeyOf(job) \in Leaves(scn)
    BY <1>3 DEF KeyOf, Of, Leaves
  <1>5. QED BY <1>2, <1>4 DEF KeyOf, Of, Param

\* Who asks nothing forgets nothing.
LEMMA NothingAsked ==
    ASSUME WindowShape, NEW v, v.asked = win.asked
    PROVE  Keeps(win, v)
  <1>1. Len(win.asked) \in Nat BY WindowFacts
  <1>2. QED BY <1>1 DEF Keeps

\* A window forgets nothing it asked.
LEMMA EveryStepKeeps ==
    ASSUME IInv, [Next]_vars
    PROVE  Keeps(win, win') /\ UNCHANGED scn
  <1>1. ASSUME UNCHANGED win PROVE Keeps(win, win')
    <2>1. win'.asked = win.asked BY <1>1
    <2>2. QED BY <2>1, NothingAsked DEF IInv
  <1>2. CASE Ask
    BY <1>2, AskFacts DEF IInv, Turns, Ask
  <1>3. CASE ParsesBody
    BY <1>3, BodyFacts DEF IInv, ParsesBody
  <1>4. CASE ParsesHeader
    <2>1. win'.asked = win.asked BY <1>4, HeaderFacts DEF IInv
    <2>2. QED BY <1>4, <2>1, NothingAsked DEF IInv, ParsesHeader
  <1>5. CASE ClientCloses
    <2>1. win'.asked = win.asked BY <1>5, ClosingFacts DEF IInv, WindowShape, ClientCloses
    <2>2. QED BY <1>5, <2>1, NothingAsked DEF IInv, ClientCloses
  <1>6. CASE ClientReads
    <2>1. win'.asked = win.asked
      BY <1>6, WindowFacts DEF IInv, ClientReads, Windows
    <2>2. QED BY <1>6, <2>1, NothingAsked DEF IInv, ClientReads
  <1>7. CASE Handling
    BY <1>1, <1>7, HandlingMoves DEF IInv
  <1>8. CASE OtherWrites \/ Writer \/ HostExits \/ UNCHANGED vars
    <2>1. UNCHANGED <<scn, win>>
      BY <1>8 DEF OtherWrites, Writer, WriteHeader, WriteBody, HostExits, vars
    <2>2. QED BY <1>1, <2>1
  <1>9. UNCHANGED scn
    BY <1>2, <1>3, <1>4, <1>5, <1>6, <1>7, <1>8, HandlingMoves
       DEF Next, HostLoop, HostTurn, Client, Handling, IInv, Ask, ParsesBody, ParsesHeader,
           ClientCloses, ClientReads, OtherWrites, Writer, WriteHeader, WriteBody,
           HostExits, vars
  <1>10. QED
    BY <1>2, <1>3, <1>4, <1>5, <1>6, <1>7, <1>8, <1>9 DEF Next, HostLoop, HostTurn, Client, Handling

\* config.toml holds every key it held and every key written since, whoever dies
\* at whatever point, unless two hosts were writing it at once.
THEOREM KeysAreKept == Spec => []ConfigKeepsKeys
  <1>1. Init => Alone
    <2> SUFFICES ASSUME Init PROVE Alone
      OBVIOUS
    <2>1. disk.text[disk.config] = kept /\ jobs = {}
      BY DEF Init
    <2>2. other.at \in {"idle", "read"}
      BY DEF Init, Job
    <2>3. QED BY <2>1, <2>2 DEF Alone, WriterOK, Writing
  <1>2. IInv /\ IInv' /\ Alone /\ [Next]_vars => Alone'
    <2> SUFFICES ASSUME IInv, IInv', Alone, [Next]_vars, ~met'
                 PROVE  /\ disk'.text[disk'.config] = kept'
                        /\ \A job \in jobs' :
                              /\ job.at \in Writing => other'.at \notin Writing
                              /\ WriterOK(job, KeyOf(job)', disk', kept')
                        /\ WriterOK(other', scn'.theirs, disk', kept')
      BY DEF Alone
    <2>0. Keeps(win, win') /\ UNCHANGED scn /\ DiskShape /\ other \in JobRecs(scn)
          /\ scn.theirs \in Leaves(scn)
      BY EveryStepKeeps DEF IInv, DiskShape, Leaves
    <2>1. \A job \in jobs : KeyOf(job)' = KeyOf(job) /\ KeyOf(job) \in Leaves(scn)
      BY <2>0, SameKey
    <2>2. CASE HostWrites
      <3>1. PICK job \in jobs : \E step \in write_key(job, KeyOf(job)) :
              /\ Does(step, {other})
              /\ CASE step.w.at \in Writing ->
                         /\ jobs' = (jobs \ {job}) \cup {step.w}
                         /\ UNCHANGED <<calls, out>>
                   [] step.w.at = "written" ->
                         /\ Calling(job.id, "ConfigShow", None)
                         /\ jobs' = (jobs \ {job})
                              \cup {[Job(job.id, "showing") EXCEPT !.call = Len(calls) + 1]}
                         /\ UNCHANGED out
                   [] OTHER -> Answer(job, Err(step.w.at)) /\ UNCHANGED calls
        BY <2>2, Zenon DEF HostWrites, KeyOf
      <3>2. PICK step \in write_key(job, KeyOf(job)) :
              /\ Does(step, {other})
              /\ CASE step.w.at \in Writing ->
                         /\ jobs' = (jobs \ {job}) \cup {step.w}
                         /\ UNCHANGED <<calls, out>>
                   [] step.w.at = "written" ->
                         /\ Calling(job.id, "ConfigShow", None)
                         /\ jobs' = (jobs \ {job})
                              \cup {[Job(job.id, "showing") EXCEPT !.call = Len(calls) + 1]}
                         /\ UNCHANGED out
                   [] OTHER -> Answer(job, Err(step.w.at)) /\ UNCHANGED calls
        BY <3>1
      <3>3. /\ jobs \ {job} = {} /\ job \in JobRecs(scn)
            /\ \A k : (jobs \ {job}) \cup {k} = {k}
        BY OnlyHandler DEF IInv
      <3>4. /\ disk' = step.disk /\ kept' = step.kept /\ ~met
            /\ step.w.at \in Writing => other.at \notin Writing
        BY <3>2, Zenon DEF Does
      <3>5. /\ disk.text[disk.config] = kept /\ WriterOK(job, KeyOf(job), disk, kept)
            /\ job.at \in Writing => other.at \notin Writing
            /\ WriterOK(other, scn.theirs, disk, kept)
        BY <3>4 DEF Alone
      <3>6. /\ step.disk.text[step.disk.config] = step.kept
            /\ WriterOK(step.w, KeyOf(job), step.disk, step.kept)
            /\ job.at \notin Writing => step.disk = disk /\ step.kept = kept
        BY <2>0, <2>1, <3>2, <3>3, <3>5, WriteKeeps
      <3>7. UNCHANGED other /\ step.w.id = job.id
        <4>1. UNCHANGED other BY <2>2 DEF HostWrites
        <4>2. QED BY <2>0, <2>1, <3>2, <3>3, <4>1, WriteFacts
      <3>8. WriterOK(other', scn'.theirs, disk', kept')
        BY <2>0, <3>4, <3>5, <3>6, <3>7 DEF WriterOK, Writing
      <3>9. ASSUME NEW k \in jobs'
            PROVE  /\ k.at \in Writing => other'.at \notin Writing
                   /\ WriterOK(k, KeyOf(k)', disk', kept')
        <4>1. CASE step.w.at \in Writing
          <5>1. k = step.w
            BY <3>2, <3>3, <3>9, <4>1 DEF Writing
          <5>2. KeyOf(k)' = KeyOf(job)
            <6>1. KeyOf(k)' = KeyOf(job)'
              BY <3>7, <5>1 DEF KeyOf, Of
            <6>2. QED BY <2>1, <6>1
          <5>3. QED BY <3>4, <3>6, <3>7, <4>1, <5>1, <5>2
        <4>2. CASE step.w.at \notin Writing
          <5>1. k.at = "showing"
            <6>1. CASE step.w.at = "written"
              BY <3>2, <3>3, <3>9, <4>2, <6>1 DEF Job, Writing
            <6>2. CASE step.w.at # "written"
              BY <3>2, <3>3, <3>9, <4>2, <6>2 DEF Answer
            <6>3. QED BY <6>1, <6>2
          <5>2. QED BY <5>1 DEF WriterOK, Writing
        <4>3. QED BY <4>1, <4>2
      <3>10. QED BY <3>4, <3>6, <3>8, <3>9
    <2>3. CASE OtherWrites
      <3>1. PICK step \in write_key(other, scn.theirs) : Does(step, jobs) /\ other' = step.w
        BY <2>3 DEF OtherWrites
      <3>2. /\ disk' = step.disk /\ kept' = step.kept /\ ~met
            /\ step.w.at \in Writing => \A j \in jobs : j.at \notin Writing
        BY <3>1, Zenon DEF Does
      <3>3. /\ disk.text[disk.config] = kept /\ WriterOK(other, scn.theirs, disk, kept)
            /\ \A j \in jobs : /\ j.at \in Writing => other.at \notin Writing
                               /\ WriterOK(j, KeyOf(j), disk, kept)
        BY <3>2 DEF Alone
      <3>4. /\ step.disk.text[step.disk.config] = step.kept
            /\ WriterOK(step.w, scn.theirs, step.disk, step.kept)
            /\ other.at \notin Writing => step.disk = disk /\ step.kept = kept
        BY <2>0, <3>1, <3>3, WriteKeeps
      <3>5. UNCHANGED <<jobs, win>>
        BY <2>3 DEF OtherWrites
      <3>6. ASSUME NEW k \in jobs'
            PROVE  /\ k.at \in Writing => other'.at \notin Writing
                   /\ WriterOK(k, KeyOf(k)', disk', kept')
        <4>1. k \in jobs /\ KeyOf(k)' = KeyOf(k)
          BY <2>1, <3>5, <3>6
        <4>2. CASE k.at \in Writing
          BY <3>1, <3>2, <3>3, <3>4, <4>1, <4>2
        <4>3. CASE k.at \notin Writing
          BY <4>3 DEF WriterOK, Writing
        <4>4. QED BY <4>2, <4>3
      <3>7. QED BY <2>0, <3>1, <3>2, <3>4, <3>6
    <2>4. CASE Handling /\ ~HostWrites
      <3>1. /\ \A j \in jobs' : j \in jobs \/ j.at \notin Writing
            /\ UNCHANGED <<scn, win, disk, other, kept, met>>
        BY <2>4, NoNewWriter
      <3>2. /\ disk.text[disk.config] = kept /\ WriterOK(other, scn.theirs, disk, kept)
            /\ \A j \in jobs : /\ j.at \in Writing => other.at \notin Writing
                               /\ WriterOK(j, KeyOf(j), disk, kept)
        BY <3>1 DEF Alone
      <3>3. ASSUME NEW k \in jobs'
            PROVE  /\ k.at \in Writing => other'.at \notin Writing
                   /\ WriterOK(k, KeyOf(k)', disk', kept')
        <4>1. CASE k \in jobs
          BY <2>1, <3>1, <3>2, <4>1
        <4>2. CASE k.at \notin Writing
          BY <4>2 DEF WriterOK, Writing
        <4>3. QED BY <3>1, <3>3, <4>1, <4>2
      <3>4. QED BY <3>1, <3>2, <3>3
    <2>5. CASE Ask \/ Writer \/ Client \/ HostExits \/ UNCHANGED vars
      <3>1. UNCHANGED <<disk, other, kept, met>> /\ \A j \in jobs' : j \in jobs
        BY <2>5 DEF Ask, Writer, WriteHeader, WriteBody, Client, ClientReads, ParsesHeader,
                    ParsesBody, ClientCloses, HostExits, vars
      <3>2. QED BY <2>0, <2>1, <3>1 DEF Alone
    <2>6. QED BY <2>2, <2>3, <2>4, <2>5 DEF Next, Handling, HostLoop, HostTurn
  <1>3. IInv /\ Alone => ConfigKeepsKeys
    <2> SUFFICES ASSUME IInv, Alone, ~met PROVE Document = kept
      BY DEF ConfigKeepsKeys
    <2>1. disk.config # 0
      <3>1. disk.text \in Seq(SUBSET Leaves(scn)) BY DEF IInv, DiskShape, Disks
      <3>2. QED BY <3>1 DEF IInv, DiskShape, OnDisk
    <2>2. QED BY <2>1 DEF Alone, Document
  <1>4. QED BY Inductive, <1>1, <1>2, <1>3, PTL DEF Spec

-----------------------------------------------------------------------------
(***************************************************************************)
(* The contract.  A handler's stage and a call tell which request they     *)
(* serve; a response is right when it is given, and stays right on its way *)
(* through the channel, the pipe and the buffer to its promise.            *)
(***************************************************************************)
StagesOf(r) ==
    IF r.method \in DOMAIN Forwards THEN {"calling"}
    ELSE IF r.method = "config/write"
         THEN {"locating", "read", "create", "fill", "rename", "showing"}
    ELSE IF r.method \in {"session/open", "session/restart"} THEN {"stopping", "opening"}
    ELSE {}

Fit(job) == /\ job.at \in StagesOf(Of(job))
            /\ job.at = "showing" => calls[job.call].call = "ConfigShow"
JobsFit == \A job \in jobs : Fit(job)

\* A call is the one the arm of its request makes, with that request's decision.
MadeFor(k, r) == r.method \in DOMAIN Forwards =>
                    k.call = Forwards[r.method].call /\ k.arg = Argument(r)
CallsFit == \A c \in 1..Len(calls) :
               calls[c].by \in 1..read /\ MadeFor(calls[c], win.asked[calls[c].by])

\* A response on its way is right.
Moving(m) == \/ m \in {out[i] : i \in DOMAIN out} \cup {half}
             \/ m \in {stdout[i].of : i \in DOMAIN stdout}
             \/ m \in {win.buffer[i].of : i \in DOMAIN win.buffer}
Right(m) == m.kind = "response" => Honoured(m.id, m.body)
OnItsWay == \A m \in Messages : Moving(m) => Right(m)

Contract == JobsFit /\ CallsFit /\ OnItsWay /\ ContractHonoured

\* A call keeps its request, its name and its argument, and stays answered.
SameCall(k, l) == /\ l.by = k.by /\ l.call = k.call /\ l.arg = k.arg
                  /\ k.state = "answered" => l.state = "answered"
CallsKeep == /\ Len(calls) <= Len(calls')
             /\ \A c \in 1..Len(calls) : SameCall(calls[c], calls'[c])

\* What is right stays right, as requests and calls stay what they are.
LEMMA StaysHonoured ==
    ASSUME IInv, IInv', Keeps(win, win'), CallsKeep,
           NEW i \in 1..Len(win.asked), NEW p, Honoured(i, p)
    PROVE  Honoured(i, p)'
  <1>1. win'.asked[i] = win.asked[i]
    BY DEF Keeps
  <1>2. /\ DOMAIN calls = 1..Len(calls) /\ DOMAIN calls' = 1..Len(calls')
        /\ Len(calls) \in Nat /\ Len(calls') \in Nat
    BY DEF IInv, HostShape
  <1>3. ASSUME NEW c \in DOMAIN calls, calls[c].by = i, calls[c].state = "answered",
               calls[c].arg = win.asked[i].means
        PROVE  /\ c \in DOMAIN calls' /\ calls'[c].by = i
               /\ calls'[c].state = "answered" /\ calls'[c].arg = win'.asked[i].means
    BY <1>1, <1>2, <1>3 DEF CallsKeep, SameCall
  <1>4. QED BY <1>1, <1>3 DEF Honoured

\* A response that is right and given stays right.
LEMMA StaysRight ==
    ASSUME IInv, IInv', Keeps(win, win'), CallsKeep,
           NEW m \in Messages, Right(m), Given(m, read, jobs)
    PROVE  Right(m)'
  <1> SUFFICES ASSUME m.kind = "response" PROVE Honoured(m.id, m.body)'
    BY DEF Right
  <1>1. m.id \in 1..Len(win.asked)
    <2>1. m.id \in 1..read
      BY DEF Given
    <2>2. read \in 0..Len(win.asked) /\ Len(win.asked) \in Nat
      BY WindowFacts DEF IInv, HostShape
    <2>3. QED BY <2>1, <2>2
  <1>2. QED BY <1>1, StaysHonoured DEF Right

\* A call that is made for a request, and one that ends, keep the others.
LEMMA CallFits ==
    ASSUME IInv, CallsFit, NEW id \in 1..read', NEW call, NEW arg, Calling(id, call, arg),
           read <= read', read' \in Nat, UNCHANGED win,
           win.asked[id].method \in DOMAIN Forwards =>
                /\ call = Forwards[win.asked[id].method].call
                /\ arg = Argument(win.asked[id])
    PROVE  /\ CallsFit' /\ CallsKeep
           /\ calls'[Len(calls) + 1].call = call
  <1> DEFINE k == [by |-> id, call |-> call, arg |-> arg, state |-> "running",
                   left |-> FALSE]
  <1>1. /\ calls' = Append(calls, k) /\ k.by = id /\ k.call = call /\ k.arg = arg
    BY DEF Calling
  <1> HIDE DEF k
  <1>2. /\ calls \in Seq(CallRecs(scn)) /\ Len(calls) \in Nat /\ read \in Nat
    BY DEF IInv, HostShape
  <1>3. /\ Len(calls') = Len(calls) + 1 /\ calls'[Len(calls) + 1] = k
        /\ \A c \in 1..Len(calls) : calls'[c] = calls[c]
    BY <1>1, <1>2
  <1>4. CallsKeep
    BY <1>2, <1>3 DEF CallsKeep, SameCall
  <1>5. ASSUME NEW c \in 1..Len(calls')
        PROVE  calls'[c].by \in 1..read' /\ MadeFor(calls'[c], win'.asked[calls'[c].by])
    <2>1. CASE c \in 1..Len(calls)
      <3>1. calls[c].by \in 1..read /\ MadeFor(calls[c], win.asked[calls[c].by])
        BY <2>1 DEF CallsFit
      <3>2. QED BY <1>2, <1>3, <2>1, <3>1
    <2>2. CASE c = Len(calls) + 1
      BY <1>1, <1>3, <2>2 DEF MadeFor
    <2>3. QED BY <1>2, <1>3, <2>1, <2>2
  <1>6. QED BY <1>1, <1>3, <1>4, <1>5 DEF CallsFit, MadeFor

\* A call that ends keeps its request, and the others.
LEMMA EndedFits ==
    ASSUME IInv, CallsFit, NEW c \in 1..Len(calls), NEW v, SameCall(calls[c], v),
           calls' = [calls EXCEPT ![c] = v], read' = read, UNCHANGED win
    PROVE  CallsFit' /\ CallsKeep /\ calls'[c] = v /\ Len(calls') = Len(calls)
  <1>1. calls \in Seq(CallRecs(scn)) /\ Len(calls) \in Nat
    BY DEF IInv, HostShape
  <1>2. /\ Len(calls') = Len(calls)
        /\ \A i \in 1..Len(calls) : i # c => calls'[i] = calls[i]
        /\ calls'[c] = v
    BY <1>1
  <1>3. \A i \in 1..Len(calls) : SameCall(calls[i], calls'[i])
    BY <1>2 DEF SameCall
  <1>4. QED BY <1>1, <1>2, <1>3 DEF CallsKeep, CallsFit, MadeFor, SameCall

\* What moves was given by the host for a request it has read.
LEMMA MovingGiven ==
    ASSUME IInv, NEW m \in Messages, Moving(m)
    PROVE  Given(m, read, jobs)
  <1>1. /\ DOMAIN out = 1..Len(out) /\ DOMAIN stdout = 1..Len(stdout)
        /\ DOMAIN win.buffer = 1..Len(win.buffer)
    BY WindowFacts DEF IInv, HostShape, WindowShape
  <1>2. QED BY <1>1, NoneIsNoMessage DEF IInv, Answers, Moving

\* What was right stays right, as requests and calls stay what they are; the
\* step says only what it adds.
LEMMA Carried ==
    ASSUME IInv, IInv', Keeps(win, win'), CallsKeep, OnItsWay,
           \A m \in Messages : Moving(m)' => Moving(m) \/ Right(m)'
    PROVE  OnItsWay'
  <1> SUFFICES ASSUME NEW m \in Messages, Moving(m)' PROVE Right(m)'
    BY DEF OnItsWay
  <1>1. CASE Moving(m)
    BY <1>1, MovingGiven, StaysRight DEF OnItsWay
  <1>2. QED BY <1>1

\* A promise that keeps what it was, keeps the contract.
LEMMA PromisesStay ==
    ASSUME IInv, IInv', Keeps(win, win'), CallsKeep, ContractHonoured,
           \A i \in DOMAIN win'.promise :
              \/ i \in DOMAIN win.promise /\ win'.promise[i] = win.promise[i]
              \/ \E p : p = win'.promise[i] /\ Honoured(i, p)'
    PROVE  ContractHonoured'
  <1>1. DOMAIN win.promise = 1..Len(win.asked)
    BY WindowFacts DEF IInv
  <1>2. \A i \in 1..Len(win.asked) : \A p : Honoured(i, p) => Honoured(i, p)'
    BY StaysHonoured
  <1>3. \A i \in DOMAIN win'.promise : \E p : p = win'.promise[i] /\ Honoured(i, p)'
    BY <1>1, <1>2 DEF ContractHonoured
  <1>4. ASSUME NEW i \in DOMAIN win'.promise PROVE Honoured(i, win.promise[i])'
    <2>1. PICK p : p = win'.promise[i] /\ Honoured(i, p)'
      BY <1>3
    <2>2. QED BY <2>1 DEF Honoured
  <1>5. QED BY <1>4 DEF ContractHonoured

\* What a step of the host leaves right: it answers rightly, and its handler is at
\* a stage of its request.
LEMMA ContractMoves ==
    ASSUME IInv, IInv', Contract, UNCHANGED <<scn, win, half, stdout>>,
           CallsFit', CallsKeep,
           \/ jobs' = {}
           \/ jobs' = jobs
           \/ \E k : jobs' = {k} /\ Fit(k)',
           \/ out' = out
           \/ \E m \in Messages : Right(m)' /\ out' = Append(out, m)
           \/ \E m, n \in Messages : Right(m)' /\ Right(n)' /\ out' = out \o <<m, n>>
    PROVE  Contract'
  <1>1. Keeps(win, win')
    BY WindowFacts DEF IInv, Keeps
  <1>2. JobsFit'
    <2>1. CASE jobs' = {}
      BY <2>1 DEF JobsFit
    <2>2. CASE jobs' = jobs
      <3> SUFFICES ASSUME NEW job \in jobs PROVE Fit(job)'
        BY <2>2 DEF JobsFit
      <3>1. Fit(job) BY DEF Contract, JobsFit
      <3>2. ASSUME job.at = "showing" PROVE calls'[job.call].call = "ConfigShow"
        <4>1. job.call \in 1..Len(calls)
          BY <3>2 DEF IInv, Waited, Awaiting
        <4>2. QED BY <3>1, <3>2, <4>1 DEF Fit, CallsKeep, SameCall
      <3>3. QED BY <3>1, <3>2 DEF Fit, Of
    <2>3. CASE \E k : jobs' = {k} /\ Fit(k)'
      BY <2>3 DEF JobsFit
    <2>4. QED BY <2>1, <2>2, <2>3
  <1>3. OnItsWay'
    <2>0. out \in Seq(Messages) /\ Len(out) \in Nat /\ out' \in Seq(Messages)
      BY DEF IInv, HostShape
    <2>1. \A m \in Messages : m \in {out'[i] : i \in DOMAIN out'} =>
             m \in {out[i] : i \in DOMAIN out} \/ Right(m)'
      <3>1. CASE out' = out
        BY <3>1
      <3>2. CASE \E m \in Messages : Right(m)' /\ out' = Append(out, m)
        <4>1. PICK m \in Messages : Right(m)' /\ out' = Append(out, m)
          BY <3>2
        <4>2. {out'[i] : i \in DOMAIN out'} = {out[i] : i \in DOMAIN out} \cup {m}
          BY <2>0, <4>1, AppendFacts
        <4>3. QED BY <4>1, <4>2
      <3>3. CASE \E m, n \in Messages : Right(m)' /\ Right(n)' /\ out' = out \o <<m, n>>
        <4>1. PICK m \in Messages, n \in Messages :
                 Right(m)' /\ Right(n)' /\ out' = out \o <<m, n>>
          BY <3>3
        <4>2. /\ Len(out') = Len(out) + 2
              /\ out'[Len(out) + 1] = m /\ out'[Len(out) + 2] = n
              /\ \A i \in 1..Len(out) : out'[i] = out[i]
          BY <2>0, <4>1
        <4>3. {out'[i] : i \in DOMAIN out'} = {out[i] : i \in DOMAIN out} \cup {m, n}
          BY <2>0, <4>2
        <4>4. QED BY <4>1, <4>3
      <3>4. QED BY <3>1, <3>2, <3>3
    <2>2. \A m \in Messages : Moving(m)' => Moving(m) \/ Right(m)'
      BY <2>1 DEF Moving
    <2>3. QED BY <1>1, <2>2, Carried DEF Contract
  <1>4. ContractHonoured'
    BY <1>1, PromisesStay DEF Contract
  <1>5. QED BY <1>2, <1>3, <1>4 DEF Contract

\* What was asked fits the tables.
LEMMA AskedFits ==
    ASSUME IInv
    PROVE  \A i \in 1..Len(win.asked) : Fits(win.asked[i])
  <1>1. \A i \in 1..Len(win.asked) : win.asked[i] \in Asks(scn)
    BY WindowFacts DEF IInv
  <1>2. QED BY <1>1, CallSitesFit DEF IInv, WindowShape, Asks

\* The codes a request may end with.
Allowed == Codes \ {"method_not_found", "invalid_params", "bridge.protocol.unexpected"}

\* A refusal for anything but its shape is right.
LEMMA RightError ==
    \A id \in Nat, c \in Allowed : \E m \in Messages : m = Response(id, Err(c)) /\ Right(m)'
  <1> SUFFICES ASSUME NEW id \in Nat, NEW c \in Allowed
               PROVE  \E m \in Messages : m = Response(id, Err(c)) /\ Right(m)'
    OBVIOUS
  <1> DEFINE m == Response(id, Err(c))
  <1>1. m \in Messages /\ m.id = id /\ m.body = Err(c)
    BY OutcomeFacts, MessageFacts DEF Response, Allowed
  <1>2. Honoured(id, Err(c))'
    BY DEF Honoured, Err, Allowed
  <1> HIDE DEF m
  <1>3. Right(m)'
    BY <1>1, <1>2 DEF Right
  <1>4. QED BY <1>1, <1>3 DEF m

\* An answer is right if its caller reads it, and if it is Core's when Core was to
\* be asked.
LEMMA RightAnswer ==
    \A id \in Nat, what \in Results :
       /\ what \in win'.asked[id].reads
       /\ win'.asked[id].method \in DOMAIN Forwards =>
             \E c \in DOMAIN calls' : /\ calls'[c].by = id /\ calls'[c].state = "answered"
                                     /\ calls'[c].arg = win'.asked[id].means
       => \E m \in Messages : m = Response(id, Ok(what)) /\ Right(m)'
  <1> SUFFICES ASSUME NEW id \in Nat, NEW what \in Results,
                      what \in win'.asked[id].reads,
                      win'.asked[id].method \in DOMAIN Forwards =>
                         \E c \in DOMAIN calls' :
                            /\ calls'[c].by = id /\ calls'[c].state = "answered"
                            /\ calls'[c].arg = win'.asked[id].means
               PROVE  \E m \in Messages : m = Response(id, Ok(what)) /\ Right(m)'
    OBVIOUS
  <1> DEFINE m == Response(id, Ok(what))
  <1>1. m \in Messages /\ m.id = id /\ m.body = Ok(what)
    BY OutcomeFacts, MessageFacts DEF Response
  <1>2. Honoured(id, Ok(what))'
    BY DEF Honoured, Ok
  <1> HIDE DEF m
  <1>3. Right(m)'
    BY <1>1, <1>2 DEF Right
  <1>4. QED BY <1>1, <1>3 DEF m

\* A notification is no answer.
LEMMA RightNote ==
    noted \in Nat => \E m \in Messages : m = Emits /\ Right(m)'
  <1> SUFFICES ASSUME noted \in Nat
               PROVE  \E m \in Messages : m = Emits /\ Right(m)'
    OBVIOUS
  <1>1. PICK m \in Messages : m = Emits /\ m.kind = "note"
    BY MessageFacts
  <1>2. QED BY <1>1 DEF Right

\* Calls that are left alone fit and are kept.
LEMMA CallsStay ==
    ASSUME IInv, CallsFit, UNCHANGED <<win, calls>>, read <= read', read' \in Nat
    PROVE  CallsFit' /\ CallsKeep
  <1>1. read \in Nat /\ Len(calls) \in Nat
    BY DEF IInv, HostShape
  <1>2. CallsKeep
    BY <1>1 DEF CallsKeep, SameCall
  <1>3. QED BY <1>1, <1>2 DEF CallsFit, MadeFor

\* A handler at a stage of its request fits.
LEMMA StageFits ==
    ASSUME UNCHANGED win, NEW k, k.at \in StagesOf(win.asked[k.id]),
           k.at = "showing" => calls'[k.call].call = "ConfigShow"
    PROVE  Fit(k)'
  BY DEF Fit, Of

\* handle() takes a request: a refusal is not for its shape, what the host answers
\* at once is what the caller reads, and the call it makes is the request's.
LEMMA TakesContract ==
    ASSUME IInv, IInv', Contract, HostTakes
    PROVE  Contract'
  <1>1. PICK i : i = read + 1
    OBVIOUS
  <1>2. PICK r : r = win.asked[i]
    OBVIOUS
  <1>3. /\ hostUp /\ jobs = {} /\ i \in 1..Len(win.asked) /\ i \in Nat
        /\ read' = read + 1 /\ read \in Nat /\ read' \in Nat /\ read <= read' /\ i \in 1..read'
        /\ UNCHANGED <<scn, win, hostUp, half, stdout>>
    BY <1>1, WindowFacts DEF HostTakes, MayTake, IInv, HostShape
  <1>4. \/ Refusal(r) = {} /\ Dispatch(r, i)
        \/ /\ Refusal(r) # {}
           /\ out' = Append(out, Response(i, Err(CHOOSE c \in Refusal(r) : TRUE)))
           /\ UNCHANGED <<calls, jobs, live, noted>>
    BY <1>1, <1>2, Zenon DEF HostTakes
  <1>5. Fits(r)
    BY <1>2, <1>3, AskedFits
  <1>6. noted \in Nat /\ CallsFit /\ win'.asked[i] = r
    BY <1>2, <1>3 DEF IInv, HostShape, Contract
  <1>7. UNCHANGED calls => CallsFit' /\ CallsKeep
    BY <1>3, <1>6, CallsStay
  <1>8. CASE Refusal(r) # {}
    <2>1. Refusal(r) \subseteq Allowed
      BY <1>5 DEF Refusal, Fits, Allowed, Codes
    <2>2. PICK c \in Allowed : c = CHOOSE d \in Refusal(r) : TRUE
      BY <1>8, <2>1
    <2>3. PICK m \in Messages : m = Response(i, Err(c)) /\ Right(m)'
      BY <1>3, RightError
    <2>4. out' = Append(out, m) /\ UNCHANGED <<calls, jobs>>
      BY <1>4, <1>8, <2>2, <2>3
    <2>5. QED BY <1>3, <1>7, <2>3, <2>4, ContractMoves
  <1>9. CASE Refusal(r) = {}
    <2>0. Dispatch(r, i) BY <1>4, <1>9
    <2>1. CASE /\ r.method \in DOMAIN Forwards
               /\ Calling(i, Forwards[r.method].call, Argument(r))
               /\ jobs' = jobs \cup {[Job(i, "calling") EXCEPT !.call = Len(calls) + 1]}
               /\ UNCHANGED <<live, out, noted>>
      <3>1. PICK k : k = [Job(i, "calling") EXCEPT !.call = Len(calls) + 1]
        OBVIOUS
      <3>2. k.id = i /\ k.at = "calling" /\ jobs' = {k}
        BY <1>3, <2>1, <3>1 DEF Job
      <3>3. CallsFit' /\ CallsKeep
        BY <1>2, <1>3, <1>6, <2>1, CallFits
      <3>4. Fit(k)'
        <4>1. k.at \in StagesOf(win.asked[k.id]) /\ k.at # "showing"
          BY <1>2, <1>3, <2>1, <3>2 DEF StagesOf
        <4>2. QED BY <1>3, <4>1, StageFits
      <3>5. QED BY <1>3, <2>1, <3>2, <3>3, <3>4, ContractMoves
    <2>2. CASE /\ r.method \in {"session/status", "about/info"}
               /\ out' = Append(out, Response(i, Ok(
                             IF r.method = "about/info" THEN "About"
                             ELSE IF live = "none" THEN "null" ELSE "SessionInfo")))
               /\ UNCHANGED <<calls, jobs, live, noted>>
      <3>1. PICK what : what = IF r.method = "about/info" THEN "About"
                               ELSE IF live = "none" THEN "null" ELSE "SessionInfo"
        OBVIOUS
      <3>2. what \in Results
        BY <3>1 DEF Results
      <3>3. r.method \notin DOMAIN Forwards
        BY <2>2, NamesApart
      <3>4. what \in r.reads
        BY <1>5, <2>2, <3>1, <3>3 DEF Fits, Yields
      <3>5. PICK m \in Messages : m = Response(i, Ok(what)) /\ Right(m)'
        BY <1>3, <1>6, <3>2, <3>3, <3>4, RightAnswer
      <3>6. out' = Append(out, m) /\ UNCHANGED <<calls, jobs>>
        BY <2>2, <3>1, <3>5
      <3>7. QED BY <1>3, <1>7, <3>5, <3>6, ContractMoves
    <2>3. CASE /\ r.method = "session/close"
               /\ out' = out \o << Emits, Response(i, Ok("null")) >>
               /\ UNCHANGED <<calls, jobs>>
      <3>1. "null" \in Results /\ r.method \notin DOMAIN Forwards
        BY <2>3, NamesApart DEF Results
      <3>2. "null" \in r.reads
        BY <1>5, <2>3, <3>1 DEF Fits, Yields
      <3>3. PICK m \in Messages : m = Response(i, Ok("null")) /\ Right(m)'
        BY <1>3, <1>6, <3>1, <3>2, RightAnswer
      <3>4. PICK n \in Messages : n = Emits /\ Right(n)'
        BY <1>6, RightNote
      <3>5. out' = out \o <<n, m>>
        BY <2>3, <3>3, <3>4
      <3>6. QED BY <1>3, <1>7, <2>3, <3>3, <3>4, <3>5, ContractMoves
    <2>4. CASE /\ r.method = "session/restart"
               /\ jobs' = jobs \cup {Job(i, "stopping")}
               /\ UNCHANGED <<calls, out>>
      <3>1. PICK k : k = Job(i, "stopping")
        OBVIOUS
      <3>2. k.id = i /\ k.at = "stopping" /\ jobs' = {k}
        BY <1>3, <2>4, <3>1 DEF Job
      <3>3. Fit(k)'
        <4>1. k.at \in StagesOf(win.asked[k.id]) /\ k.at # "showing"
          BY <1>2, <1>3, <2>4, <3>2, NamesApart DEF StagesOf
        <4>2. QED BY <1>3, <4>1, StageFits
      <3>4. QED BY <1>3, <1>7, <2>4, <3>2, <3>3, ContractMoves
    <2>5. CASE /\ r.method = "session/open"
               /\ jobs' = jobs \cup {Job(i, "opening")}
               /\ out' = Append(out, Emits)
               /\ UNCHANGED calls
      <3>1. PICK k : k = Job(i, "opening")
        OBVIOUS
      <3>2. k.id = i /\ k.at = "opening" /\ jobs' = {k}
        BY <1>3, <2>5, <3>1 DEF Job
      <3>3. Fit(k)'
        <4>1. k.at \in StagesOf(win.asked[k.id]) /\ k.at # "showing"
          BY <1>2, <1>3, <2>5, <3>2, NamesApart DEF StagesOf
        <4>2. QED BY <1>3, <4>1, StageFits
      <3>4. PICK n \in Messages : n = Emits /\ Right(n)'
        BY <1>6, RightNote
      <3>5. QED BY <1>3, <1>7, <2>5, <3>2, <3>3, <3>4, ContractMoves
    <2>6. CASE /\ r.method = "config/write"
               /\ Calling(i, "WorkspaceStatus", None)
               /\ jobs' = jobs \cup {[Job(i, "locating") EXCEPT !.call = Len(calls) + 1]}
               /\ UNCHANGED out
      <3>1. PICK k : k = [Job(i, "locating") EXCEPT !.call = Len(calls) + 1]
        OBVIOUS
      <3>2. k.id = i /\ k.at = "locating" /\ jobs' = {k}
        BY <1>3, <2>6, <3>1 DEF Job
      <3>3. r.method \notin DOMAIN Forwards
        BY <2>6, NamesApart
      <3>4. CallsFit' /\ CallsKeep
        BY <1>2, <1>3, <1>6, <2>6, <3>3, CallFits
      <3>5. Fit(k)'
        <4>1. k.at \in StagesOf(win.asked[k.id]) /\ k.at # "showing"
          BY <1>2, <1>3, <2>6, <3>2, <3>3 DEF StagesOf
        <4>2. QED BY <1>3, <4>1, StageFits
      <3>6. QED BY <1>3, <2>6, <3>2, <3>4, <3>5, ContractMoves
    <2>7. CASE /\ r.method = "config/write"
               /\ jobs' = jobs \cup {Job(i, "read")}
               /\ UNCHANGED <<calls, out>>
      <3>1. PICK k : k = Job(i, "read")
        OBVIOUS
      <3>2. k.id = i /\ k.at = "read" /\ jobs' = {k}
        BY <1>3, <2>7, <3>1 DEF Job
      <3>3. Fit(k)'
        <4>1. k.at \in StagesOf(win.asked[k.id]) /\ k.at # "showing"
          BY <1>2, <1>3, <2>7, <3>2, NamesApart DEF StagesOf
        <4>2. QED BY <1>3, <4>1, StageFits
      <3>4. QED BY <1>3, <1>7, <2>7, <3>2, <3>3, ContractMoves
    <2>8. QED BY <2>0, <2>1, <2>2, <2>3, <2>4, <2>5, <2>6, <2>7 DEF Dispatch
  <1>10. QED BY <1>8, <1>9

\* What a handler at work tells of the request it serves.
LEMMA HandlerFacts ==
    ASSUME IInv, Contract, NEW job \in jobs
    PROVE  /\ job.id \in 1..Len(win.asked) /\ job.id \in Nat /\ Fits(win.asked[job.id])
           /\ Fit(job) /\ Of(job) = win.asked[job.id]
           /\ jobs \ {job} = {} /\ jobs = {job}
           /\ noted \in Nat /\ read \in Nat /\ job.id \in 1..read
           /\ CallsFit /\ Len(calls) \in Nat
  <1>1. /\ job.id \in 1..read /\ job.id \in Nat /\ jobs = {job} /\ jobs \ {job} = {}
    BY OnlyHandler DEF IInv
  <1>2. job.id \in 1..Len(win.asked)
    BY <1>1, WindowFacts DEF IInv, HostShape
  <1>3. QED BY <1>1, <1>2, AskedFits DEF IInv, HostShape, Contract, JobsFit, Of

\* A handler gives up: its error is right.
LEMMA GivesUp ==
    ASSUME IInv, IInv', Contract, NEW job \in jobs, NEW c \in Allowed,
           Answer(job, Err(c)), UNCHANGED <<scn, win, half, stdout>>, CallsFit', CallsKeep
    PROVE  Contract'
  <1>1. jobs' = {} /\ job.id \in Nat
    BY HandlerFacts DEF Answer
  <1>2. PICK m \in Messages : m = Response(job.id, Err(c)) /\ Right(m)'
    BY <1>1, RightError
  <1>3. out' = Append(out, m)
    BY <1>2 DEF Answer
  <1>4. QED BY <1>1, <1>2, <1>3, ContractMoves

\* The host gives a call up.
LEMMA TimesOutContract ==
    ASSUME IInv, IInv', Contract, TimesOut
    PROVE  Contract'
  <1>1. PICK job \in jobs :
          /\ job.at \in {"calling", "locating", "showing"}
          /\ calls' = [calls EXCEPT ![job.call].left = TRUE]
          /\ Continues(job, Err("bridge.transport"))
    BY Zenon DEF TimesOut
  <1>2. UNCHANGED <<scn, win, read, half, stdout>>
    BY DEF TimesOut
  <1>3. PICK c \in 1..Len(calls) : c = job.call
    BY <1>1 DEF IInv, Waited, Awaiting
  <1>4. PICK v : v = [calls[c] EXCEPT !.left = TRUE]
    OBVIOUS
  <1>5. calls[c] \in CallRecs(scn)
    BY DEF IInv, HostShape
  <1>6. SameCall(calls[c], v)
    BY <1>4, <1>5 DEF SameCall, CallRecs
  <1>7. calls' = [calls EXCEPT ![c] = v]
    BY <1>1, <1>3, <1>4
  <1>8. CallsFit' /\ CallsKeep
    BY <1>2, <1>6, <1>7, EndedFits DEF Contract
  <1>9. Answer(job, Err("bridge.transport"))
    BY <1>1 DEF Continues, Err
  <1>10. QED BY <1>2, <1>8, <1>9, GivesUp DEF Allowed, Codes

\* Core answers: the handler that waits for this call brings its request the answer.
LEMMA CoreAnswersContract ==
    ASSUME IInv, IInv', Contract, CoreAnswers
    PROVE  Contract'
  <1>1. PICK c \in DOMAIN calls, answer \in {"error", "broken", "answered"} :
          /\ calls[c].state = "running"
          /\ calls' = [calls EXCEPT ![c].state = answer]
          /\ \/ Caller(c) = {} /\ UNCHANGED <<jobs, out>>
             \/ \E job \in Caller(c) :
                   Continues(job, Reply(calls[c].call,
                         IF answer = "answered" THEN Wanted[calls[c].call] ELSE answer))
    BY Zenon DEF CoreAnswers
  <1>2. UNCHANGED <<scn, win, read, half, stdout>>
    BY DEF CoreAnswers
  <1>3. c \in 1..Len(calls) /\ calls[c] \in CallRecs(scn) /\ CallsFit
    BY <1>1 DEF IInv, HostShape, Contract
  <1>4. PICK v : v = [calls[c] EXCEPT !.state = answer]
    OBVIOUS
  <1>5. SameCall(calls[c], v) /\ v.state = answer
    BY <1>1, <1>3, <1>4 DEF SameCall, CallRecs
  <1>6. calls' = [calls EXCEPT ![c] = v]
    BY <1>1, <1>4
  <1>7. CallsFit' /\ CallsKeep /\ calls'[c] = v /\ Len(calls') = Len(calls)
    BY <1>2, <1>3, <1>5, <1>6, EndedFits
  <1>8. CASE UNCHANGED <<jobs, out>>
    BY <1>2, <1>7, <1>8, ContractMoves
  <1>9. CASE \E job \in Caller(c) :
                Continues(job, Reply(calls[c].call,
                      IF answer = "answered" THEN Wanted[calls[c].call] ELSE answer))
    <2>1. PICK job \in Caller(c) :
             Continues(job, Reply(calls[c].call,
                   IF answer = "answered" THEN Wanted[calls[c].call] ELSE answer))
      BY <1>9
    <2>2. PICK call : call = calls[c].call
      OBVIOUS
    <2>3. /\ job \in jobs /\ job.call = c /\ Open(calls, c)
          /\ call \in DOMAIN Wanted /\ Wanted[call] \notin {"error", "broken"}
          /\ Wanted[call] \in Results
      BY <1>1, <1>3, <2>2, NamesApart DEF Caller, Open, CallRecs, Results
    <2>4. /\ job.id \in 1..Len(win.asked) /\ job.id \in Nat /\ Fits(win.asked[job.id])
          /\ Fit(job) /\ Of(job) = win.asked[job.id] /\ jobs \ {job} = {} /\ jobs = {job}
      BY <2>3, HandlerFacts
    <2>5. job.at \in Awaiting /\ calls[c].by = job.id
      <3>1. \E j \in jobs : j.at \in Awaiting /\ j.call = c
        BY <1>3, <2>3 DEF IInv, Waited
      <3>2. job.at \in Awaiting
        BY <2>4, <3>1
      <3>3. QED BY <2>3, <3>2 DEF IInv, Waited
    <2>6. PICK r : r = win.asked[job.id]
      OBVIOUS
    <2>7. r.method \in DOMAIN Forwards => /\ call = Forwards[r.method].call
                                          /\ calls[c].arg = r.means
      BY <1>3, <2>2, <2>4, <2>5, <2>6 DEF CallsFit, MadeFor, Fits
    <2>8. CASE answer \in {"error", "broken"}
      <3>1. PICK code \in Allowed : /\ Reply(call, answer) = Err(code)
        BY <2>3, <2>8 DEF Reply, Allowed, Codes
      <3>2. Continues(job, Err(code))
        BY <2>1, <2>2, <2>8, <3>1
      <3>3. Answer(job, Err(code))
        BY <3>2 DEF Continues, Err
      <3>4. QED BY <1>2, <1>7, <2>3, <3>3, GivesUp
    <2>9. CASE answer = "answered"
      <3>1. Reply(call, Wanted[call]) = Ok(Wanted[call])
        BY <2>3 DEF Reply
      <3>2. Continues(job, Ok(Wanted[call]))
        BY <2>1, <2>2, <2>9, <3>1
      <3>3. CASE job.at = "locating"
        <4>1. PICK k : k = [job EXCEPT !.at = "read"]
          OBVIOUS
        <4>2. jobs' = {k} /\ UNCHANGED out
          BY <2>4, <3>2, <3>3, <4>1 DEF Continues, Ok
        <4>3. job \in JobRecs(scn)
          BY <2>3, OnlyHandler DEF IInv
        <4>4. k.id = job.id /\ k.at = "read"
          BY <4>1, <4>3, StageFacts DEF Stages
        <4>5. k.at \in StagesOf(win.asked[k.id]) /\ k.at # "showing"
          <5>1. job.at \in StagesOf(win.asked[job.id])
            BY <2>4 DEF Fit
          <5>2. QED BY <3>3, <4>4, <5>1 DEF StagesOf
        <4>6. Fit(k)'
          BY <1>2, <4>5, StageFits
        <4>7. QED BY <1>2, <1>7, <4>2, <4>6, ContractMoves
      <3>4. CASE job.at # "locating"
        <4>1. Answer(job, Ok(Wanted[call]))
          BY <3>2, <3>4 DEF Continues
        <4>2. Wanted[call] \in r.reads
          <5>1. r.method \in DOMAIN Forwards \/ (r.method = "config/write" /\ job.at = "showing")
            BY <2>4, <2>5, <2>6, <3>4 DEF Fit, StagesOf, Awaiting
          <5>2. CASE r.method \in DOMAIN Forwards
            BY <2>4, <2>6, <2>7, <5>2 DEF Fits, Yields
          <5>3. CASE r.method \notin DOMAIN Forwards
            <6>1. call = "ConfigShow"
              BY <2>2, <2>3, <2>4, <5>1, <5>3 DEF Fit
            <6>2. Wanted["ConfigShow"] \in Yields(r.method)
              BY <5>1, <5>3 DEF Yields
            <6>3. QED BY <2>4, <2>6, <6>1, <6>2 DEF Fits
          <5>4. QED BY <5>2, <5>3
        <4>3. r.method \in DOMAIN Forwards =>
                 \E d \in DOMAIN calls' : /\ calls'[d].by = job.id
                                          /\ calls'[d].state = "answered"
                                          /\ calls'[d].arg = r.means
          <5>1. calls'[c].by = job.id /\ calls'[c].state = "answered" /\ c \in DOMAIN calls'
                /\ calls'[c].arg = calls[c].arg
            BY <1>1, <1>5, <1>6, <1>7, <2>5, <2>9 DEF SameCall
          <5>2. QED BY <2>7, <5>1
        <4>4. PICK m \in Messages : m = Response(job.id, Ok(Wanted[call])) /\ Right(m)'
          BY <1>2, <2>3, <2>4, <2>6, <4>2, <4>3, RightAnswer
        <4>5. jobs' = {} /\ out' = Append(out, m)
          BY <2>4, <4>1, <4>4 DEF Answer
        <4>6. QED BY <1>2, <1>7, <4>4, <4>5, ContractMoves
      <3>5. QED BY <3>3, <3>4
    <2>10. QED BY <2>8, <2>9
  <1>10. QED BY <1>1, <1>8, <1>9

\* A session is opened, or not.
LEMMA OpensContract ==
    ASSUME IInv, IInv', Contract, OpenEnds \/ StopEnds
    PROVE  Contract'
  <1>1. PICK job \in jobs : job.at \in {"opening", "stopping"}
    BY DEF OpenEnds, StopEnds
  <1>2. /\ job.id \in 1..Len(win.asked) /\ job.id \in Nat /\ Fits(win.asked[job.id])
        /\ Fit(job) /\ Of(job) = win.asked[job.id] /\ jobs \ {job} = {} /\ jobs = {job}
        /\ noted \in Nat /\ read \in Nat /\ CallsFit
    BY HandlerFacts
  <1>3. UNCHANGED <<scn, win, read, half, stdout, calls>>
    BY DEF OpenEnds, StopEnds
  <1>4. CallsFit' /\ CallsKeep
    BY <1>2, <1>3, CallsStay
  <1>5. PICK r : r = win.asked[job.id]
    OBVIOUS
  <1>6. /\ r.method \in {"session/open", "session/restart"}
        /\ r.method \notin DOMAIN Forwards /\ Fits(r)
    BY <1>1, <1>2, <1>5 DEF Fit, StagesOf
  <1>7. "SessionInfo" \in Results /\ "SessionInfo" \in r.reads
    BY <1>6 DEF Results, Fits, Yields
  <1>8. PICK n \in Messages : n = Emits /\ Right(n)'
    BY <1>2, RightNote
  <1>9. ASSUME NEW m \in Messages, Right(m)', out' = out \o <<n, m>>,
               jobs' = jobs \ {job}
        PROVE  Contract'
    BY <1>2, <1>3, <1>4, <1>8, <1>9, ContractMoves
  <1>10. CASE OpenEnds
    <2>1. \/ Opens(job, "owned")
          \/ Opens(job, "adopted")
          \/ /\ jobs' = jobs \ {job}
             /\ out' = out \o << Emits, Response(job.id, Err("bridge.startup_timeout")) >>
      BY <1>2, <1>10 DEF OpenEnds
    <2>2. CASE Opens(job, "owned") \/ Opens(job, "adopted")
      <3>1. PICK m \in Messages : m = Response(job.id, Ok("SessionInfo")) /\ Right(m)'
        BY <1>2, <1>3, <1>5, <1>6, <1>7, RightAnswer
      <3>2. out' = out \o <<n, m>> /\ jobs' = jobs \ {job}
        BY <1>8, <2>2, <3>1 DEF Opens
      <3>3. QED BY <1>9, <3>1, <3>2
    <2>3. CASE /\ jobs' = jobs \ {job}
               /\ out' = out \o << Emits, Response(job.id, Err("bridge.startup_timeout")) >>
      <3>1. "bridge.startup_timeout" \in Allowed
        BY DEF Allowed, Codes
      <3>2. PICK m \in Messages :
               m = Response(job.id, Err("bridge.startup_timeout")) /\ Right(m)'
        BY <1>2, <3>1, RightError
      <3>3. out' = out \o <<n, m>>
        BY <1>8, <2>3, <3>2
      <3>4. QED BY <1>9, <2>3, <3>2, <3>3
    <2>4. QED BY <2>1, <2>2, <2>3
  <1>11. CASE StopEnds
    <2>1. \/ /\ jobs' = (jobs \ {job}) \cup {[job EXCEPT !.at = "opening"]}
             /\ out' = Append(out, Emits)
          \/ Answer(job, Err("bridge.fs.io"))
      BY <1>2, <1>11 DEF StopEnds
    <2>2. CASE /\ jobs' = (jobs \ {job}) \cup {[job EXCEPT !.at = "opening"]}
               /\ out' = Append(out, Emits)
      <3>1. PICK k : k = [job EXCEPT !.at = "opening"]
        OBVIOUS
      <3>2. job \in JobRecs(scn)
        BY OnlyHandler DEF IInv
      <3>3. k.id = job.id /\ k.at = "opening"
        BY <3>1, <3>2, StageFacts DEF Stages
      <3>4. jobs' = {k} /\ out' = Append(out, n)
        BY <1>2, <1>8, <2>2, <3>1
      <3>5. k.at \in StagesOf(win.asked[k.id]) /\ k.at # "showing"
        BY <1>5, <1>6, <3>3 DEF StagesOf
      <3>6. Fit(k)'
        BY <1>3, <3>5, StageFits
      <3>7. QED BY <1>3, <1>4, <1>8, <3>4, <3>6, ContractMoves
    <2>3. CASE Answer(job, Err("bridge.fs.io"))
      BY <1>3, <1>4, <2>3, GivesUp DEF Allowed, Codes
    <2>4. QED BY <2>1, <2>2, <2>3
  <1>12. QED BY <1>10, <1>11

\* A step of write_key goes on, is the last, or fails with a code of its own.
LEMMA WriteStages ==
    ASSUME NEW w \in JobRecs(scn), NEW leaf, NEW step \in write_key(w, leaf)
    PROVE  step.w.at \in Writing \cup {"written", "bridge.config.write", "bridge.fs.io"}
  <1>1. \A at \in Stages : [w EXCEPT !.at = at].at = at
    BY StageFacts
  <1>2. ASSUME NEW code \in {"bridge.config.write", "bridge.fs.io"}
        PROVE  Failed(w, code).w.at = code
    BY <1>1 DEF Failed, Step, Stages, Codes
  <1>3. ASSUME w.at = "read" PROVE Read(w, leaf).w.at \in {"create", "bridge.config.write"}
    BY <1>2 DEF Read, Step, JobRecs
  <1>4. ASSUME w.at = "create" PROVE CreateTemp(w).w.at = "fill"
    BY DEF CreateTemp, Step, JobRecs
  <1>5. ASSUME w.at = "fill" PROVE Fill(w).w.at = "rename"
    BY DEF Fill, Step, JobRecs
  <1>6. ASSUME w.at = "rename" PROVE Rename(w, leaf).w.at \in {"written", "bridge.fs.io"}
    BY <1>2 DEF Rename, Step, JobRecs
  <1>7. QED BY <1>2, <1>3, <1>4, <1>5, <1>6 DEF write_key, Writing

\* config/write goes on with the document, or to show it, or fails.
LEMMA WritesContract ==
    ASSUME IInv, IInv', Contract, HostWrites
    PROVE  Contract'
  <1>1. PICK job \in jobs : \E step \in write_key(job, Param(Of(job), "key")) :
          CASE step.w.at \in Writing ->
                     /\ jobs' = (jobs \ {job}) \cup {step.w}
                     /\ UNCHANGED <<calls, out>>
               [] step.w.at = "written" ->
                     /\ Calling(job.id, "ConfigShow", None)
                     /\ jobs' = (jobs \ {job})
                          \cup {[Job(job.id, "showing") EXCEPT !.call = Len(calls) + 1]}
                     /\ UNCHANGED out
               [] OTHER -> Answer(job, Err(step.w.at)) /\ UNCHANGED calls
    BY Zenon DEF HostWrites
  <1>2. PICK step \in write_key(job, Param(Of(job), "key")) :
          CASE step.w.at \in Writing ->
                     /\ jobs' = (jobs \ {job}) \cup {step.w}
                     /\ UNCHANGED <<calls, out>>
               [] step.w.at = "written" ->
                     /\ Calling(job.id, "ConfigShow", None)
                     /\ jobs' = (jobs \ {job})
                          \cup {[Job(job.id, "showing") EXCEPT !.call = Len(calls) + 1]}
                     /\ UNCHANGED out
               [] OTHER -> Answer(job, Err(step.w.at)) /\ UNCHANGED calls
    BY <1>1
  <1>3. UNCHANGED <<scn, win, read, half, stdout>>
    BY DEF HostWrites
  <1>4. /\ job.id \in 1..Len(win.asked) /\ job.id \in Nat /\ Fits(win.asked[job.id])
        /\ Fit(job) /\ Of(job) = win.asked[job.id] /\ jobs \ {job} = {} /\ jobs = {job}
        /\ read \in Nat /\ CallsFit /\ job.id \in 1..read
    BY HandlerFacts
  <1>5. job \in JobRecs(scn)
    BY OnlyHandler DEF IInv
  <1>6. /\ job.at \in {"read", "create", "fill", "rename"} /\ step.w.id = job.id
        /\ step.w.at \in Writing \cup {"written", "bridge.config.write", "bridge.fs.io"}
    <2>1. Param(Of(job), "key") \in Leaves(scn)
      <3>1. win.asked[job.id] \in Asks(scn)
        BY <1>4, WindowFacts DEF IInv
      <3>2. QED BY <1>4, <3>1 DEF Leaves
    <2>2. job.at \in {"read", "create", "fill", "rename"} /\ step.w.id = job.id
      BY <1>5, <2>1, WriteFacts DEF IInv
    <2>3. QED BY <1>5, <2>2, WriteStages
  <1>7. PICK r : r = win.asked[job.id]
    OBVIOUS
  <1>8. r.method = "config/write" /\ r.method \notin DOMAIN Forwards
    BY <1>4, <1>6, <1>7 DEF Fit, StagesOf
  <1>9. UNCHANGED calls => CallsFit' /\ CallsKeep
    BY <1>3, <1>4, CallsStay
  <1>10. CASE step.w.at \in Writing
    <2>1. PICK k : k = step.w
      OBVIOUS
    <2>2. jobs' = {k} /\ UNCHANGED <<calls, out>>
      <3>1. jobs' = (jobs \ {job}) \cup {step.w} /\ UNCHANGED <<calls, out>>
        BY <1>2, <1>10 DEF Writing
      <3>2. QED BY <1>4, <2>1, <3>1
    <2>3. k.at \in StagesOf(win.asked[k.id]) /\ k.at # "showing"
      BY <1>6, <1>7, <1>8, <1>10, <2>1 DEF StagesOf, Writing
    <2>4. Fit(k)'
      BY <1>3, <2>3, StageFits
    <2>5. QED BY <1>3, <1>9, <2>2, <2>4, ContractMoves
  <1>11. CASE step.w.at = "written"
    <2>1. PICK k : k = [Job(job.id, "showing") EXCEPT !.call = Len(calls) + 1]
      OBVIOUS
    <2>2. k.id = job.id /\ k.at = "showing" /\ k.call = Len(calls) + 1
      BY <2>1 DEF Job
    <2>3. jobs' = {k} /\ UNCHANGED out /\ Calling(job.id, "ConfigShow", None)
      BY <1>2, <1>4, <1>11, <2>1 DEF Writing
    <2>4. CallsFit' /\ CallsKeep /\ calls'[Len(calls) + 1].call = "ConfigShow"
      BY <1>3, <1>4, <1>7, <1>8, <2>3, CallFits
    <2>5. k.at \in StagesOf(win.asked[k.id])
      BY <1>7, <1>8, <2>2 DEF StagesOf
    <2>6. Fit(k)'
      BY <1>3, <2>2, <2>4, <2>5, StageFits
    <2>7. QED BY <1>3, <2>3, <2>4, <2>6, ContractMoves
  <1>12. CASE step.w.at \notin Writing \cup {"written"}
    <2>1. PICK code : code = step.w.at
      OBVIOUS
    <2>2. code \in Allowed
      BY <1>6, <1>12, <2>1 DEF Allowed, Codes
    <2>3. Answer(job, Err(code)) /\ UNCHANGED calls
      BY <1>2, <1>12, <2>1
    <2>4. QED BY <1>3, <1>9, <2>2, <2>3, GivesUp
  <1>13. QED BY <1>10, <1>11, <1>12

\* The supervise task answers nobody.
LEMMA EmitContract ==
    ASSUME IInv, IInv', Contract, Emit
    PROVE  Contract'
  <1>1. /\ UNCHANGED <<scn, win, read, jobs, half, stdout, calls>>
        /\ out' = Append(out, Emits) /\ noted \in Nat /\ read \in Nat /\ CallsFit
    BY DEF Emit, IInv, HostShape, Contract
  <1>2. CallsFit' /\ CallsKeep
    BY <1>1, CallsStay
  <1>3. PICK n \in Messages : n = Emits /\ Right(n)'
    BY <1>1, RightNote
  <1>4. QED BY <1>1, <1>2, <1>3, ContractMoves

\* Nobody is answered by a promise that waits, or that the end of the stream settled.
LEMMA NoAnswer == \A i : Honoured(i, Waiting)' /\ Honoured(i, Err("closed"))'
  BY DEF Honoured, Waiting, Err

\* Steps that start no handler and make no call keep the contract, if they bring no
\* response on its way and settle no promise but rightly.
LEMMA ContractStays ==
    ASSUME IInv, IInv', Contract, Keeps(win, win'), UNCHANGED scn,
           jobs' \subseteq jobs, CallsFit', CallsKeep,
           \A m \in Messages : Moving(m)' => Moving(m),
           \A i \in DOMAIN win'.promise :
              \/ i \in DOMAIN win.promise /\ win'.promise[i] = win.promise[i]
              \/ \E p : p = win'.promise[i] /\ Honoured(i, p)'
    PROVE  Contract'
  <1>1. JobsFit'
    <2> SUFFICES ASSUME NEW job \in jobs' PROVE Fit(job)'
      BY DEF JobsFit
    <2>1. job \in jobs /\ Fit(job)
      BY DEF Contract, JobsFit
    <2>2. job.id \in 1..Len(win.asked) /\ Of(job) = win.asked[job.id]
      BY <2>1, HandlerFacts
    <2>3. Of(job)' = Of(job)
      BY <2>2 DEF Keeps, Of
    <2>4. ASSUME job.at = "showing" PROVE calls'[job.call].call = "ConfigShow"
      <3>1. job.call \in 1..Len(calls)
        BY <2>1, <2>4 DEF IInv, Waited, Awaiting
      <3>2. QED BY <2>1, <2>4, <3>1 DEF Fit, CallsKeep, SameCall
    <2>5. QED BY <2>1, <2>3, <2>4 DEF Fit
  <1>2. OnItsWay'
    BY Carried DEF Contract
  <1>3. ContractHonoured'
    BY PromisesStay DEF Contract
  <1>4. QED BY <1>1, <1>2, <1>3 DEF Contract

\* The client starts nothing in the host.
LEMMA ClientContract ==
    ASSUME IInv, IInv', Contract, Keeps(win, win'), UNCHANGED <<scn, read, jobs, calls>>,
           \A m \in Messages : Moving(m)' => Moving(m),
           \A i \in DOMAIN win'.promise :
              \/ i \in DOMAIN win.promise /\ win'.promise[i] = win.promise[i]
              \/ \E p : p = win'.promise[i] /\ Honoured(i, p)'
    PROVE  Contract'
  <1>1. /\ CallsFit /\ Len(calls) \in Nat /\ Len(win.asked) \in Nat
        /\ read \in 0..Len(win.asked)
    BY WindowFacts DEF Contract, IInv, HostShape
  <1>2. CallsKeep
    BY <1>1 DEF CallsKeep, SameCall
  <1>3. CallsFit'
    <2> SUFFICES ASSUME NEW c \in 1..Len(calls)
                 PROVE  /\ calls[c].by \in 1..read
                        /\ MadeFor(calls[c], win'.asked[calls[c].by])
      BY DEF CallsFit, MadeFor
    <2>1. calls[c].by \in 1..read /\ MadeFor(calls[c], win.asked[calls[c].by])
      BY <1>1 DEF CallsFit
    <2>2. calls[c].by \in 1..Len(win.asked)
      BY <1>1, <2>1
    <2>3. QED BY <2>1, <2>2 DEF Keeps
  <1>4. QED BY <1>2, <1>3, ContractStays

\* What onClose settles is no answer.
LEMMA ClosedPromises ==
    ASSUME IInv, win' = Closing(win)
    PROVE  /\ Keeps(win, win') /\ win'.buffer = win.buffer
           /\ \A i \in DOMAIN win'.promise :
                 \/ i \in DOMAIN win.promise /\ win'.promise[i] = win.promise[i]
                 \/ \E p : p = win'.promise[i] /\ Honoured(i, p)'
  <1>1. win \in Windows(scn)
    BY WindowFacts DEF IInv
  <1>2. /\ win'.asked = win.asked /\ win'.buffer = win.buffer
        /\ win'.promise = [i \in DOMAIN win.promise |->
                             IF win.promise[i] = Waiting THEN Err("closed")
                                                         ELSE win.promise[i]]
    BY <1>1 DEF Closing, Windows
  <1>3. Keeps(win, win')
    BY <1>2, NothingAsked DEF IInv
  <1>4. QED BY <1>2, <1>3, NoAnswer

\* A request goes out.
LEMMA AskContract ==
    ASSUME IInv, IInv', Contract, Ask
    PROVE  Contract'
  <1>1. UNCHANGED <<scn, read, jobs, calls, out, half, stdout>>
    BY DEF Ask
  <1>2. Turns(win, win', 0, Waiting)
    BY AskFacts DEF IInv
  <1>3. Keeps(win, win') /\ win'.buffer = win.buffer
    BY <1>2 DEF Turns
  <1>4. \A m \in Messages : Moving(m)' => Moving(m)
    BY <1>1, <1>3 DEF Moving
  <1>5. ASSUME NEW i \in DOMAIN win'.promise
        PROVE  \/ i \in DOMAIN win.promise /\ win'.promise[i] = win.promise[i]
               \/ \E p : p = win'.promise[i] /\ Honoured(i, p)'
    <2>1. /\ DOMAIN win.promise = 1..Len(win.promise) /\ Len(win.promise) \in Nat
          /\ DOMAIN win'.promise = 1..Len(win'.promise) /\ Len(win'.promise) \in Nat
      BY WindowFacts, AskFacts DEF IInv, WellFormed, Windows
    <2>2. CASE i \in 1..Len(win.promise)
      BY <1>2, <2>1, <2>2, NoAnswer DEF Turns
    <2>3. CASE i \in Len(win.promise) + 1..Len(win'.promise)
      BY <1>2, <2>3, NoAnswer DEF Turns
    <2>4. QED BY <2>1, <2>2, <2>3
  <1>6. QED BY <1>1, <1>3, <1>4, <1>5, ClientContract

\* What is left of a buffer has nothing new in it.
LeftOf(r, q, e) == /\ r \in Seq(Tokens) /\ Len(r) = Len(q) - e
                   /\ \A i \in 1..Len(q) - e : r[i] = q[e + i]

LEMMA NothingNew ==
    ASSUME NEW q \in Seq(Tokens), NEW e \in 0..Len(q), NEW r, LeftOf(r, q, e)
    PROVE  \A i \in DOMAIN r : \E k \in DOMAIN q : r[i] = q[k]
  <1>1. ASSUME NEW i \in DOMAIN r PROVE \E k \in DOMAIN q : r[i] = q[k]
    <2>1. e + i \in DOMAIN q /\ r[i] = q[e + i]
      BY DEF LeftOf
    <2>2. QED BY <2>1
  <1>2. QED BY <1>1

\* A response settles its promise with what was right on its way.
LEMMA BodyContract ==
    ASSUME IInv, IInv', Contract, ParsesBody
    PROVE  Contract'
  <1>1. UNCHANGED <<scn, read, jobs, calls, out, half, stdout>>
    BY DEF ParsesBody
  <1>2. /\ WellFormed(scn, win') /\ Keeps(win, win') /\ win'.buffer = RestOfBuffer
        /\ win.contentLength \in 1..2 /\ win.contentLength <= Len(win.buffer)
    BY BodyFacts DEF IInv
  <1>3. \A m \in Messages : Moving(m)' => Moving(m)
    <2>1. \A i \in DOMAIN win'.buffer : \E k \in DOMAIN win.buffer :
             win'.buffer[i] = win.buffer[k]
      <3>1. /\ win.contentLength \in 0..Len(win.buffer) /\ win.buffer \in Seq(Tokens)
            /\ win'.buffer = SubSeq(win.buffer, win.contentLength + 1, Len(win.buffer))
        BY <1>2, WindowFacts DEF IInv, RestOfBuffer
      <3>2. LeftOf(win'.buffer, win.buffer, win.contentLength)
        BY <3>1, RestFacts DEF LeftOf
      <3>3. PICK q, e, r : q = win.buffer /\ e = win.contentLength /\ r = win'.buffer
        OBVIOUS
      <3>4. q \in Seq(Tokens) /\ e \in 0..Len(q) /\ LeftOf(r, q, e)
        BY <3>1, <3>2, <3>3
      <3>5. \A i \in DOMAIN r : \E k \in DOMAIN q : r[i] = q[k]
        BY <3>4, NothingNew
      <3>6. QED BY <3>3, <3>5
    <2>2. QED BY <1>1, <2>1 DEF Moving
  <1>4. CallsKeep
    <2>1. Len(calls) \in Nat
      BY DEF IInv, HostShape
    <2>2. QED BY <1>1, <2>1 DEF CallsKeep, SameCall
  <1>5. ASSUME NEW i \in DOMAIN win'.promise
        PROVE  \/ i \in DOMAIN win.promise /\ win'.promise[i] = win.promise[i]
               \/ \E p : p = win'.promise[i] /\ Honoured(i, p)'
    <2>1. /\ DOMAIN win.promise = 1..Len(win.promise) /\ Len(win.promise) \in Nat
          /\ DOMAIN win'.promise = 1..Len(win'.promise) /\ Len(win'.promise) \in Nat
      BY <1>2, WindowFacts DEF IInv, WellFormed, Windows
    <2>2. CASE i \in Len(win.promise) + 1..Len(win'.promise)
      <3>1. win'.promise[i] = IF win.closed THEN Err("closed") ELSE Waiting
        BY <2>2, BodyFacts DEF IInv
      <3>2. QED BY <3>1, NoAnswer
    <2>3. CASE i \in 1..Len(win.promise)
      <3>1. \/ win'.promise[i] = win.promise[i]
            \/ \E k \in 1..Len(win.buffer) :
                  /\ win.buffer[k].of \in Messages
                  /\ win.buffer[k].of.kind = "response"
                  /\ win.buffer[k].of.id = i
                  /\ win.buffer[k].of.body = win'.promise[i]
        BY <2>3, BodyFacts DEF IInv
      <3>2. ASSUME NEW k \in 1..Len(win.buffer), win.buffer[k].of \in Messages,
                   win.buffer[k].of.kind = "response", win.buffer[k].of.id = i,
                   win.buffer[k].of.body = win'.promise[i]
            PROVE  \E p : p = win'.promise[i] /\ Honoured(i, p)'
        <4>1. PICK m \in Messages : m = win.buffer[k].of
          BY <3>2
        <4>2. Moving(m)
          <5>1. DOMAIN win.buffer = 1..Len(win.buffer)
            BY WindowFacts DEF IInv
          <5>2. QED BY <4>1, <5>1 DEF Moving
        <4>3. Right(m)'
          BY <1>2, <1>4, <4>2, MovingGiven, StaysRight DEF Contract, OnItsWay
        <4>4. m.kind = "response" /\ m.id = i /\ m.body = win'.promise[i]
          BY <3>2, <4>1
        <4>5. Honoured(m.id, m.body)'
          BY <4>3, <4>4 DEF Right
        <4>6. PICK p : p = m.body
          OBVIOUS
        <4>7. Honoured(i, p)'
          BY <4>4, <4>5, <4>6
        <4>8. QED BY <4>4, <4>6, <4>7
      <3>3. QED BY <2>1, <2>3, <3>1, <3>2
    <2>4. QED BY <2>1, <2>2, <2>3
  <1>6. QED BY <1>1, <1>2, <1>3, <1>5, ClientContract

\* What is put behind a stream leaves the rest of it alone.
From(r, p, q) == \A i \in DOMAIN r : \/ \E k \in DOMAIN p : r[i] = p[k]
                                     \/ \E k \in DOMAIN q : r[i] = q[k]

LEMMA Behind == \A p, q \in Seq(Tokens) : From(p \o q, p, q)
  <1> SUFFICES ASSUME NEW p \in Seq(Tokens), NEW q \in Seq(Tokens) PROVE From(p \o q, p, q)
    OBVIOUS
  <1>1. PICK r : r = p \o q
    OBVIOUS
  <1>2. /\ DOMAIN r = 1..Len(p) + Len(q) /\ Len(p) \in Nat /\ Len(q) \in Nat
        /\ DOMAIN p = 1..Len(p) /\ DOMAIN q = 1..Len(q)
        /\ \A i \in 1..Len(p) : r[i] = p[i]
        /\ \A i \in 1..Len(q) : r[Len(p) + i] = q[i]
    BY <1>1
  <1>3. ASSUME NEW i \in DOMAIN r, i \notin 1..Len(p)
        PROVE  \E k \in DOMAIN q : r[i] = q[k]
    <2>1. PICK k : k = i - Len(p)
      OBVIOUS
    <2>2. k \in 1..Len(q) /\ i = Len(p) + k
      BY <1>2, <1>3, <2>1
    <2>3. QED BY <1>2, <2>2
  <1>4. From(r, p, q)
    BY <1>2, <1>3 DEF From
  <1>5. QED BY <1>1, <1>4

\* The writer settles nothing.
LEMMA WriterTells ==
    ASSUME IInv, IInv', Contract, UNCHANGED <<scn, win, read, jobs, calls>>,
           \A m \in Messages : Moving(m)' => Moving(m)
    PROVE  Contract'
  <1>1. Keeps(win, win')
    BY NothingAsked DEF IInv
  <1>2. QED BY <1>1, ClientContract

\* A header holds no message; the end of the stream answers nobody.
LEMMA HeaderContract ==
    ASSUME IInv, IInv', Contract, ParsesHeader
    PROVE  Contract'
  <1>1. UNCHANGED <<scn, read, jobs, calls, out, half, stdout>>
    BY DEF ParsesHeader
  <1>2. win'.asked = win.asked
    BY HeaderFacts DEF IInv
  <1>3. Keeps(win, win')
    BY <1>2, NothingAsked DEF IInv
  <1>4. PICK e \in 1..Len(win.buffer) :
          \/ win' = Closing(win)
          \/ /\ win'.promise = win.promise
             /\ win'.buffer = SubSeq(win.buffer, e + 1, Len(win.buffer))
    BY HeaderFacts DEF IInv
  <1>5. CASE win' = Closing(win)
    <2>1. \A m \in Messages : Moving(m)' => Moving(m)
      BY <1>1, <1>5, ClosedPromises DEF Moving
    <2>2. QED BY <1>1, <1>3, <1>5, <2>1, ClosedPromises, ClientContract
  <1>6. CASE /\ win'.promise = win.promise
             /\ win'.buffer = SubSeq(win.buffer, e + 1, Len(win.buffer))
    <2>1. PICK q, r : q = win.buffer /\ r = win'.buffer
      OBVIOUS
    <2>2. q \in Seq(Tokens) /\ e \in 0..Len(q) /\ r = SubSeq(q, e + 1, Len(q))
      BY <1>6, <2>1, WindowFacts DEF IInv
    <2>3. LeftOf(r, q, e)
      BY <2>2, RestFacts DEF LeftOf
    <2>4. \A i \in DOMAIN r : \E k \in DOMAIN q : r[i] = q[k]
      BY <2>2, <2>3, NothingNew
    <2>5. \A m \in Messages : Moving(m)' => Moving(m)
      BY <1>1, <2>1, <2>4 DEF Moving
    <2>6. QED BY <1>1, <1>3, <1>6, <2>5, ClientContract
  <1>7. QED BY <1>4, <1>5, <1>6

\* What the client has read was in the pipe.
LEMMA ReadContract ==
    ASSUME IInv, IInv', Contract, ClientReads
    PROVE  Contract'
  <1>1. PICK n \in Cuts : /\ win' = [win EXCEPT !.buffer = @ \o SubSeq(stdout, 1, n)]
                          /\ stdout' = SubSeq(stdout, n + 1, Len(stdout))
    BY DEF ClientReads
  <1>2. UNCHANGED <<scn, read, jobs, calls, out, half>>
    BY DEF ClientReads
  <1>3. win \in Windows(scn) /\ win.buffer \in Seq(Tokens) /\ stdout \in Seq(Tokens)
    BY WindowFacts DEF IInv, WindowShape
  <1>4. n \in 0..Len(stdout)
    BY <1>1, <1>3 DEF Cuts
  <1>5. PICK p, q, f : p = win.buffer /\ q = stdout /\ f = SubSeq(stdout, 1, n)
    OBVIOUS
  <1>6. /\ win'.asked = win.asked /\ win'.promise = win.promise /\ win'.buffer = p \o f
    BY <1>1, <1>3, <1>5 DEF Windows
  <1>7. f \in Seq(Tokens) /\ Len(f) = n /\ \A i \in 1..n : f[i] = q[i]
    BY <1>3, <1>4, <1>5
  <1>8. PICK b : b = p \o f
    OBVIOUS
  <1>9. p \in Seq(Tokens) /\ q \in Seq(Tokens)
    BY <1>3, <1>5
  <1>10. \A i \in DOMAIN b : \/ \E k \in DOMAIN p : b[i] = p[k]
                             \/ \E k \in DOMAIN q : b[i] = q[k]
    <2>1. From(b, p, f)
      BY <1>7, <1>8, <1>9, Behind, Zenon
    <2>2. \A k \in DOMAIN f : k \in DOMAIN q /\ f[k] = q[k]
      BY <1>4, <1>5, <1>7, <1>9
    <2>3. QED BY <2>1, <2>2 DEF From
  <1>11. PICK r : r = stdout'
    OBVIOUS
  <1>12. \A i \in DOMAIN r : \E k \in DOMAIN q : r[i] = q[k]
    <2>1. q \in Seq(Tokens) /\ n \in 0..Len(q) /\ r = SubSeq(q, n + 1, Len(q))
      BY <1>1, <1>3, <1>4, <1>5, <1>11
    <2>2. LeftOf(r, q, n)
      BY <2>1, RestFacts DEF LeftOf
    <2>3. QED BY <2>1, <2>2, NothingNew
  <1>13. \A m \in Messages : Moving(m)' => Moving(m)
    <2>0. b = win'.buffer
      BY <1>6, <1>8
    <2>1. \A i \in DOMAIN win'.buffer : \/ \E k \in DOMAIN win.buffer :
                                             win'.buffer[i] = win.buffer[k]
                                       \/ \E k \in DOMAIN stdout :
                                             win'.buffer[i] = stdout[k]
      BY <1>5, <1>10, <2>0
    <2>2. \A i \in DOMAIN stdout' : \E k \in DOMAIN stdout : stdout'[i] = stdout[k]
      BY <1>5, <1>11, <1>12
    <2>3. QED BY <1>2, <2>1, <2>2 DEF Moving
  <1>14. Keeps(win, win')
    BY <1>6, NothingAsked DEF IInv
  <1>15. QED BY <1>2, <1>6, <1>13, <1>14, ClientContract

\* The end of the stream answers nobody.
LEMMA CloseContract ==
    ASSUME IInv, IInv', Contract, ClientCloses
    PROVE  Contract'
  <1>1. UNCHANGED <<scn, read, jobs, calls, out, half, stdout>> /\ win' = Closing(win)
    BY DEF ClientCloses
  <1>2. \A m \in Messages : Moving(m)' => Moving(m)
    BY <1>1, ClosedPromises DEF Moving
  <1>3. QED BY <1>1, <1>2, ClosedPromises, ClientContract

\* The writer sends what it was given.
LEMMA WriterContract ==
    ASSUME IInv, IInv', Contract, Writer
    PROVE  Contract'
  <1>1. UNCHANGED <<scn, win, read, jobs, calls>>
    BY DEF Writer, WriteHeader, WriteBody
  <1>2. out \in Seq(Messages) /\ stdout \in Seq(Tokens)
    BY DEF IInv, HostShape, WindowShape
  <1>3. CASE WriteHeader
    <2>1. /\ half' = Head(out) /\ out' = Tail(out) /\ out # <<>>
          /\ stdout' = stdout \o Header(Head(out))
      BY <1>3 DEF WriteHeader
    <2>2. half' \in {out[i] : i \in DOMAIN out}
      BY <1>2, <2>1
    <2>3. {out'[i] : i \in DOMAIN out'} \subseteq {out[i] : i \in DOMAIN out}
      BY <1>2, <2>1
    <2>4. PICK h : h = Header(Head(out))
      OBVIOUS
    <2>5. h \in Seq(Tokens) /\ \A i \in DOMAIN h : h[i].of = None
      <3>1. Length(Head(out)) \in 1..2
        BY <1>2, <2>1, LengthFacts
      <3>2. /\ Token("length", Length(Head(out)), None) \in Tokens
            /\ Token("length", Length(Head(out)), None).of = None
        BY <3>1 DEF Token, Tokens
      <3>3. Token("end", 0, None) \in Tokens /\ Token("end", 0, None).of = None
        BY DEF Token, Tokens
      <3>4. QED BY <2>4, <3>2, <3>3 DEF Header
    <2>6. \A i \in DOMAIN stdout' : \/ \E k \in DOMAIN stdout : stdout'[i] = stdout[k]
                                    \/ \E k \in DOMAIN h : stdout'[i] = h[k]
      <3>1. PICK p, r : p = stdout /\ r = stdout'
        OBVIOUS
      <3>2. p \in Seq(Tokens) /\ h \in Seq(Tokens) /\ r = p \o h
        BY <1>2, <2>1, <2>4, <2>5, <3>1
      <3>3. From(r, p, h)
        BY <3>2, Behind, Zenon
      <3>4. QED BY <3>1, <3>3 DEF From
    <2>7. \A m \in Messages : Moving(m)' => Moving(m)
      BY <1>1, <2>2, <2>3, <2>5, <2>6, NoneIsNoMessage DEF Moving
    <2>8. QED BY <1>1, <2>7, WriterTells
  <1>4. CASE WriteBody
    <2>1. half # None /\ half' = None /\ stdout' = stdout \o Body(half) /\ out' = out
      BY <1>4 DEF WriteBody
    <2>2. PICK h : h = Body(half)
      OBVIOUS
    <2>3. half \in Messages
      BY <2>1 DEF IInv, HostShape
    <2>4. h \in Seq(Tokens) /\ \A i \in DOMAIN h : h[i].of = half
      <3>1. Length(half) \in 1..2 BY <2>3, LengthFacts
      <3>2. \A i \in 1..Length(half) : /\ Token("body", i, half) \in Tokens
                                       /\ Token("body", i, half).of = half
        BY <2>3, <3>1 DEF Token, Tokens
      <3>3. h = [k \in 1..Length(half) |-> Token("body", k, half)]
        BY <2>2 DEF Body
      <3>4. QED BY <3>1, <3>2, <3>3
    <2>5. \A i \in DOMAIN stdout' : \/ \E k \in DOMAIN stdout : stdout'[i] = stdout[k]
                                    \/ \E k \in DOMAIN h : stdout'[i] = h[k]
      <3>1. PICK p, r : p = stdout /\ r = stdout'
        OBVIOUS
      <3>2. p \in Seq(Tokens) /\ h \in Seq(Tokens) /\ r = p \o h
        BY <1>2, <2>1, <2>2, <2>4, <3>1
      <3>3. From(r, p, h)
        BY <3>2, Behind, Zenon
      <3>4. QED BY <3>1, <3>3 DEF From
    <2>6. \A m \in Messages : Moving(m)' => Moving(m)
      BY <1>1, <2>1, <2>4, <2>5, NoneIsNoMessage DEF Moving
    <2>7. QED BY <1>1, <2>6, WriterTells
  <1>5. QED BY <1>3, <1>4 DEF Writer

\* A host that dies answers nobody any more.
LEMMA ExitContract ==
    ASSUME IInv, IInv', Contract, HostExits
    PROVE  Contract'
  <1>1. /\ UNCHANGED <<scn, win, read, stdout>>
        /\ jobs' = {} /\ out' = <<>> /\ half' = None
        /\ calls' = [c \in DOMAIN calls |-> [calls[c] EXCEPT !.left = TRUE]]
    BY DEF HostExits
  <1>2. calls \in Seq(CallRecs(scn)) /\ Len(calls) \in Nat /\ CallsFit
    BY DEF IInv, HostShape, Contract
  <1>3. calls' \in Seq(CallRecs(scn))
    BY <1>1 DEF IInv, HostShape
  <1>4. Len(calls') = Len(calls)
    BY <1>1, <1>2, <1>3
  <1>5. \A c \in 1..Len(calls) : SameCall(calls[c], calls'[c])
    <2> SUFFICES ASSUME NEW c \in 1..Len(calls) PROVE SameCall(calls[c], calls'[c])
      OBVIOUS
    <2>0. c \in DOMAIN calls
      BY <1>2
    <2>1. calls'[c] = [calls[c] EXCEPT !.left = TRUE]
      BY <1>1, <2>0, Zenon
    <2>2. calls[c] \in CallRecs(scn)
      BY <1>2
    <2>3. QED BY <2>1, <2>2 DEF CallRecs, SameCall
  <1>6. CallsKeep
    BY <1>2, <1>4, <1>5 DEF CallsKeep
  <1>7. CallsFit'
    BY <1>1, <1>2, <1>4, <1>5 DEF CallsFit, MadeFor, SameCall
  <1>8. \A m \in Messages : Moving(m)' => Moving(m)
    BY <1>1, NoneIsNoMessage DEF Moving
  <1>9. Keeps(win, win')
    BY <1>1, NothingAsked DEF IInv
  <1>10. QED BY <1>1, <1>6, <1>7, <1>8, <1>9, ContractStays

\* Whatever becomes of a request of the extension, it was not refused for its shape,
\* and what its caller is given is Core's answer to a call made for that request, of
\* the kind the caller reads, with the decision its user took.
THEOREM ContractKept == Spec => []ContractHonoured
  <1>1. Init => Contract
    <2> SUFFICES ASSUME Init PROVE Contract
      OBVIOUS
    <2>1. JobsFit
      BY DEF Init, JobsFit
    <2>2. CallsFit
      BY DEF Init, CallsFit
    <2>3. OnItsWay
      BY NoneIsNoMessage DEF Init, OnItsWay, Moving
    <2>4. ContractHonoured
      BY DEF Init, ContractHonoured
    <2>5. QED BY <2>1, <2>2, <2>3, <2>4 DEF Contract
  <1>2. IInv /\ IInv' /\ Contract /\ [Next]_vars => Contract'
    <2> SUFFICES ASSUME IInv, IInv', Contract, [Next]_vars PROVE Contract'
      OBVIOUS
    <2>1. CASE Ask BY <2>1, AskContract
    <2>2. CASE HostLoop
      BY <2>2, TakesContract, TimesOutContract, OpensContract, WritesContract DEF HostLoop, HostTurn
    <2>3. CASE CoreAnswers BY <2>3, CoreAnswersContract
    <2>4. CASE Emit BY <2>4, EmitContract
    <2>5. CASE Writer BY <2>5, WriterContract
    <2>6. CASE Client
      BY <2>6, ReadContract, HeaderContract, BodyContract, CloseContract DEF Client
    <2>7. CASE HostExits BY <2>7, ExitContract
    <2>8. CASE OtherWrites \/ UNCHANGED vars
      <3>1. UNCHANGED <<scn, win, read, jobs, calls, out, half, stdout>>
        BY <2>8 DEF OtherWrites, vars
      <3>2. \A m \in Messages : Moving(m)' => Moving(m)
        BY <3>1 DEF Moving
      <3>3. QED BY <3>1, <3>2, WriterTells
    <2>9. QED BY <2>1, <2>2, <2>3, <2>4, <2>5, <2>6, <2>7, <2>8 DEF Next
  <1>3. Contract => ContractHonoured
    BY DEF Contract
  <1>4. QED BY Inductive, <1>1, <1>2, <1>3, PTL DEF Spec
=============================================================================
