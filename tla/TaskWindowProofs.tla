-------------------------- MODULE TaskWindowProofs --------------------------
(***************************************************************************)
(* Proofs about TaskWindow, for every set of scenarios, whatever the       *)
(* journal tells, whichever requests fail and whatever the user does       *)
(* meanwhile.  IInv is about the panels' data, the ownership badges and    *)
(* the discards of the resume prompt; SoundInv about what the store has    *)
(* heard of the journal and the model lists' freshness, and needs IInv;    *)
(* ReadInv says that the store is a replay, and needs both.                *)
(*                                                                         *)
(* A turn of the window is a composition of handlers and listeners, so     *)
(* most lemmas are about one of them and any window it may be given.       *)
(***************************************************************************)
EXTENDS TaskWindow, SequenceLemmas, WellFoundedInduction

-----------------------------------------------------------------------------
(***************************************************************************)
(* The inductive invariant.                                                *)
(***************************************************************************)
IsSeq(s) == s \in Seq({s[i] : i \in DOMAIN s})

IsRequest(q) == {"from", "method", "about", "kept", "answer"} \subseteq DOMAIN q

Fields == {"store", "conn", "pinned", "caps", "alive", "sent", "panels",
           "badges", "lists", "prompted", "dialogs"}

\* The fields the handlers read are there.
Formed(w) ==
    /\ Fields \subseteq DOMAIN w
    /\ {"open", "data", "fetching", "next", "missed", "cold", "failed"}
           \subseteq DOMAIN w.panels
    /\ {"taskId", "report", "ownership"} \subseteq DOMAIN w.panels.next
    /\ {"lastTaskId", "byPath", "overtaken", "failed"} \subseteq DOMAIN w.badges
    /\ IsSeq(w.sent) /\ \A i \in DOMAIN w.sent : IsRequest(w.sent[i])
    /\ IsSeq(w.dialogs)
    /\ \A i \in DOMAIN w.dialogs : {"task", "stage"} \subseteq DOMAIN w.dialogs[i]

Granted(q) == q.answer # Null /\ q.answer.ok
From(w, who) == {i \in DOMAIN w.sent : w.sent[i].from = who}
AllOf(f, t) == \A path \in DOMAIN f : f[path] = t

\* A discard's requests are about the task of its dialog.  Once its cancel was
\* granted, and so whenever its resume is under way, the driver of the task has
\* found the flag or will; once the resume was granted too, it has.
Drivers == {"none", "flagged", "running", "ended", "cancelled"}
Flagged(d, t) == t \in DOMAIN d /\ d[t] \in {"flagged", "ended", "cancelled"}
Ended(d, t)   == t \in DOMAIN d /\ d[t] \in {"ended", "cancelled"}

DiscardSent(w, q, d) ==
    /\ q.kept \in DOMAIN w.dialogs /\ w.dialogs[q.kept].task = q.about
    /\ q.method \in {"task/cancel", "task/resume"}
    /\ q.method = "task/resume" \/ Granted(q) => Flagged(d, q.about)
    /\ q.method = "task/resume" /\ Granted(q) => Ended(d, q.about)

Discards(w, d) ==
    /\ \A i \in DOMAIN w.sent :
           w.sent[i].from = "discard" => DiscardSent(w, w.sent[i], d)
    /\ \A i \in DOMAIN w.dialogs :
           w.dialogs[i].stage = "discarded" => Ended(d, w.dialogs[i].task)

\* An answer has the owners of the task it was asked for, and the last request
\* under way is for the task the badges now stand for.
BadgesSent(w) ==
    LET b == w.badges
        mine == From(w, "badges")
    IN  \A i \in mine :
            /\ w.sent[i].method = "ledger/changes"
            /\ Granted(w.sent[i]) =>
                   AllOf(w.sent[i].answer.result, w.sent[i].about)
            /\ \/ \E j \in mine : j > i
               \/ w.sent[i].about = b.lastTaskId
               \/ b.overtaken

Badged(w) ==
    LET b == w.badges
    IN  /\ BadgesSent(w)
        /\ From(w, "badges") = {} =>
               b.failed \/ b.overtaken \/ AllOf(b.byPath, b.lastTaskId)

\* At most one request of the panels is under way, about the task whose data is
\* being put together; the ledger is asked for behind the report.
PanelSent(w, q) ==
    LET next == w.panels.next
    IN  /\ q.about = next.taskId
        /\ q.method \in {"task/report", "ledger/changes"}
        /\ q.answer # Null =>
               IF ~q.answer.ok THEN q.answer.result = Null
               ELSE IF q.method = "task/report" THEN q.answer.result = q.about
               ELSE AllOf(q.answer.result, q.about)
        /\ q.method = "ledger/changes" =>
               next.report = q.about \/ w.panels.failed

OwnData(data) == /\ data.report \in {Null, data.taskId}
                 /\ AllOf(data.ownership, data.taskId)

Fetched(w) ==
    LET p == w.panels
        mine == From(w, "panels")
    IN  /\ OwnData(p.data) /\ OwnData(p.next)
        /\ ~p.fetching => mine = {}
        /\ \A i, j \in mine : i = j
        /\ \A i \in mine : PanelSent(w, w.sent[i])
        /\ ~p.fetching => \/ p.data.taskId \in {Null, p.data.report}
                          \/ p.cold \/ p.failed

\* What an open panel shows, or will, is the focused task's.
InFocus(w) ==
    LET p == w.panels
        coming == IF p.fetching THEN p.next ELSE p.data
    IN  p.open => coming.taskId = Focus(w) \/ p.missed

\* A change of store or focus leaves a loose window, its listeners a tight one.
Loose(w, d) == Formed(w) /\ Discards(w, d) /\ Badged(w) /\ Fetched(w)
Tight(w, d) == Loose(w, d) /\ InFocus(w)

CoreFormed(c) ==
    /\ {"pos", "born", "weights", "active", "driver", "revived"} \subseteq DOMAIN c
    /\ c.driver \in [DOMAIN c.driver -> Drivers]
    /\ c.revived = {}

IInv == CoreFormed(core) /\ Tight(win, core.driver)

\* A store that has heard the journal up to its cursor: nothing it keeps of a
\* task, an install or a server is from beyond it, and its tasks are Core's.
Touched(f, n) == \A k \in DOMAIN f : "lastSeq" \in DOMAIN f[k]
                                     /\ f[k].lastSeq \in 0 .. n

StoreFields == DOMAIN emptyStore

Heard(st, J, T) ==
    /\ StoreFields \subseteq DOMAIN st
    /\ st.lastSeq \in 0 .. J
    /\ Touched(st.tasks, st.lastSeq)
    /\ Touched(st.modelInstalls, st.lastSeq)
    /\ Touched(st.modelServers, st.lastSeq)
    /\ DOMAIN st.tasks \subseteq T \ {Null}

\* A reader's requests, and what the lists they are answered with can be.
AskedFor(w, r, method) == {i \in From(w, r) : w.sent[i].method = method}

IsLast(i, S) == i \in S /\ \A j \in S : j <= i

ListFields == {"wired", "models", "at", "recommend", "seen", "skipped", "failed"}

ListTyped(w, r, J) ==
    /\ ListFields \subseteq DOMAIN w.lists[r]
    /\ w.lists[r].at \in 0 .. J /\ w.lists[r].seen \in 0 .. J
    /\ \A i \in From(w, r) :
           /\ w.sent[i].method \in {"model/list", IF r = "marker" THEN "doctor/run"
                                                  ELSE "model/recommend"}
           /\ w.sent[i].method = "model/list" /\ Granted(w.sent[i]) =>
                  w.sent[i].answer.result.at \in 0 .. J
           /\ w.sent[i].method = "doctor/run" /\ w.sent[i].kept.ok =>
                  w.sent[i].kept.result.at \in 0 .. J

\* A list this old is not behind the last event the reader took note of.
Current(l, r, at) == at >= l.seen \/ (r # "marker" /\ l.skipped)

\* The last list a reader asked for settles what it will hold: it is on its way,
\* or the doctor's word is waited for before it is shown, or it is there.
ListFresh(w, r) ==
    LET l == w.lists[r]
        lists == AskedFor(w, r, "model/list")
        docs == AskedFor(w, r, "doctor/run")
    IN  /\ \A i \in lists : IsLast(i, lists) /\ Granted(w.sent[i]) =>
               Current(l, r, w.sent[i].answer.result.at)
        /\ lists = {} /\ ~l.failed =>
               /\ docs = {} => Current(l, r, l.at)
               /\ \A i \in docs : IsLast(i, docs) =>
                      w.sent[i].kept.ok /\ Current(l, r, w.sent[i].kept.result.at)

Connections == {"starting", "connecting", "ready", "degraded", "failed"}

\* The window in scenario s, apart from its lists.
Shell(w, J, s) ==
    LET T == DOMAIN s.scripts
    IN  /\ Heard(w.store, J, T)
        /\ w.conn \in Connections /\ w.pinned \in T \cup {Null}
        /\ w.caps \subseteq s.caps
        /\ \A i \in DOMAIN w.dialogs :
               w.dialogs[i].stage \in Stages /\ w.dialogs[i].task \in T
        /\ \A i \in From(w, "create") : w.sent[i].about \in T

\* All but one reader's list.
Apart(w, J, s, r) ==
    /\ Shell(w, J, s)
    /\ Readers \subseteq DOMAIN w.lists
    /\ \A x \in Readers \ {r} : ListTyped(w, x, J) /\ ListFresh(w, x)

Sound(w, J, s) ==
    /\ Shell(w, J, s)
    /\ Readers \subseteq DOMAIN w.lists
    /\ \A r \in Readers : ListTyped(w, r, J) /\ ListFresh(w, r)

\* What Core has told, and will.
Told ==
    /\ scn \in Scenarios
    /\ IsSeq(journal)
    /\ \A i \in DOMAIN journal :
           /\ journal[i].seq = i
           /\ journal[i].taskId \in DOMAIN scn.scripts \cup {Null}
    /\ core.pos \in [DOMAIN scn.scripts -> Nat]
    /\ core.weights \subseteq CatalogIds

SoundInv == Told /\ Sound(win, Len(journal), scn)

-----------------------------------------------------------------------------
\* A set of naturals has a least member.
LEMMA Least ==
    ASSUME NEW T, T \subseteq Nat, T # {}
    PROVE  \E n \in T : \A m \in T : n <= m
  <1>1. \E n \in T : \A m \in T : ~(<<m, n>> \in OpToRel(<, Nat))
    BY WFMin, NatLessThanWellFounded
  <1>2. PICK n \in T : \A m \in T : ~(<<m, n>> \in OpToRel(<, Nat))
    BY <1>1
  <1>3. \A m \in Nat : m < n => <<m, n>> \in OpToRel(<, Nat)
    BY <1>2, Zenon DEF OpToRel
  <1>4. \A m \in T : ~(m < n)
    BY <1>2, <1>3, Zenon
  <1>5. QED BY <1>4

\* The places of a sequence are numbered.
LEMMA SeqPlaces ==
    ASSUME NEW s, IsSeq(s)
    PROVE  Len(s) \in Nat /\ DOMAIN s = 1..Len(s)
  BY DEF IsSeq

\* A message sent is behind the others.
LEMMA Appended ==
    ASSUME NEW s, IsSeq(s), NEW e
    PROVE  /\ IsSeq(Append(s, e))
           /\ DOMAIN s = 1..Len(s) /\ Len(s) \in Nat
           /\ DOMAIN Append(s, e) = 1..Len(s) + 1
           /\ \A i \in DOMAIN s : Append(s, e)[i] = s[i]
           /\ Append(s, e)[Len(s) + 1] = e
  <1> DEFINE S == {s[i] : i \in DOMAIN s} \cup {e}
             t == Append(s, e)
             T == {t[i] : i \in DOMAIN t}
  <1>1. s \in Seq(S) /\ e \in S
    BY DEF IsSeq
  <1>2. /\ t \in Seq(S) /\ Len(s) \in Nat /\ Len(t) = Len(s) + 1
        /\ \A i \in 1..Len(s) : t[i] = s[i]
        /\ t[Len(s) + 1] = e
    <2> HIDE DEF S
    <2>1. QED BY <1>1, AppendFacts
  <1>3. DOMAIN t = 1..Len(s) + 1 /\ DOMAIN s = 1..Len(s)
    BY <1>1, <1>2
  <1>4. t \in Seq(T)
    <2> HIDE DEF t
    <2>1. t \in [1..Len(t) -> T] BY <1>2, <1>3
    <2>2. QED BY <2>1, <1>2
  <1>5. QED BY <1>2, <1>3, <1>4 DEF IsSeq

\* Without its first message the others are one place further on.
LEMMA Removed ==
    ASSUME NEW s, IsSeq(s), 1 \in DOMAIN s
    PROVE  /\ IsSeq(RemoveAt(s, 1))
           /\ DOMAIN s = 1..Len(s) /\ Len(s) \in Nat \ {0}
           /\ DOMAIN RemoveAt(s, 1) = 1..Len(s) - 1
           /\ \A i \in 1..Len(s) - 1 : RemoveAt(s, 1)[i] = s[i + 1]
  <1> DEFINE S == {s[i] : i \in DOMAIN s}
             t == RemoveAt(s, 1)
             T == {t[i] : i \in DOMAIN t}
  <1>1. s \in Seq(S) /\ Len(s) \in Nat \ {0} /\ DOMAIN s = 1..Len(s)
    BY DEF IsSeq
  <1>2. t = SubSeq(s, 1, 0) \o SubSeq(s, 2, Len(s))
    BY DEF RemoveAt
  <1>3. /\ t \in Seq(S) /\ Len(t) = Len(s) - 1
        /\ \A i \in 1..Len(s) - 1 : t[i] = s[i + 1]
    <2> HIDE DEF S, t
    <2>1. SubSeq(s, 1, 0) \in Seq(S) /\ Len(SubSeq(s, 1, 0)) = 0
      BY <1>1
    <2>2. /\ SubSeq(s, 2, Len(s)) \in Seq(S)
          /\ Len(SubSeq(s, 2, Len(s))) = Len(s) - 1
          /\ \A i \in 1..Len(s) - 1 : SubSeq(s, 2, Len(s))[i] = s[i + 1]
      BY <1>1
    <2>3. QED BY <2>1, <2>2, <1>1, <1>2, ConcatFacts
  <1>4. DOMAIN t = 1..Len(s) - 1
    BY <1>3
  <1>5. t \in Seq(T)
    <2> HIDE DEF t
    <2>1. Len(t) \in Nat BY <1>3
    <2>2. t \in [1..Len(t) -> T] BY <1>1, <1>3, <1>4
    <2>3. QED BY <2>1, <2>2
  <1>6. QED BY <1>1, <1>3, <1>4, <1>5 DEF IsSeq

\* What is a function on the places of a sequence is one.
LEMMA Mapped ==
    ASSUME NEW s, IsSeq(s), NEW t, t = [i \in DOMAIN s |-> t[i]]
    PROVE  IsSeq(t) /\ DOMAIN t = DOMAIN s
  <1>1. DOMAIN s = 1..Len(s) /\ Len(s) \in Nat
    BY SeqPlaces
  <1>2. DOMAIN t = DOMAIN s OBVIOUS
  <1>3. t \in [1..Len(s) -> {t[i] : i \in DOMAIN t}]
    BY <1>1, <1>2
  <1>4. QED BY <1>1, <1>2, <1>3 DEF IsSeq

-----------------------------------------------------------------------------
(***************************************************************************)
(* What a handler leaves alone stays as it was.                            *)
(***************************************************************************)
\* Nothing is sent, or one request of who's.
Sends(w, v, who) ==
    \/ v.sent = w.sent
    \/ \E r : /\ IsRequest(r) /\ r.from = who /\ r.answer = Null
              /\ v.sent = Append(w.sent, r)

\* The requests under way stay, and only who's are new.
LEMMA SentFacts ==
    ASSUME NEW w, NEW v, NEW who, Formed(w), Sends(w, v, who)
    PROVE  /\ IsSeq(v.sent) /\ \A i \in DOMAIN v.sent : IsRequest(v.sent[i])
           /\ DOMAIN w.sent \subseteq DOMAIN v.sent
           /\ \A i \in DOMAIN w.sent : v.sent[i] = w.sent[i]
           /\ \A i \in DOMAIN v.sent \ DOMAIN w.sent :
                  v.sent[i].from = who /\ v.sent[i].answer = Null
  <1>1. CASE v.sent = w.sent
    BY <1>1 DEF Formed
  <1>2. ASSUME NEW r, IsRequest(r), r.from = who, r.answer = Null,
               v.sent = Append(w.sent, r)
        PROVE  /\ IsSeq(v.sent) /\ \A i \in DOMAIN v.sent : IsRequest(v.sent[i])
               /\ DOMAIN w.sent \subseteq DOMAIN v.sent
               /\ \A i \in DOMAIN w.sent : v.sent[i] = w.sent[i]
               /\ \A i \in DOMAIN v.sent \ DOMAIN w.sent :
                      v.sent[i].from = who /\ v.sent[i].answer = Null
    <2>1. IsSeq(w.sent) /\ \A i \in DOMAIN w.sent : IsRequest(w.sent[i])
      BY DEF Formed
    <2>2. /\ IsSeq(v.sent)
          /\ DOMAIN w.sent = 1..Len(w.sent) /\ Len(w.sent) \in Nat
          /\ DOMAIN v.sent = 1..Len(w.sent) + 1
          /\ \A i \in DOMAIN w.sent : v.sent[i] = w.sent[i]
          /\ v.sent[Len(w.sent) + 1] = r
      BY <2>1, <1>2, Appended
    <2>3. \A i \in DOMAIN v.sent : i \in DOMAIN w.sent \/ i = Len(w.sent) + 1
      BY <2>2
    <2>4. QED BY <1>2, <2>1, <2>2, <2>3
  <1>3. QED BY <1>1, <1>2 DEF Sends

\* Only a discard's requests and answers concern the discards.
LEMMA DiscardsKept ==
    ASSUME NEW w, NEW v, NEW who, NEW d, Formed(w), Discards(w, d),
           Sends(w, v, who), who # "discard", v.dialogs = w.dialogs
    PROVE  Discards(v, d)
  <1>1. /\ \A i \in DOMAIN w.sent : v.sent[i] = w.sent[i]
        /\ \A i \in DOMAIN v.sent \ DOMAIN w.sent : v.sent[i].from = who
    BY SentFacts
  <1>2. \A i \in DOMAIN v.sent : v.sent[i].from = "discard" =>
            i \in DOMAIN w.sent /\ v.sent[i] = w.sent[i]
    BY <1>1
  <1>3. QED BY <1>2 DEF Discards, DiscardSent

\* Only the badges' requests and answers concern the badges.
LEMMA BadgedKept ==
    ASSUME NEW w, NEW v, NEW who, Formed(w), Badged(w),
           Sends(w, v, who), who # "badges", v.badges = w.badges
    PROVE  Badged(v)
  <1>1. /\ DOMAIN w.sent \subseteq DOMAIN v.sent
        /\ \A i \in DOMAIN w.sent : v.sent[i] = w.sent[i]
        /\ \A i \in DOMAIN v.sent \ DOMAIN w.sent : v.sent[i].from = who
    BY SentFacts
  <1>2. From(v, "badges") = From(w, "badges")
    BY <1>1 DEF From
  <1>3. \A i \in From(w, "badges") : v.sent[i] = w.sent[i]
    BY <1>1 DEF From
  <1>4. QED BY <1>2, <1>3 DEF Badged, BadgesSent

\* Only the panels' requests and answers concern the panels.
LEMMA FetchedKept ==
    ASSUME NEW w, NEW v, NEW who, Formed(w), Fetched(w),
           Sends(w, v, who), who # "panels", v.panels = w.panels
    PROVE  Fetched(v)
  <1>1. /\ DOMAIN w.sent \subseteq DOMAIN v.sent
        /\ \A i \in DOMAIN w.sent : v.sent[i] = w.sent[i]
        /\ \A i \in DOMAIN v.sent \ DOMAIN w.sent : v.sent[i].from = who
    BY SentFacts
  <1>2. From(v, "panels") = From(w, "panels")
    BY <1>1 DEF From
  <1>3. \A i \in From(w, "panels") : v.sent[i] = w.sent[i]
    BY <1>1 DEF From
  <1>4. QED BY <1>2, <1>3 DEF Fetched, PanelSent

\* What touches neither panels, badges nor dialogs leaves a window as good as it
\* was.
LEMMA LooseKept ==
    ASSUME NEW w, NEW v, NEW who, NEW d, Loose(w, d), Fields \subseteq DOMAIN v,
           Sends(w, v, who), who \notin {"discard", "badges", "panels"},
           v.dialogs = w.dialogs, v.badges = w.badges, v.panels = w.panels
    PROVE  Loose(v, d)
  <1>1. Formed(w) /\ Discards(w, d) /\ Badged(w) /\ Fetched(w)
    BY DEF Loose
  <1>2. IsSeq(v.sent) /\ \A i \in DOMAIN v.sent : IsRequest(v.sent[i])
    BY <1>1, SentFacts
  <1>3. Formed(v)
    BY <1>1, <1>2 DEF Formed
  <1>4. QED BY <1>1, <1>3, DiscardsKept, BadgedKept, FetchedKept DEF Loose

\* What touches neither panels, store nor pin leaves the focus shown.
LEMMA FocusKept ==
    ASSUME NEW w, NEW v, InFocus(w),
           v.panels = w.panels, v.store = w.store, v.pinned = w.pinned
    PROVE  InFocus(v)
  BY DEF InFocus, Focus

\* A request is sent and nothing else.
LEMMA SendFacts ==
    ASSUME NEW w, Formed(w), NEW from, NEW method, NEW about, NEW kept
    PROVE  LET v == Send(w, from, method, about, kept)
           IN  /\ Fields \subseteq DOMAIN v
               /\ \A f \in Fields \ {"sent"} : v[f] = w[f]
               /\ v.sent = Append(w.sent, [from |-> from, method |-> method,
                                           about |-> about, kept |-> kept,
                                           answer |-> Null])
               /\ Sends(w, v, from)
  <1> DEFINE v == Send(w, from, method, about, kept)
             r == [from |-> from, method |-> method, about |-> about,
                   kept |-> kept, answer |-> Null]
  <1>1. /\ Fields \subseteq DOMAIN v
        /\ \A f \in Fields \ {"sent"} : v[f] = w[f]
        /\ v.sent = Append(w.sent, r)
    BY DEF Formed, Fields, Send
  <1>2. IsRequest(r) /\ r.from = from /\ r.answer = Null
    BY DEF IsRequest
  <1>3. Sends(w, v, from)
    <2> HIDE DEF v, r
    <2>1. QED BY <1>1, <1>2 DEF Sends
  <1>4. QED BY <1>1, <1>3

-----------------------------------------------------------------------------
(***************************************************************************)
(* The listeners.                                                          *)
(***************************************************************************)
\* Nothing was asked for a task, so nothing is known of it.
LEMMA NothingKnown ==
    ASSUME NEW t
    PROVE  /\ {"taskId", "report", "ownership"} \subseteq DOMAIN NoData(t)
           /\ OwnData(NoData(t)) /\ NoData(t).taskId = t
  BY DEF NoData, OwnData, AllOf

\* maybeRefreshData: whatever changed, the panels show or will show the focused
\* task, or know that they missed it.
LEMMA PanelsRefreshed ==
    ASSUME NEW w, NEW d, Loose(w, d), NEW force \in BOOLEAN
    PROVE  Tight(RefreshPanels(w, force), d)
  <1> DEFINE t == Focus(w)
             p == w.panels
             ready == w.conn = "ready" /\ t # Null
             dropped == [w EXCEPT !.panels.data = NoData(t), !.panels.cold = TRUE,
                                  !.panels.missed = FALSE, !.panels.failed = FALSE]
             missing == [w EXCEPT !.panels.missed = @ \/ t # p.next.taskId]
             asking == [w EXCEPT !.panels.fetching = TRUE, !.panels.next = NoData(t),
                                 !.panels.cold = FALSE, !.panels.missed = FALSE,
                                 !.panels.failed = FALSE]
             asked == Send(asking, "panels", "task/report", t, Null)
  <1>0. Formed(w) /\ Discards(w, d) /\ Badged(w) /\ Fetched(w)
    BY DEF Loose
  <1>1. CASE ~p.open
    BY <1>1 DEF RefreshPanels, Tight, InFocus
  <1>2. CASE p.open /\ p.fetching
    <2>1. RefreshPanels(w, force) = missing
      BY <1>2 DEF RefreshPanels
    <2>2. /\ Fields \subseteq DOMAIN missing
          /\ \A f \in Fields \ {"panels"} : missing[f] = w[f]
          /\ DOMAIN missing.panels = DOMAIN p
          /\ \A f \in DOMAIN p \ {"missed"} : missing.panels[f] = p[f]
          /\ missing.panels.missed = (p.missed \/ t # p.next.taskId)
      BY <1>0 DEF Formed, Fields
    <2> HIDE DEF missing
    <2>3. Sends(w, missing, "none") /\ missing.dialogs = w.dialogs
          /\ missing.badges = w.badges /\ missing.sent = w.sent
          /\ missing.store = w.store /\ missing.pinned = w.pinned
      BY <2>2 DEF Sends, Fields
    <2>4. Discards(missing, d) /\ Badged(missing)
      BY <1>0, <2>3, DiscardsKept, BadgedKept
    <2>5. /\ missing.panels.next = p.next /\ missing.panels.data = p.data
          /\ missing.panels.fetching = p.fetching /\ missing.panels.open = p.open
          /\ missing.panels.failed = p.failed /\ missing.panels.cold = p.cold
      BY <1>0, <2>2 DEF Formed
    <2>6. Formed(missing)
      BY <1>0, <2>2, <2>3, <2>5 DEF Formed
    <2>7. Fetched(missing)
      BY <1>0, <2>3, <2>5 DEF Fetched, PanelSent, From
    <2>8. InFocus(missing)
      <3>1. Focus(missing) = t
        BY <2>3 DEF Focus
      <3>2. missing.panels.missed \/ p.next.taskId = t
        BY <2>2
      <3>3. QED BY <1>2, <2>5, <3>1, <3>2 DEF InFocus
    <2>9. QED BY <2>1, <2>4, <2>6, <2>7, <2>8 DEF Tight, Loose
  <1>3. CASE p.open /\ ~p.fetching /\ ~force /\ t = p.data.taskId
    <2>1. RefreshPanels(w, force) = w
      BY <1>3 DEF RefreshPanels
    <2>2. QED BY <1>3, <2>1 DEF Tight, InFocus
  <1>4. CASE p.open /\ ~p.fetching /\ ~(~force /\ t = p.data.taskId) /\ ~ready
    <2>1. RefreshPanels(w, force) = dropped
      BY <1>4 DEF RefreshPanels
    <2>2. /\ Fields \subseteq DOMAIN dropped
          /\ \A f \in Fields \ {"panels"} : dropped[f] = w[f]
          /\ DOMAIN dropped.panels = DOMAIN p
          /\ dropped.panels.open = p.open /\ dropped.panels.next = p.next
          /\ dropped.panels.fetching = p.fetching
          /\ dropped.panels.data = NoData(t) /\ dropped.panels.cold
      BY <1>0 DEF Formed, Fields
    <2> HIDE DEF dropped
    <2>3. Sends(w, dropped, "none") /\ dropped.dialogs = w.dialogs
          /\ dropped.badges = w.badges /\ dropped.sent = w.sent
          /\ dropped.store = w.store /\ dropped.pinned = w.pinned
      BY <2>2 DEF Sends, Fields
    <2>4. Discards(dropped, d) /\ Badged(dropped)
      BY <1>0, <2>3, DiscardsKept, BadgedKept
    <2>5. Formed(dropped)
      BY <1>0, <2>2, <2>3 DEF Formed
    <2>6. From(w, "panels") = {} /\ From(dropped, "panels") = {}
      BY <1>0, <1>4, <2>3 DEF Fetched, From
    <2>7. OwnData(dropped.panels.data) /\ OwnData(dropped.panels.next)
      BY <1>0, <2>2, NothingKnown DEF Fetched
    <2>8. Fetched(dropped)
      BY <2>2, <2>6, <2>7 DEF Fetched
    <2>9. InFocus(dropped)
      <3>1. Focus(dropped) = t
        BY <2>3 DEF Focus
      <3>2. QED BY <1>4, <2>2, <3>1, NothingKnown DEF InFocus
    <2>10. QED BY <2>1, <2>4, <2>5, <2>8, <2>9 DEF Tight, Loose
  <1>5. CASE p.open /\ ~p.fetching /\ ~(~force /\ t = p.data.taskId) /\ ready
    <2>1. RefreshPanels(w, force) = asked
      BY <1>5 DEF RefreshPanels
    <2>2. /\ Fields \subseteq DOMAIN asking
          /\ \A f \in Fields \ {"panels"} : asking[f] = w[f]
          /\ DOMAIN asking.panels = DOMAIN p
          /\ asking.panels.open = p.open /\ asking.panels.data = p.data
          /\ asking.panels.next = NoData(t) /\ asking.panels.fetching
      BY <1>0 DEF Formed, Fields
    <2> HIDE DEF asking
    <2>3. asking.dialogs = w.dialogs /\ asking.badges = w.badges
          /\ asking.sent = w.sent
          /\ asking.store = w.store /\ asking.pinned = w.pinned
      BY <2>2 DEF Fields
    <2>4. Formed(asking)
      BY <1>0, <2>2, <2>3, NothingKnown DEF Formed
    <2>5. /\ Fields \subseteq DOMAIN asked
          /\ \A f \in Fields \ {"sent"} : asked[f] = asking[f]
          /\ asked.sent = Append(w.sent, [from |-> "panels",
                 method |-> "task/report", about |-> t, kept |-> Null,
                 answer |-> Null])
          /\ Sends(asking, asked, "panels")
      BY <2>3, <2>4, SendFacts
    <2> HIDE DEF asked
    <2>6. asked.dialogs = w.dialogs /\ asked.badges = w.badges
          /\ asked.panels = asking.panels
          /\ asked.store = w.store /\ asked.pinned = w.pinned
      BY <2>3, <2>5 DEF Fields
    <2>7. Sends(w, asked, "panels")
      BY <2>3, <2>5 DEF Sends
    <2>8. Discards(asked, d) /\ Badged(asked)
      BY <1>0, <2>6, <2>7, DiscardsKept, BadgedKept
    <2>9. Formed(asked)
      <3>1. IsSeq(asked.sent) /\ \A i \in DOMAIN asked.sent : IsRequest(asked.sent[i])
        BY <1>0, <2>7, SentFacts
      <3>2. QED BY <2>4, <2>5, <2>6, <3>1, <1>0 DEF Formed
    <2>10. From(w, "panels") = {}
      BY <1>0, <1>5 DEF Fetched
    <2>11. From(asked, "panels") = {Len(w.sent) + 1}
           /\ asked.sent[Len(w.sent) + 1].about = t
           /\ asked.sent[Len(w.sent) + 1].method = "task/report"
           /\ asked.sent[Len(w.sent) + 1].answer = Null
      <3>1. /\ DOMAIN w.sent = 1..Len(w.sent) /\ Len(w.sent) \in Nat
            /\ DOMAIN asked.sent = 1..Len(w.sent) + 1
            /\ \A i \in DOMAIN w.sent : asked.sent[i] = w.sent[i]
            /\ asked.sent[Len(w.sent) + 1] = [from |-> "panels",
                 method |-> "task/report", about |-> t, kept |-> Null,
                 answer |-> Null]
        BY <1>0, <2>5, Appended DEF Formed
      <3> HIDE DEF t
      <3>2. \A i \in DOMAIN w.sent : w.sent[i].from # "panels"
        BY <2>10 DEF From
      <3>3. QED BY <3>1, <3>2 DEF From
    <2>12. PanelSent(asked, asked.sent[Len(w.sent) + 1])
      BY <2>2, <2>6, <2>11, NothingKnown DEF PanelSent, Granted
    <2>13. OwnData(asked.panels.data) /\ OwnData(asked.panels.next)
      BY <1>0, <2>2, <2>6, NothingKnown DEF Fetched
    <2>14. Fetched(asked)
      BY <2>2, <2>6, <2>11, <2>12, <2>13 DEF Fetched
    <2>15. InFocus(asked)
      <3>1. Focus(asked) = t
        BY <2>6 DEF Focus
      <3>2. QED BY <2>2, <2>6, <3>1, NothingKnown DEF InFocus
    <2>16. QED BY <2>1, <2>8, <2>9, <2>14, <2>15 DEF Tight, Loose
  <1>6. QED BY <1>1, <1>2, <1>3, <1>4, <1>5

\* A request of the model views, the marker, the session, the resume prompt, the
\* Models view's removal or the composer changes none of these.
Others == Readers \cup {"session", "prompt", "removal", "create"}

LEMMA SendKept ==
    ASSUME NEW w, NEW d, Tight(w, d), NEW from \in Others, NEW method, NEW about,
           NEW kept
    PROVE  Tight(Send(w, from, method, about, kept), d)
  <1> DEFINE sending == Send(w, from, method, about, kept)
  <1>1. Formed(w) BY DEF Tight, Loose
  <1>2. Fields \subseteq DOMAIN sending /\ Sends(w, sending, from)
    BY <1>1, SendFacts
  <1>3. /\ sending.dialogs = w.dialogs /\ sending.badges = w.badges
        /\ sending.panels = w.panels
        /\ sending.store = w.store /\ sending.pinned = w.pinned
    BY <1>1 DEF Formed, Fields, Send
  <1> HIDE DEF sending
  <1>4. from \notin {"discard", "badges", "panels"}
    BY DEF Others, Readers
  <1>5. Loose(sending, d)
    BY <1>2, <1>3, <1>4, LooseKept DEF Tight
  <1>6. QED BY <1>3, <1>5, FocusKept DEF Tight, sending

\* Nor does what only touches the other fields.
LEMMA AsideKept ==
    ASSUME NEW w, NEW d, Loose(w, d), NEW v, Fields \subseteq DOMAIN v,
           v.sent = w.sent, v.dialogs = w.dialogs, v.badges = w.badges,
           v.panels = w.panels
    PROVE  /\ Loose(v, d)
           /\ Tight(w, d) /\ v.store = w.store /\ v.pinned = w.pinned =>
                  Tight(v, d)
  <1>1. Sends(w, v, "none") BY DEF Sends
  <1>2. Loose(v, d) BY <1>1, LooseKept
  <1>3. QED BY <1>2, FocusKept DEF Tight

\* maybeRefresh of the badges: they are asked for anew, or cleared.
LEMMA BadgesRefreshed ==
    ASSUME NEW w, NEW d, Tight(w, d)
    PROVE  Tight(RefreshBadges(w), d)
  <1> DEFINE t == Focus(w)
             b == w.badges
             askable == ~(t = Null \/ "ledger" \notin w.caps \/ w.conn # "ready")
             cleared == [w EXCEPT !.badges.lastTaskId = t, !.badges.byPath = <<>>,
                             !.badges.overtaken = @ \/ Waiting(w, "badges")]
             asking == [w EXCEPT !.badges.lastTaskId = t,
                                 !.badges.overtaken = FALSE,
                                 !.badges.failed = FALSE]
             asked == Send(asking, "badges", "ledger/changes", t, Null)
  <1>0. Formed(w) /\ Discards(w, d) /\ Badged(w) /\ Fetched(w) /\ InFocus(w)
    BY DEF Loose, Tight
  <1>1. CASE ~Uses("badges") \/ t = b.lastTaskId
    BY <1>1 DEF RefreshBadges
  <1>2. CASE ~(~Uses("badges") \/ t = b.lastTaskId) /\ ~askable
    <2>1. RefreshBadges(w) = cleared
      BY <1>2 DEF RefreshBadges
    <2>2. /\ Fields \subseteq DOMAIN cleared
          /\ \A f \in Fields \ {"badges"} : cleared[f] = w[f]
          /\ DOMAIN cleared.badges = DOMAIN b
          /\ cleared.badges.lastTaskId = t /\ cleared.badges.byPath = <<>>
          /\ cleared.badges.overtaken = (b.overtaken \/ Waiting(w, "badges"))
      BY <1>0 DEF Formed, Fields
    <2> HIDE DEF cleared
    <2>3. Sends(w, cleared, "none") /\ cleared.dialogs = w.dialogs
          /\ cleared.panels = w.panels /\ cleared.sent = w.sent
          /\ cleared.store = w.store /\ cleared.pinned = w.pinned
      BY <2>2 DEF Sends, Fields
    <2>4. Discards(cleared, d) /\ Fetched(cleared) /\ InFocus(cleared)
      BY <1>0, <2>3, DiscardsKept, FetchedKept, FocusKept
    <2>5. Formed(cleared)
      BY <1>0, <2>2, <2>3 DEF Formed
    <2>6. Badged(cleared)
      <3>1. From(cleared, "badges") = From(w, "badges")
        BY <2>3 DEF From
      <3>2. From(w, "badges") # {} => cleared.badges.overtaken
        <4>1. From(w, "badges") # {} => Waiting(w, "badges")
          BY DEF From, Waiting
        <4>2. QED BY <4>1, <2>2
      <3>3. AllOf(<<>>, t)
        BY DEF AllOf
      <3>4. QED BY <1>0, <2>2, <2>3, <3>1, <3>2, <3>3 DEF Badged, BadgesSent
    <2>7. QED BY <2>1, <2>4, <2>5, <2>6 DEF Tight, Loose
  <1>3. CASE ~(~Uses("badges") \/ t = b.lastTaskId) /\ askable
    <2>1. RefreshBadges(w) = asked
      BY <1>3 DEF RefreshBadges
    <2>2. /\ Fields \subseteq DOMAIN asking
          /\ \A f \in Fields \ {"badges"} : asking[f] = w[f]
          /\ DOMAIN asking.badges = DOMAIN b
          /\ asking.badges.lastTaskId = t
      BY <1>0 DEF Formed, Fields
    <2> HIDE DEF asking
    <2>3. asking.dialogs = w.dialogs /\ asking.panels = w.panels
          /\ asking.sent = w.sent
          /\ asking.store = w.store /\ asking.pinned = w.pinned
      BY <2>2 DEF Fields
    <2>4. Formed(asking)
      BY <1>0, <2>2, <2>3 DEF Formed
    <2>5. /\ Fields \subseteq DOMAIN asked
          /\ \A f \in Fields \ {"sent"} : asked[f] = asking[f]
          /\ asked.sent = Append(w.sent, [from |-> "badges",
                 method |-> "ledger/changes", about |-> t, kept |-> Null,
                 answer |-> Null])
          /\ Sends(asking, asked, "badges")
      BY <2>3, <2>4, SendFacts
    <2> HIDE DEF asked
    <2>6. asked.dialogs = w.dialogs /\ asked.panels = w.panels
          /\ asked.badges = asking.badges
          /\ asked.store = w.store /\ asked.pinned = w.pinned
      BY <2>3, <2>5 DEF Fields
    <2>7. Sends(w, asked, "badges")
      BY <2>3, <2>5 DEF Sends
    <2>8. Discards(asked, d) /\ Fetched(asked) /\ InFocus(asked)
      BY <1>0, <2>6, <2>7, DiscardsKept, FetchedKept, FocusKept
    <2>9. Formed(asked)
      <3>1. IsSeq(asked.sent) /\ \A i \in DOMAIN asked.sent : IsRequest(asked.sent[i])
        BY <1>0, <2>7, SentFacts
      <3>2. QED BY <2>4, <2>5, <2>6, <3>1, <1>0 DEF Formed
    <2>10. /\ DOMAIN w.sent = 1..Len(w.sent) /\ Len(w.sent) \in Nat
           /\ DOMAIN asked.sent = 1..Len(w.sent) + 1
           /\ \A i \in DOMAIN w.sent : asked.sent[i] = w.sent[i]
           /\ asked.sent[Len(w.sent) + 1] = [from |-> "badges",
                 method |-> "ledger/changes", about |-> t, kept |-> Null,
                 answer |-> Null]
      BY <1>0, <2>5, Appended DEF Formed
    <2>11. Badged(asked)
      <3> DEFINE n == Len(w.sent) + 1
      <3>1. n \in From(asked, "badges") /\ \A i \in From(asked, "badges") :
                i = n \/ (i \in From(w, "badges") /\ n > i)
        <4> HIDE DEF t
        <4>1. QED BY <2>10 DEF From
      <3>2. /\ asked.sent[n].method = "ledger/changes" /\ asked.sent[n].about = t
            /\ ~Granted(asked.sent[n])
        <4> HIDE DEF t
        <4>1. QED BY <2>10 DEF Granted
      <3>3. \A i \in From(w, "badges") : asked.sent[i] = w.sent[i]
        BY <2>10 DEF From
      <3> HIDE DEF n
      <3>4. QED BY <1>0, <2>2, <2>6, <3>1, <3>2, <3>3 DEF Badged, BadgesSent
    <2>12. QED BY <2>1, <2>8, <2>9, <2>11 DEF Tight, Loose
  <1>4. QED BY <1>1, <1>2, <1>3

\* refresh of a model view or the marker.
LEMMA ListRefreshed ==
    ASSUME NEW w, NEW d, Tight(w, d), NEW r \in Readers
    PROVE  Tight(RefreshList(w, r), d)
  <1> DEFINE skipping == [w EXCEPT !.lists[r].skipped = TRUE]
             asking == [w EXCEPT !.lists[r].failed = FALSE,
                                 !.lists[r].skipped = FALSE]
  <1>1. Fields \subseteq DOMAIN w
    BY DEF Tight, Loose, Formed
  <1>2. Tight(skipping, d)
    <2>1. /\ Fields \subseteq DOMAIN skipping
          /\ \A f \in Fields \ {"lists"} : skipping[f] = w[f]
      BY <1>1 DEF Fields
    <2> HIDE DEF skipping
    <2>2. /\ skipping.sent = w.sent /\ skipping.dialogs = w.dialogs
          /\ skipping.badges = w.badges /\ skipping.panels = w.panels
          /\ skipping.store = w.store /\ skipping.pinned = w.pinned
      BY <2>1 DEF Fields
    <2>3. QED BY <2>1, <2>2, AsideKept DEF Tight
  <1>3. Tight(asking, d)
    <2>1. /\ Fields \subseteq DOMAIN asking
          /\ \A f \in Fields \ {"lists"} : asking[f] = w[f]
      BY <1>1 DEF Fields
    <2> HIDE DEF asking
    <2>2. /\ asking.sent = w.sent /\ asking.dialogs = w.dialogs
          /\ asking.badges = w.badges /\ asking.panels = w.panels
          /\ asking.store = w.store /\ asking.pinned = w.pinned
      BY <2>1 DEF Fields
    <2>3. QED BY <2>1, <2>2, AsideKept DEF Tight
  <1>4. Tight(Send(asking, r, "model/list", Null, Null), d)
    BY <1>3, SendKept DEF Others
  <1>5. QED BY <1>2, <1>4 DEF RefreshList

\* onStoreChange of a model view, and the marker's watcher.
LEMMA ListChanged ==
    ASSUME NEW w, NEW d, Tight(w, d), NEW r \in Readers
    PROVE  Tight(ListChange(w, r), d)
  <1> DEFINE noted(n) == [w EXCEPT !.lists[r].seen = n]
  <1>1. Fields \subseteq DOMAIN w
    BY DEF Tight, Loose, Formed
  <1>2. ASSUME NEW n PROVE Tight(noted(n), d)
    <2>1. /\ Fields \subseteq DOMAIN noted(n)
          /\ \A f \in Fields \ {"lists"} : noted(n)[f] = w[f]
      BY <1>1 DEF Fields
    <2> HIDE DEF noted
    <2>2. /\ noted(n).sent = w.sent /\ noted(n).dialogs = w.dialogs
          /\ noted(n).badges = w.badges /\ noted(n).panels = w.panels
          /\ noted(n).store = w.store /\ noted(n).pinned = w.pinned
      BY <2>1 DEF Fields
    <2>3. QED BY <2>1, <2>2, AsideKept DEF Tight
  <1>3. Tight(RefreshList(noted(LastTerminal(w.store, r)), r), d)
    BY <1>2, ListRefreshed
  <1>4. \/ ListChange(w, r) = w
        \/ ListChange(w, r) = RefreshList(noted(LastTerminal(w.store, r)), r)
    BY DEF ListChange
  <1>5. QED BY <1>3, <1>4

\* maybePromptResume: a new dialog is one nobody has answered.
LEMMA Prompted ==
    ASSUME NEW w, NEW d, Tight(w, d)
    PROVE  Tight(PromptResume(w), d)
  <1> DEFINE told == [w EXCEPT !.prompted = TRUE]
             r(t) == [task |-> t, stage |-> "ask"]
             asked(t) == [w EXCEPT !.prompted = TRUE,
                                   !.dialogs = Append(@, r(t))]
  <1>0. Formed(w) /\ Discards(w, d) /\ Badged(w) /\ Fetched(w) /\ InFocus(w)
    BY DEF Loose, Tight
  <1>1. ASSUME NEW t PROVE Tight(asked(t), d)
    <2>1. /\ Fields \subseteq DOMAIN asked(t)
          /\ \A f \in Fields \ {"prompted", "dialogs"} : asked(t)[f] = w[f]
          /\ asked(t).dialogs = Append(w.dialogs, r(t))
      BY <1>0 DEF Formed, Fields
    <2> DEFINE v == asked(t)
    <2> HIDE DEF asked
    <2>2. /\ v.sent = w.sent /\ v.badges = w.badges /\ v.panels = w.panels
          /\ v.store = w.store /\ v.pinned = w.pinned
      BY <2>1 DEF Fields
    <2>3. /\ IsSeq(v.dialogs)
          /\ DOMAIN w.dialogs = 1..Len(w.dialogs) /\ Len(w.dialogs) \in Nat
          /\ DOMAIN v.dialogs = 1..Len(w.dialogs) + 1
          /\ \A i \in DOMAIN w.dialogs : v.dialogs[i] = w.dialogs[i]
          /\ v.dialogs[Len(w.dialogs) + 1] = r(t)
      BY <1>0, <2>1, Appended DEF Formed
    <2>4. \A i \in DOMAIN v.dialogs :
              \/ i \in DOMAIN w.dialogs /\ v.dialogs[i] = w.dialogs[i]
              \/ v.dialogs[i] = r(t)
      BY <2>3
    <2>5. {"task", "stage"} \subseteq DOMAIN r(t) /\ r(t).stage = "ask"
      OBVIOUS
    <2>6. Formed(v)
      <3> HIDE DEF r, v
      <3>1. \A i \in DOMAIN v.dialogs : {"task", "stage"} \subseteq DOMAIN v.dialogs[i]
        BY <1>0, <2>4, <2>5 DEF Formed
      <3>2. Fields \subseteq DOMAIN v BY <2>1 DEF v
      <3>3. QED BY <1>0, <2>2, <2>3, <3>1, <3>2 DEF Formed
    <2>7. Discards(v, d)
      <3> HIDE DEF r, v
      <3>1. ASSUME NEW i \in DOMAIN v.sent, v.sent[i].from = "discard"
            PROVE  DiscardSent(v, v.sent[i], d)
        <4>1. DiscardSent(w, w.sent[i], d)
          BY <1>0, <2>2, <3>1 DEF Discards
        <4>2. \A k \in DOMAIN w.dialogs : k \in DOMAIN v.dialogs
                                           /\ v.dialogs[k] = w.dialogs[k]
          BY <2>3
        <4>3. QED BY <2>2, <4>1, <4>2 DEF DiscardSent
      <3>2. ASSUME NEW i \in DOMAIN v.dialogs, v.dialogs[i].stage = "discarded"
            PROVE  Ended(d, v.dialogs[i].task)
        BY <1>0, <2>4, <2>5, <3>2 DEF Discards
      <3>3. QED BY <3>1, <3>2 DEF Discards
    <2>8. Sends(w, v, "none")
      BY <2>2 DEF Sends
    <2>9. Badged(v) /\ Fetched(v) /\ InFocus(v)
      BY <1>0, <2>2, <2>8, BadgedKept, FetchedKept, FocusKept
    <2>10. QED BY <2>6, <2>7, <2>9 DEF Tight, Loose
  <1>2. Tight(told, d)
    <2>1. /\ Fields \subseteq DOMAIN told
          /\ \A f \in Fields \ {"prompted"} : told[f] = w[f]
      BY <1>0 DEF Formed, Fields
    <2> HIDE DEF told
    <2>2. /\ told.sent = w.sent /\ told.dialogs = w.dialogs
          /\ told.badges = w.badges /\ told.panels = w.panels
          /\ told.store = w.store /\ told.pinned = w.pinned
      BY <2>1 DEF Fields
    <2>3. QED BY <2>1, <2>2, AsideKept DEF Tight
  <1>3. \/ PromptResume(w) = w
        \/ PromptResume(w) = told
        \/ \E t : PromptResume(w) = asked(t)
    <2>1. told = [w EXCEPT !.prompted = TRUE, !.dialogs = w.dialogs]
      BY <1>0 DEF Formed, Fields
    <2>2. QED BY <2>1 DEF PromptResume
  <1>4. QED BY <1>1, <1>2, <1>3

\* Whatever became of the store, its listeners leave a tight window.
LEMMA StoreHeard ==
    ASSUME NEW w, NEW d, Loose(w, d)
    PROVE  Tight(StoreChanged(w), d)
  <1> DEFINE w1 == RefreshPanels(w, FALSE)
             w2 == PromptResume(w1)
             w3 == ListChange(w2, "marker")
             w4 == RefreshBadges(w3)
             w5 == ListChange(w4, "models")
             w6 == ListChange(w5, "picker")
  <1>1. StoreChanged(w) = w6 BY DEF StoreChanged
  <1>2. Tight(w1, d) BY PanelsRefreshed
  <1> HIDE DEF w1
  <1>3. Tight(w2, d) BY <1>2, Prompted
  <1> HIDE DEF w2
  <1>4. Tight(w3, d) BY <1>3, ListChanged DEF Readers
  <1> HIDE DEF w3
  <1>5. Tight(w4, d) BY <1>4, BadgesRefreshed
  <1> HIDE DEF w4
  <1>6. Tight(w5, d) BY <1>5, ListChanged DEF Readers
  <1> HIDE DEF w5
  <1>7. Tight(w6, d) BY <1>6, ListChanged DEF Readers
  <1>8. QED BY <1>1, <1>7

\* So do those of the focus and of the supervisor.
LEMMA FocusHeard ==
    ASSUME NEW w, NEW d, Loose(w, d)
    PROVE  Tight(FocusChanged(w), d) /\ Tight(SupervisorChanged(w), d)
  <1>1. Tight(RefreshPanels(w, FALSE), d) BY PanelsRefreshed
  <1>2. QED BY <1>1, BadgesRefreshed DEF FocusChanged, SupervisorChanged

-----------------------------------------------------------------------------
(***************************************************************************)
(* Answers.                                                                *)
(***************************************************************************)
Rest(w) == [w EXCEPT !.sent = RemoveAt(@, 1)]

\* Without its oldest request.
LEMMA RestFacts ==
    ASSUME NEW w, Formed(w), 1 \in DOMAIN w.sent
    PROVE  /\ Formed(Rest(w))
           /\ \A f \in Fields \ {"sent"} : Rest(w)[f] = w[f]
           /\ Len(w.sent) \in Nat \ {0} /\ DOMAIN w.sent = 1..Len(w.sent)
           /\ DOMAIN Rest(w).sent = 1..Len(w.sent) - 1
           /\ \A i \in 1..Len(w.sent) - 1 : Rest(w).sent[i] = w.sent[i + 1]
  <1>1. /\ Fields \subseteq DOMAIN Rest(w)
        /\ \A f \in Fields \ {"sent"} : Rest(w)[f] = w[f]
        /\ Rest(w).sent = RemoveAt(w.sent, 1)
    BY DEF Rest, Formed, Fields
  <1>2. /\ IsSeq(Rest(w).sent)
        /\ Len(w.sent) \in Nat \ {0} /\ DOMAIN w.sent = 1..Len(w.sent)
        /\ DOMAIN Rest(w).sent = 1..Len(w.sent) - 1
        /\ \A i \in 1..Len(w.sent) - 1 : Rest(w).sent[i] = w.sent[i + 1]
    BY <1>1, Removed DEF Formed
  <1>3. /\ Rest(w).panels = w.panels /\ Rest(w).badges = w.badges
        /\ Rest(w).dialogs = w.dialogs
    BY <1>1 DEF Fields
  <1>4. \A i \in DOMAIN Rest(w).sent : IsRequest(Rest(w).sent[i])
    <2>1. \A i \in 1..Len(w.sent) - 1 : i + 1 \in DOMAIN w.sent
      BY <1>2
    <2>2. QED BY <1>2, <2>1 DEF Formed
  <1>5. Formed(Rest(w))
    BY <1>1, <1>2, <1>3, <1>4 DEF Formed
  <1>6. QED BY <1>1, <1>2, <1>5

\* Whose request it was is one request further; for the others nothing changed.
LEMMA RestKept ==
    ASSUME NEW w, NEW d, Tight(w, d), 1 \in DOMAIN w.sent
    PROVE  LET v == Rest(w)
               q == w.sent[1]
           IN  /\ Formed(v) /\ Discards(v, d) /\ BadgesSent(v) /\ InFocus(v)
               /\ q.from # "badges" => Badged(v)
               /\ q.from # "panels" => Fetched(v)
               /\ q.from = "panels" => From(v, "panels") = {}
  <1> DEFINE v == Rest(w)
             q == w.sent[1]
             n == Len(w.sent)
  <1>0. Formed(w) /\ Discards(w, d) /\ Badged(w) /\ Fetched(w) /\ InFocus(w)
    BY DEF Loose, Tight
  <1>1. /\ Formed(v) /\ \A f \in Fields \ {"sent"} : v[f] = w[f]
        /\ n \in Nat \ {0} /\ DOMAIN w.sent = 1..n /\ DOMAIN v.sent = 1..n - 1
        /\ \A i \in 1..n - 1 : v.sent[i] = w.sent[i + 1]
    BY <1>0, RestFacts
  <1> HIDE DEF v, q, n
  <1>2. /\ v.panels = w.panels /\ v.badges = w.badges /\ v.dialogs = w.dialogs
        /\ v.store = w.store /\ v.pinned = w.pinned
    BY <1>1 DEF Fields
  <1>3. \A i \in DOMAIN v.sent : i + 1 \in DOMAIN w.sent /\ v.sent[i] = w.sent[i + 1]
    BY <1>1
  <1>4. \A j \in DOMAIN w.sent \ {1} : j - 1 \in DOMAIN v.sent
                                        /\ v.sent[j - 1] = w.sent[j]
    BY <1>1
  <1>5. Discards(v, d)
    BY <1>0, <1>2, <1>3 DEF Discards, DiscardSent
  <1>6. ASSUME NEW who
        PROVE  /\ \A i \in From(v, who) : i + 1 \in From(w, who)
               /\ \A j \in From(w, who) \ {1} : j - 1 \in From(v, who)
    BY <1>3, <1>4 DEF From
  <1>7. BadgesSent(v)
    <2>1. SUFFICES ASSUME NEW i \in From(v, "badges")
                   PROVE  /\ v.sent[i].method = "ledger/changes"
                          /\ Granted(v.sent[i]) =>
                                 AllOf(v.sent[i].answer.result, v.sent[i].about)
                          /\ \/ \E j \in From(v, "badges") : j > i
                             \/ v.sent[i].about = v.badges.lastTaskId
                             \/ v.badges.overtaken
      BY DEF BadgesSent
    <2>2. i \in 1..n - 1 /\ v.sent[i] = w.sent[i + 1]
      BY <1>1 DEF From
    <2>3. i + 1 \in From(w, "badges")
      BY <1>6
    <2>4. (\E j \in From(w, "badges") : j > i + 1)
             => \E j \in From(v, "badges") : j > i
      <3>1. SUFFICES ASSUME NEW j \in From(w, "badges"), j > i + 1
                     PROVE  \E k \in From(v, "badges") : k > i
        OBVIOUS
      <3>2. j \in 1..n BY <1>1 DEF From
      <3>3. j - 1 \in From(v, "badges") BY <1>6, <3>1, <3>2, <2>2
      <3>4. QED BY <3>1, <3>2, <3>3, <2>2
    <2>5. QED BY <1>0, <1>2, <2>2, <2>3, <2>4 DEF Badged, BadgesSent
  <1>8. q.from # "badges" => Badged(v)
    <2>1. q.from # "badges" => 1 \notin From(w, "badges")
      BY DEF From, q
    <2>2. q.from # "badges" /\ From(v, "badges") = {} => From(w, "badges") = {}
      BY <1>6, <2>1
    <2>3. QED BY <1>0, <1>2, <1>7, <2>2 DEF Badged
  <1>9. q.from # "panels" => Fetched(v)
    <2>1. SUFFICES ASSUME q.from # "panels" PROVE Fetched(v)
      OBVIOUS
    <2>2. ~v.panels.fetching => From(v, "panels") = {}
      BY <1>0, <1>2, <1>6 DEF Fetched
    <2>3. \A i, j \in From(v, "panels") : i = j
      <3>1. SUFFICES ASSUME NEW i \in From(v, "panels"), NEW j \in From(v, "panels")
                     PROVE  i = j
        OBVIOUS
      <3>2. i + 1 = j + 1 BY <1>0, <1>6 DEF Fetched
      <3>3. i \in Int /\ j \in Int BY <1>1 DEF From
      <3>4. QED BY <3>2, <3>3
    <2>4. \A i \in From(v, "panels") : PanelSent(v, v.sent[i])
      <3>1. SUFFICES ASSUME NEW i \in From(v, "panels")
                     PROVE  PanelSent(v, v.sent[i])
        OBVIOUS
      <3>2. PanelSent(w, w.sent[i + 1]) BY <1>0, <1>6 DEF Fetched
      <3>3. v.sent[i] = w.sent[i + 1] BY <1>3 DEF From
      <3>4. QED BY <1>2, <3>2, <3>3 DEF PanelSent
    <2>5. QED BY <1>0, <1>2, <2>2, <2>3, <2>4 DEF Fetched
  <1>10. q.from = "panels" => From(v, "panels") = {}
    <2>1. SUFFICES ASSUME q.from = "panels", NEW i \in From(v, "panels")
                   PROVE  FALSE
      OBVIOUS
    <2>2. 1 \in From(w, "panels") BY <2>1 DEF From, q
    <2>3. i + 1 = 1 BY <1>0, <1>6, <2>2 DEF Fetched
    <2>4. i \in 1..n - 1 BY <1>1 DEF From
    <2>5. QED BY <2>3, <2>4, <1>1
  <1>11. InFocus(v)
    BY <1>0, <1>2, FocusKept
  <1>12. QED BY <1>1, <1>5, <1>7, <1>8, <1>9, <1>10, <1>11 DEF v, q

\* The badges take the answer to their request: their last one's, if no other is
\* under way.
LEMMA BadgesTaken ==
    ASSUME NEW w, NEW d, Tight(w, d), 1 \in DOMAIN w.sent,
           w.sent[1].from = "badges", w.sent[1].answer # Null
    PROVE  Tight(BadgesTake(Rest(w), w.sent[1]), d)
  <1> DEFINE u == Rest(w)
             q == w.sent[1]
             v == BadgesTake(u, q)
  <1>0. Formed(w) /\ Badged(w)
    BY DEF Loose, Tight
  <1>1. /\ Formed(u) /\ Discards(u, d) /\ BadgesSent(u) /\ InFocus(u)
        /\ Fetched(u)
    BY RestKept
  <1>2. u.badges = w.badges
    BY <1>0, RestFacts DEF Fields
  <1>3. /\ Fields \subseteq DOMAIN v
        /\ \A f \in Fields \ {"badges"} : v[f] = u[f]
        /\ DOMAIN v.badges = DOMAIN u.badges
        /\ v.badges.lastTaskId = u.badges.lastTaskId
        /\ v.badges.overtaken = u.badges.overtaken
        /\ v.badges.failed \/ (q.answer.ok /\ v.badges.byPath = q.answer.result)
    <2> HIDE DEF u, q
    <2>1. QED BY <1>1 DEF BadgesTake, Formed, Fields
  <1>4. From(u, "badges") = {} => \/ w.badges.overtaken
                                  \/ q.about = w.badges.lastTaskId
    <2>1. SUFFICES ASSUME From(u, "badges") = {}
                   PROVE  w.badges.overtaken \/ q.about = w.badges.lastTaskId
      OBVIOUS
    <2>2. /\ DOMAIN w.sent = 1..Len(w.sent) /\ Len(w.sent) \in Nat
          /\ DOMAIN u.sent = 1..Len(w.sent) - 1
          /\ \A i \in 1..Len(w.sent) - 1 : u.sent[i] = w.sent[i + 1]
      BY <1>0, RestFacts
    <2>3. \A j \in From(w, "badges") : j = 1
      <3>1. SUFFICES ASSUME NEW j \in From(w, "badges"), j # 1 PROVE FALSE
        OBVIOUS
      <3>2. j \in 2..Len(w.sent) /\ w.sent[j].from = "badges"
        BY <2>2, <3>1 DEF From
      <3>3. j - 1 \in DOMAIN u.sent /\ u.sent[j - 1] = w.sent[j]
        BY <2>2, <3>2
      <3>4. QED BY <2>1, <3>2, <3>3 DEF From
    <2>4. 1 \in From(w, "badges")
      BY DEF From
    <2>5. ~ \E j \in From(w, "badges") : j > 1
      BY <2>3
    <2>6. QED BY <1>0, <2>4, <2>5 DEF Badged, BadgesSent
  <1>5. q.answer.ok => AllOf(q.answer.result, q.about)
    <2>1. 1 \in From(w, "badges")
      BY DEF From
    <2>2. QED BY <1>0, <2>1 DEF Badged, BadgesSent, Granted
  <1> HIDE DEF u, q, v
  <1>6. /\ v.sent = u.sent /\ v.dialogs = u.dialogs /\ v.panels = u.panels
        /\ v.store = u.store /\ v.pinned = u.pinned
    BY <1>3 DEF Fields
  <1>7. Formed(v)
    BY <1>1, <1>3, <1>6 DEF Formed
  <1>8. Badged(v)
    <2>1. From(v, "badges") = From(u, "badges") /\ BadgesSent(v)
      BY <1>1, <1>3, <1>6 DEF From, BadgesSent
    <2>2. From(u, "badges") = {} => v.badges.failed \/ v.badges.overtaken
                                   \/ AllOf(v.badges.byPath, v.badges.lastTaskId)
      BY <1>2, <1>3, <1>4, <1>5
    <2>3. QED BY <2>1, <2>2 DEF Badged
  <1>9. Sends(u, v, "none")
    BY <1>6 DEF Sends
  <1>10. Discards(v, d) /\ Fetched(v) /\ InFocus(v)
    BY <1>1, <1>6, <1>9, DiscardsKept, FetchedKept, FocusKept
  <1>11. QED BY <1>7, <1>8, <1>10 DEF Tight, Loose, u, q, v

\* What was put together is shown.
LEMMA Shows ==
    ASSUME NEW w, NEW d, Formed(w), Discards(w, d), Badged(w), InFocus(w),
           w.panels.fetching, From(w, "panels") = {}, OwnData(w.panels.next),
           w.panels.next.report = w.panels.next.taskId \/ w.panels.failed
    PROVE  Tight(FetchShown(w), d)
  <1> DEFINE v == FetchShown(w)
             p == w.panels
  <1>1. /\ Fields \subseteq DOMAIN v
        /\ \A f \in Fields \ {"panels"} : v[f] = w[f]
        /\ DOMAIN v.panels = DOMAIN p
        /\ v.panels.open = p.open /\ v.panels.next = NoData(Null)
        /\ v.panels.missed = p.missed /\ v.panels.cold = p.cold
        /\ v.panels.failed = p.failed
        /\ ~v.panels.fetching /\ v.panels.data = p.next
    BY DEF FetchShown, Formed, Fields
  <1> HIDE DEF v
  <1>2. Sends(w, v, "none") /\ v.dialogs = w.dialogs
        /\ v.badges = w.badges /\ v.sent = w.sent
        /\ v.store = w.store /\ v.pinned = w.pinned
    BY <1>1 DEF Sends, Fields
  <1>3. Formed(v)
    BY <1>1, <1>2, NothingKnown DEF Formed
  <1>4. Discards(v, d) /\ Badged(v)
    BY <1>2, DiscardsKept, BadgedKept
  <1>5. From(v, "panels") = {}
    BY <1>2 DEF From
  <1>6. Fetched(v)
    BY <1>1, <1>5, NothingKnown DEF Fetched
  <1>7. InFocus(v)
    BY <1>1, <1>2 DEF InFocus, Focus
  <1>8. QED BY <1>3, <1>4, <1>6, <1>7 DEF Tight, Loose, v

\* The panels take the answer to their request: it is of the task whose data is
\* being put together.
LEMMA PanelsTaken ==
    ASSUME NEW w, NEW d, Tight(w, d), 1 \in DOMAIN w.sent,
           w.sent[1].from = "panels", w.sent[1].answer # Null
    PROVE  Tight(PanelsTake(Rest(w), w.sent[1]), d)
  <1> DEFINE u == Rest(w)
             q == w.sent[1]
             p == u.panels
             got  == IF q.method = "task/report"
                     THEN [u EXCEPT !.panels.next.report = q.answer.result]
                     ELSE [u EXCEPT !.panels.next.ownership =
                                        Or(q.answer.result, <<>>)]
             told == [got EXCEPT !.panels.failed = @ \/ ~q.answer.ok]
  <1>0. Formed(w) /\ Fetched(w)
    BY DEF Loose, Tight
  <1>1. /\ Formed(u) /\ Discards(u, d) /\ BadgesSent(u) /\ InFocus(u)
        /\ Badged(u) /\ From(u, "panels") = {}
    BY RestKept
  <1>2. p = w.panels
    BY <1>0, RestFacts DEF Fields
  <1>3. /\ p.fetching /\ PanelSent(w, q) /\ OwnData(p.next) /\ OwnData(p.data)
        /\ q.answer # Null
    <2>1. 1 \in From(w, "panels") BY DEF From
    <2>2. QED BY <1>0, <1>2, <2>1 DEF Fetched
  <1> HIDE DEF u, q
  <1>4. /\ Fields \subseteq DOMAIN got
        /\ \A f \in Fields \ {"panels"} : got[f] = u[f]
        /\ DOMAIN got.panels = DOMAIN p
        /\ \A f \in DOMAIN p \ {"next"} : got.panels[f] = p[f]
        /\ DOMAIN got.panels.next = DOMAIN p.next
        /\ got.panels.next.taskId = p.next.taskId
    BY <1>1 DEF Formed, Fields
  <1>5. /\ q.method = "task/report" =>
               /\ got.panels.next.report = q.answer.result
               /\ got.panels.next.ownership = p.next.ownership
        /\ q.method # "task/report" =>
               /\ got.panels.next.report = p.next.report
               /\ got.panels.next.ownership = Or(q.answer.result, <<>>)
    BY <1>1 DEF Formed, Fields
  <1> HIDE DEF got
  <1>6. /\ Fields \subseteq DOMAIN told
        /\ \A f \in Fields \ {"panels"} : told[f] = u[f]
        /\ DOMAIN told.panels = DOMAIN p
        /\ \A f \in DOMAIN p \ {"next", "failed"} : told.panels[f] = p[f]
        /\ told.panels.next = got.panels.next
        /\ ~q.answer.ok \/ p.failed => told.panels.failed
    BY <1>1, <1>4 DEF Formed, Fields
  <1> HIDE DEF told
  <1>7. /\ told.panels.open = p.open /\ told.panels.fetching = p.fetching
        /\ told.panels.missed = p.missed /\ told.panels.data = p.data
    BY <1>1, <1>6 DEF Formed
  <1>8. OwnData(told.panels.next)
    <2>1. CASE q.method = "task/report"
      BY <1>2, <1>3, <1>4, <1>5, <1>6, <2>1 DEF OwnData, PanelSent
    <2>2. CASE q.method # "task/report"
      <3>1. AllOf(Or(q.answer.result, <<>>), q.about)
        BY <1>3, <2>2 DEF PanelSent, Or, AllOf
      <3>2. QED BY <1>2, <1>3, <1>4, <1>5, <1>6, <2>2, <3>1 DEF OwnData, PanelSent
    <2>3. QED BY <2>1, <2>2
  <1>9. told.panels.next.taskId = q.about
        /\ (told.panels.next.report = q.about \/ told.panels.failed)
    <2>1. CASE q.method = "task/report"
      BY <1>2, <1>3, <1>4, <1>5, <1>6, <2>1 DEF PanelSent
    <2>2. CASE q.method # "task/report"
      BY <1>2, <1>3, <1>4, <1>5, <1>6, <2>2 DEF PanelSent
    <2>3. QED BY <2>1, <2>2
  <1>10. Sends(u, told, "none") /\ told.dialogs = u.dialogs
         /\ told.badges = u.badges /\ told.sent = u.sent
         /\ told.store = u.store /\ told.pinned = u.pinned
    BY <1>6 DEF Sends, Fields
  <1>11. Formed(told)
    <2>1. {"taskId", "report", "ownership"} \subseteq DOMAIN told.panels.next
      BY <1>1, <1>4, <1>6 DEF Formed
    <2>2. QED BY <1>1, <1>6, <1>10, <2>1 DEF Formed
  <1>12. Discards(told, d) /\ Badged(told)
    BY <1>1, <1>10, DiscardsKept, BadgedKept
  <1>13. From(told, "panels") = {}
    BY <1>1, <1>10 DEF From
  <1>14. InFocus(told)
    <2>1. Focus(told) = Focus(u) BY <1>10 DEF Focus
    <2>2. told.panels.next.taskId = p.next.taskId BY <1>4, <1>6
    <2>3. QED BY <1>1, <1>7, <2>1, <2>2 DEF InFocus
  <1>15. Tight(FetchShown(told), d)
    BY <1>3, <1>7, <1>8, <1>9, <1>11, <1>12, <1>13, <1>14, Shows
  <1> DEFINE asked == Send(told, "panels", "ledger/changes", q.about, Null)
  <1>16. Tight(asked, d)
    <2>1. /\ Fields \subseteq DOMAIN asked
          /\ \A f \in Fields \ {"sent"} : asked[f] = told[f]
          /\ asked.sent = Append(told.sent, [from |-> "panels",
                 method |-> "ledger/changes", about |-> q.about, kept |-> Null,
                 answer |-> Null])
          /\ Sends(told, asked, "panels")
      BY <1>11, SendFacts
    <2> HIDE DEF asked
    <2>2. asked.dialogs = told.dialogs /\ asked.badges = told.badges
          /\ asked.panels = told.panels
          /\ asked.store = told.store /\ asked.pinned = told.pinned
      BY <2>1 DEF Fields
    <2>3. Discards(asked, d) /\ Badged(asked) /\ InFocus(asked)
      BY <1>11, <1>12, <1>14, <2>1, <2>2, DiscardsKept, BadgedKept, FocusKept
    <2>4. Formed(asked)
      <3>1. IsSeq(asked.sent) /\ \A i \in DOMAIN asked.sent : IsRequest(asked.sent[i])
        BY <1>11, <2>1, SentFacts
      <3>2. QED BY <1>11, <2>1, <2>2, <3>1 DEF Formed
    <2>5. /\ DOMAIN told.sent = 1..Len(told.sent) /\ Len(told.sent) \in Nat
          /\ DOMAIN asked.sent = 1..Len(told.sent) + 1
          /\ \A i \in DOMAIN told.sent : asked.sent[i] = told.sent[i]
          /\ asked.sent[Len(told.sent) + 1] = [from |-> "panels",
                 method |-> "ledger/changes", about |-> q.about, kept |-> Null,
                 answer |-> Null]
      BY <1>11, <2>1, Appended DEF Formed
    <2> DEFINE n == Len(told.sent) + 1
    <2>6. \A i \in DOMAIN told.sent : told.sent[i].from # "panels"
      BY <1>13 DEF From
    <2>7. From(asked, "panels") = {n}
      BY <2>5, <2>6 DEF From
    <2>8. /\ asked.sent[n].about = q.about /\ asked.sent[n].answer = Null
          /\ asked.sent[n].method = "ledger/changes"
      BY <2>5
    <2> HIDE DEF n
    <2>9. PanelSent(asked, asked.sent[n])
      BY <1>9, <2>2, <2>8 DEF PanelSent
    <2>10. Fetched(asked)
      BY <1>3, <1>7, <1>8, <2>2, <2>7, <2>9 DEF Fetched
    <2>11. QED BY <2>3, <2>4, <2>10 DEF Tight, Loose
  <1>17. PanelsTake(u, q) = asked \/ PanelsTake(u, q) = FetchShown(told)
    BY DEF PanelsTake, asked, told, got
  <1>18. QED BY <1>15, <1>16, <1>17 DEF u, q

\* What only touches the lists, the connection, the capabilities or the host's
\* state keeps a window tight.
LEMMA BesideKept ==
    ASSUME NEW w, NEW d, Tight(w, d), NEW v, Fields \subseteq DOMAIN v,
           \A f \in Fields \ {"lists", "conn", "caps", "alive"} : v[f] = w[f]
    PROVE  Tight(v, d)
  <1>1. /\ v.sent = w.sent /\ v.dialogs = w.dialogs
        /\ v.badges = w.badges /\ v.panels = w.panels
        /\ v.store = w.store /\ v.pinned = w.pinned
    BY DEF Fields
  <1>2. QED BY <1>1, AsideKept DEF Tight

\* A model view takes a list or a recommendation.
LEMMA ViewTaken ==
    ASSUME NEW w, NEW d, Tight(w, d), NEW q, NEW r \in {"models", "picker"}
    PROVE  Tight(ViewTakes(w, q, r), d)
  <1> DEFINE listed == [w EXCEPT
            !.lists[r].models = IF q.answer.ok THEN q.answer.result.models
                                ELSE Null,
            !.lists[r].at = IF q.answer.ok THEN q.answer.result.at ELSE @,
            !.lists[r].failed = ~q.answer.ok]
             bare == [listed EXCEPT !.lists[r].recommend = Null]
             advised == [w EXCEPT !.lists[r].recommend = q.answer.result]
  <1>1. Fields \subseteq DOMAIN w
    BY DEF Tight, Loose, Formed
  <1>2. /\ Fields \subseteq DOMAIN listed
        /\ \A f \in Fields \ {"lists", "conn", "caps", "alive"} : listed[f] = w[f]
    BY <1>1 DEF Fields
  <1> HIDE DEF listed
  <1>3. Tight(listed, d)
    BY <1>2, BesideKept
  <1>4. /\ Fields \subseteq DOMAIN bare
        /\ \A f \in Fields \ {"lists", "conn", "caps", "alive"} : bare[f] = listed[f]
    BY <1>2 DEF Fields
  <1>5. /\ Fields \subseteq DOMAIN advised
        /\ \A f \in Fields \ {"lists", "conn", "caps", "alive"} : advised[f] = w[f]
    BY <1>1 DEF Fields
  <1>6. Tight(Send(listed, r, "model/recommend", Null, Null), d)
    BY <1>3, SendKept DEF Others, Readers
  <1>7. \/ ViewTakes(w, q, r) = Send(listed, r, "model/recommend", Null, Null)
        \/ ViewTakes(w, q, r) = bare
        \/ ViewTakes(w, q, r) = advised
    BY DEF ViewTakes, listed
  <1> HIDE DEF bare, advised
  <1>8. Tight(bare, d) /\ Tight(advised, d)
    BY <1>3, <1>4, <1>5, BesideKept
  <1>9. QED BY <1>6, <1>7, <1>8

\* The marker takes the list, and then the doctor's word.
LEMMA MarkerTaken ==
    ASSUME NEW w, NEW d, Tight(w, d), NEW q
    PROVE  Tight(MarkerTakes(w, q), d)
  <1> DEFINE noted == [w EXCEPT !.lists["marker"].failed = ~q.answer.ok]
             failing == [w EXCEPT !.lists["marker"].failed = TRUE]
             shown == [w EXCEPT
                 !.lists["marker"].models = IF q.kept.ok THEN q.kept.result.models
                                            ELSE Null,
                 !.lists["marker"].at = IF q.kept.ok THEN q.kept.result.at
                                        ELSE @]
             asked == Send(noted, "marker", "doctor/run", Null, q.answer)
  <1>1. Fields \subseteq DOMAIN w
    BY DEF Tight, Loose, Formed
  <1>2. /\ Fields \subseteq DOMAIN noted
        /\ \A f \in Fields \ {"lists", "conn", "caps", "alive"} : noted[f] = w[f]
    BY <1>1 DEF Fields
  <1>3. /\ Fields \subseteq DOMAIN failing
        /\ \A f \in Fields \ {"lists", "conn", "caps", "alive"} : failing[f] = w[f]
    BY <1>1 DEF Fields
  <1>4. /\ Fields \subseteq DOMAIN shown
        /\ \A f \in Fields \ {"lists", "conn", "caps", "alive"} : shown[f] = w[f]
    BY <1>1 DEF Fields
  <1>5. MarkerTakes(w, q) \in {asked, shown, failing}
    BY DEF MarkerTakes
  <1> HIDE DEF noted, failing, shown
  <1>6. Tight(noted, d) /\ Tight(failing, d) /\ Tight(shown, d)
    BY <1>2, <1>3, <1>4, BesideKept
  <1>7. Tight(asked, d)
    BY <1>6, SendKept DEF Others, Readers
  <1>8. QED BY <1>5, <1>6, <1>7

\* What changes the connection or the capabilities is heard by the supervisor's
\* listeners.
LEMMA ConnKept ==
    ASSUME NEW w, NEW d, Tight(w, d), NEW v, Fields \subseteq DOMAIN v,
           \A f \in Fields \ {"lists", "conn", "caps", "alive"} : v[f] = w[f]
    PROVE  Tight(SupervisorChanged(v), d)
  <1>1. Tight(v, d) BY BesideKept
  <1>2. QED BY <1>1, FocusHeard DEF Tight

\* The session is open, or it failed to.
LEMMA SessionTaken ==
    ASSUME NEW w, NEW d, Tight(w, d), NEW q
    PROVE  Tight(SessionTakes(w, q), d)
  <1> DEFINE broken == [w EXCEPT !.conn = "failed", !.caps = {}]
             open == [w EXCEPT !.conn = "ready", !.caps = scn.caps]
  <1>1. Fields \subseteq DOMAIN w
    BY DEF Tight, Loose, Formed
  <1>2. /\ Fields \subseteq DOMAIN broken
        /\ \A f \in Fields \ {"lists", "conn", "caps", "alive"} : broken[f] = w[f]
    BY <1>1 DEF Fields
  <1>3. /\ Fields \subseteq DOMAIN open
        /\ \A f \in Fields \ {"lists", "conn", "caps", "alive"} : open[f] = w[f]
    BY <1>1 DEF Fields
  <1>4. SessionTakes(w, q) \in {SupervisorChanged(broken), SupervisorChanged(open),
                               RefreshList(SupervisorChanged(open), "marker")}
    BY DEF SessionTakes
  <1> HIDE DEF broken, open
  <1>5. Tight(SupervisorChanged(broken), d) /\ Tight(SupervisorChanged(open), d)
    BY <1>2, <1>3, ConnKept
  <1>6. Tight(RefreshList(SupervisorChanged(open), "marker"), d)
    BY <1>5, ListRefreshed DEF Readers
  <1>7. QED BY <1>4, <1>5, <1>6

\* A dialog moves to another stage: "discarded" only when its task has ended.
LEMMA StageKept ==
    ASSUME NEW w, NEW d, Tight(w, d), NEW i \in DOMAIN w.dialogs, NEW stage,
           stage = "discarded" => Ended(d, w.dialogs[i].task)
    PROVE  /\ Tight([w EXCEPT !.dialogs[i].stage = stage], d)
           /\ LET v == [w EXCEPT !.dialogs[i].stage = stage]
              IN  /\ DOMAIN v.dialogs = DOMAIN w.dialogs
                  /\ v.dialogs[i].task = w.dialogs[i].task
                  /\ v.store = w.store /\ v.pinned = w.pinned
  <1> DEFINE v == [w EXCEPT !.dialogs[i].stage = stage]
  <1>0. Formed(w) /\ Discards(w, d) /\ Badged(w) /\ Fetched(w) /\ InFocus(w)
    BY DEF Loose, Tight
  <1>1. /\ Fields \subseteq DOMAIN v
        /\ \A f \in Fields \ {"dialogs"} : v[f] = w[f]
        /\ v.dialogs = [w.dialogs EXCEPT ![i].stage = stage]
    BY <1>0 DEF Formed, Fields
  <1>2. v.dialogs = [k \in DOMAIN w.dialogs |-> v.dialogs[k]]
    BY <1>1
  <1>3. \A k \in DOMAIN w.dialogs :
            /\ v.dialogs[k].task = w.dialogs[k].task
            /\ {"task", "stage"} \subseteq DOMAIN v.dialogs[k]
            /\ v.dialogs[k].stage = IF k = i THEN stage ELSE w.dialogs[k].stage
    BY <1>0, <1>1 DEF Formed
  <1> HIDE DEF v
  <1>4. IsSeq(v.dialogs) /\ DOMAIN v.dialogs = DOMAIN w.dialogs
    BY <1>0, <1>2, Mapped DEF Formed
  <1>5. /\ v.sent = w.sent /\ v.badges = w.badges /\ v.panels = w.panels
        /\ v.store = w.store /\ v.pinned = w.pinned
    BY <1>1 DEF Fields
  <1>6. Formed(v)
    BY <1>0, <1>1, <1>3, <1>4, <1>5 DEF Formed
  <1>7. Discards(v, d)
    <2>1. ASSUME NEW k \in DOMAIN v.sent, v.sent[k].from = "discard"
          PROVE  DiscardSent(v, v.sent[k], d)
      BY <1>0, <1>3, <1>4, <1>5, <2>1 DEF Discards, DiscardSent
    <2>2. ASSUME NEW k \in DOMAIN v.dialogs, v.dialogs[k].stage = "discarded"
          PROVE  Ended(d, v.dialogs[k].task)
      BY <1>0, <1>3, <1>4, <2>2 DEF Discards
    <2>3. QED BY <2>1, <2>2 DEF Discards
  <1>8. Sends(w, v, "none")
    BY <1>5 DEF Sends
  <1>9. Badged(v) /\ Fetched(v) /\ InFocus(v)
    BY <1>0, <1>5, <1>8, BadgedKept, FetchedKept, FocusKept
  <1>10. QED BY <1>3, <1>4, <1>5, <1>6, <1>7, <1>9 DEF Tight, Loose, v

\* A discard sends a request about the task of its dialog.
LEMMA DiscardSends ==
    ASSUME NEW w, NEW d, Tight(w, d), NEW i \in DOMAIN w.dialogs,
           NEW method \in {"task/cancel", "task/resume"},
           method = "task/resume" => Flagged(d, w.dialogs[i].task)
    PROVE  Tight(Send(w, "discard", method, w.dialogs[i].task, i), d)
  <1> DEFINE t == w.dialogs[i].task
             v == Send(w, "discard", method, t, i)
             r == [from |-> "discard", method |-> method, about |-> t,
                   kept |-> i, answer |-> Null]
  <1>0. Formed(w) /\ Discards(w, d) /\ Badged(w) /\ Fetched(w) /\ InFocus(w)
    BY DEF Loose, Tight
  <1>1. Fields \subseteq DOMAIN v /\ v.sent = Append(w.sent, r)
        /\ Sends(w, v, "discard")
    BY <1>0, SendFacts
  <1>2. /\ v.dialogs = w.dialogs /\ v.badges = w.badges /\ v.panels = w.panels
        /\ v.store = w.store /\ v.pinned = w.pinned
    BY <1>0 DEF Formed, Fields, Send
  <1> HIDE DEF v
  <1>3. Formed(v)
    <2>1. IsSeq(v.sent) /\ \A k \in DOMAIN v.sent : IsRequest(v.sent[k])
      BY <1>0, <1>1, SentFacts
    <2>2. QED BY <1>0, <1>1, <1>2, <2>1 DEF Formed
  <1>4. \A k \in DOMAIN v.sent :
            (k \in DOMAIN w.sent /\ v.sent[k] = w.sent[k]) \/ v.sent[k] = r
    <2>1. /\ DOMAIN w.sent = 1..Len(w.sent) /\ Len(w.sent) \in Nat
          /\ DOMAIN v.sent = 1..Len(w.sent) + 1
          /\ \A k \in DOMAIN w.sent : v.sent[k] = w.sent[k]
          /\ v.sent[Len(w.sent) + 1] = r
      BY <1>0, <1>1, Appended DEF Formed
    <2> HIDE DEF r
    <2>2. QED BY <2>1
  <1>5. DiscardSent(v, r, d)
    BY <1>2 DEF DiscardSent, Granted
  <1> HIDE DEF r, t
  <1>6. Discards(v, d)
    <2>1. ASSUME NEW k \in DOMAIN v.sent, v.sent[k].from = "discard"
          PROVE  DiscardSent(v, v.sent[k], d)
      BY <1>0, <1>2, <1>4, <1>5, <2>1 DEF Discards, DiscardSent
    <2>2. QED BY <1>0, <1>2, <2>1 DEF Discards
  <1>7. Badged(v) /\ Fetched(v) /\ InFocus(v)
    BY <1>0, <1>1, <1>2, BadgedKept, FetchedKept, FocusKept
  <1>8. QED BY <1>3, <1>6, <1>7 DEF Tight, Loose, v, t

\* The cancel was granted, so the resume may follow; or the discard is over.
LEMMA DiscardTaken ==
    ASSUME NEW w, NEW d, Tight(w, d), NEW q, DiscardSent(w, q, d), q.answer # Null
    PROVE  Tight(DiscardTakes(w, q), d)
  <1>1. q.kept \in DOMAIN w.dialogs /\ w.dialogs[q.kept].task = q.about
    BY DEF DiscardSent
  <1>2. CASE q.answer.ok /\ q.method = "task/cancel"
    <2>1. Flagged(d, q.about) BY <1>2 DEF DiscardSent, Granted
    <2>2. QED BY <1>1, <1>2, <2>1, DiscardSends DEF DiscardTakes
  <1>3. CASE ~(q.answer.ok /\ q.method = "task/cancel")
    <2> DEFINE stage == IF q.answer.ok THEN "discarded" ELSE "failed"
    <2>1. stage = "discarded" => Ended(d, q.about)
      BY <1>3 DEF DiscardSent, Granted
    <2>2. DiscardTakes(w, q) = [w EXCEPT !.dialogs[q.kept].stage = stage]
      BY <1>3 DEF DiscardTakes
    <2> HIDE DEF stage
    <2>3. QED BY <1>1, <2>1, <2>2, StageKept
  <1>4. QED BY <1>2, <1>3

\* A pin is heard by the focus's listeners.
LEMMA PinKept ==
    ASSUME NEW w, NEW d, Loose(w, d), NEW t
    PROVE  Tight(FocusChanged([w EXCEPT !.pinned = t]), d)
  <1> DEFINE v == [w EXCEPT !.pinned = t]
  <1>1. /\ Fields \subseteq DOMAIN v
        /\ \A f \in Fields \ {"pinned"} : v[f] = w[f]
    BY DEF Loose, Formed, Fields
  <1> HIDE DEF v
  <1>2. /\ v.sent = w.sent /\ v.dialogs = w.dialogs
        /\ v.badges = w.badges /\ v.panels = w.panels
    BY <1>1 DEF Fields
  <1>3. Loose(v, d) BY <1>1, <1>2, AsideKept
  <1>4. QED BY <1>3, FocusHeard DEF v

\* Whoever takes the oldest answer leaves a tight window.
LEMMA AnswerTaken ==
    ASSUME NEW w, NEW d, Tight(w, d), 1 \in DOMAIN w.sent, w.sent[1].answer # Null
    PROVE  Tight(Taken(Rest(w), w.sent[1]), d)
  <1> DEFINE u == Rest(w)
             q == w.sent[1]
  <1>1. CASE q.from = "panels"
    BY <1>1, PanelsTaken DEF Taken
  <1>2. CASE q.from = "badges"
    BY <1>2, BadgesTaken DEF Taken
  <1>3. ASSUME q.from \notin {"panels", "badges"} PROVE Tight(u, d)
    BY <1>3, RestKept DEF Tight, Loose
  <1>4. ASSUME q.from = "discard" PROVE DiscardSent(u, q, d)
    <2>1. DiscardSent(w, q, d)
      BY <1>4 DEF Tight, Loose, Discards
    <2>2. u.dialogs = w.dialogs
      BY RestFacts DEF Tight, Loose, Fields
    <2>3. QED BY <2>1, <2>2 DEF DiscardSent
  <1> HIDE DEF u, q
  <1>5. CASE q.from \in {"models", "picker"}
    <2>1. Taken(u, q) = ViewTakes(u, q, q.from)
      BY <1>5 DEF Taken
    <2>2. QED BY <1>3, <1>5, <2>1, ViewTaken DEF u, q
  <1>6. CASE q.from = "marker"
    <2>1. Taken(u, q) = MarkerTakes(u, q) BY <1>6 DEF Taken
    <2>2. QED BY <1>3, <1>6, <2>1, MarkerTaken DEF u, q
  <1>7. CASE q.from = "removal"
    <2>1. Taken(u, q) = RemovalTakes(u, q) BY <1>7 DEF Taken
    <2>2. QED BY <1>3, <1>7, <2>1, ListRefreshed DEF u, q, RemovalTakes, Readers
  <1>8. CASE q.from = "session"
    <2>1. Taken(u, q) = SessionTakes(u, q) BY <1>8 DEF Taken
    <2>2. QED BY <1>3, <1>8, <2>1, SessionTaken DEF u, q
  <1>9. CASE q.from = "discard"
    <2>1. Taken(u, q) = DiscardTakes(u, q) BY <1>9 DEF Taken
    <2>2. QED BY <1>3, <1>4, <1>9, <2>1, DiscardTaken DEF u, q
  <1>10. CASE q.from = "create"
    <2>1. Taken(u, q) = CreateTakes(u, q) BY <1>10 DEF Taken
    <2>2. Tight(u, d) BY <1>3, <1>10
    <2>3. Tight(FocusChanged([u EXCEPT !.pinned = q.about]), d)
      BY <2>2, PinKept DEF Tight
    <2>4. QED BY <2>1, <2>2, <2>3 DEF u, q, CreateTakes
  <1>11. CASE q.from \notin {"panels", "badges", "models", "picker", "marker",
                             "removal", "session", "discard", "create"}
    <2>1. Taken(u, q) = u BY <1>11 DEF Taken
    <2>2. QED BY <1>3, <1>11, <2>1 DEF u, q
  <1>12. QED
    BY <1>1, <1>2, <1>5, <1>6, <1>7, <1>8, <1>9, <1>10, <1>11 DEF u, q

-----------------------------------------------------------------------------
(***************************************************************************)
(* Core's side: requests get answers, drivers move on.                     *)
(***************************************************************************)
\* A driver that will find the flag, or has found it, stays that way.
Grows(d, e) == \A t : /\ Flagged(d, t) => Flagged(e, t)
                      /\ Ended(d, t) => Ended(e, t)

\* The requests are the same but for their answers.
Reanswers(w, v) ==
    /\ Fields \subseteq DOMAIN v
    /\ \A f \in Fields \ {"sent", "alive"} : v[f] = w[f]
    /\ IsSeq(v.sent) /\ DOMAIN v.sent = DOMAIN w.sent
    /\ \A i \in DOMAIN w.sent :
           /\ IsRequest(v.sent[i])
           /\ v.sent[i].from = w.sent[i].from
           /\ v.sent[i].method = w.sent[i].method
           /\ v.sent[i].about = w.sent[i].about
           /\ v.sent[i].kept = w.sent[i].kept

\* An answer is to its request.
Fits(q, d) ==
    /\ q.from = "badges" /\ Granted(q) => AllOf(q.answer.result, q.about)
    /\ q.from = "panels" /\ q.answer # Null =>
           IF ~q.answer.ok THEN q.answer.result = Null
           ELSE IF q.method = "task/report" THEN q.answer.result = q.about
           ELSE AllOf(q.answer.result, q.about)
    /\ q.from = "discard" /\ Granted(q) =>
           /\ Flagged(d, q.about)
           /\ q.method = "task/resume" => Ended(d, q.about)

\* Answers that fit leave the window tight.
LEMMA Reanswered ==
    ASSUME NEW w, NEW d, Tight(w, d), NEW v, NEW e, Reanswers(w, v), Grows(d, e),
           \A i \in DOMAIN w.sent : \/ v.sent[i].answer = w.sent[i].answer
                                    \/ Fits(v.sent[i], e)
    PROVE  Tight(v, e)
  <1>0. Formed(w) /\ Discards(w, d) /\ Badged(w) /\ Fetched(w) /\ InFocus(w)
    BY DEF Loose, Tight
  <1>1. /\ v.badges = w.badges /\ v.panels = w.panels /\ v.dialogs = w.dialogs
        /\ v.store = w.store /\ v.pinned = w.pinned
    BY DEF Fields, Reanswers
  <1>2. Formed(v)
    BY <1>0, <1>1 DEF Reanswers, Formed
  <1>3. \A who : From(v, who) = From(w, who)
    BY DEF Reanswers, From
  <1>4. Discards(v, e)
    <2>1. ASSUME NEW i \in DOMAIN v.sent, v.sent[i].from = "discard"
          PROVE  DiscardSent(v, v.sent[i], e)
      <3>1. i \in DOMAIN w.sent /\ w.sent[i].from = "discard"
        BY <2>1 DEF Reanswers
      <3>2. DiscardSent(w, w.sent[i], d)
        BY <1>0, <3>1 DEF Discards
      <3>3. CASE v.sent[i].answer = w.sent[i].answer
        BY <1>1, <3>1, <3>2, <3>3 DEF DiscardSent, Reanswers, Grows, Granted
      <3>4. CASE Fits(v.sent[i], e)
        BY <1>1, <2>1, <3>1, <3>2, <3>4 DEF DiscardSent, Reanswers, Grows, Fits
      <3>5. QED BY <3>1, <3>3, <3>4
    <2>2. QED BY <1>0, <1>1, <2>1 DEF Discards, Grows
  <1>5. Badged(v)
    <2>1. ASSUME NEW i \in From(w, "badges")
          PROVE  /\ v.sent[i].method = "ledger/changes"
                 /\ v.sent[i].about = w.sent[i].about
                 /\ Granted(v.sent[i]) =>
                        AllOf(v.sent[i].answer.result, v.sent[i].about)
      <3>1. i \in DOMAIN w.sent /\ w.sent[i].from = "badges"
        BY DEF From
      <3>2. /\ w.sent[i].method = "ledger/changes"
            /\ Granted(w.sent[i]) =>
                   AllOf(w.sent[i].answer.result, w.sent[i].about)
        BY <1>0 DEF Badged, BadgesSent
      <3>3. /\ v.sent[i].method = w.sent[i].method
            /\ v.sent[i].about = w.sent[i].about
            /\ v.sent[i].from = w.sent[i].from
        BY <3>1 DEF Reanswers
      <3>4. CASE v.sent[i].answer = w.sent[i].answer
        BY <3>2, <3>3, <3>4 DEF Granted
      <3>5. CASE Fits(v.sent[i], e)
        BY <3>1, <3>2, <3>3, <3>5 DEF Fits
      <3>6. QED BY <3>1, <3>4, <3>5
    <2>2. BadgesSent(v)
      BY <1>0, <1>1, <1>3, <2>1 DEF Badged, BadgesSent
    <2>3. QED BY <1>0, <1>1, <1>3, <2>2 DEF Badged
  <1>6. Fetched(v)
    <2>1. ASSUME NEW i \in From(w, "panels") PROVE PanelSent(v, v.sent[i])
      <3>1. i \in DOMAIN w.sent /\ w.sent[i].from = "panels"
        BY DEF From
      <3>2. PanelSent(w, w.sent[i])
        BY <1>0 DEF Fetched
      <3>3. /\ v.sent[i].method = w.sent[i].method
            /\ v.sent[i].about = w.sent[i].about
            /\ v.sent[i].from = w.sent[i].from
        BY <3>1 DEF Reanswers
      <3>4. CASE v.sent[i].answer = w.sent[i].answer
        BY <1>1, <3>2, <3>3, <3>4 DEF PanelSent
      <3>5. CASE Fits(v.sent[i], e)
        BY <1>1, <3>1, <3>2, <3>3, <3>5 DEF Fits, PanelSent
      <3>6. QED BY <3>1, <3>4, <3>5
    <2>2. QED BY <1>0, <1>1, <1>3, <2>1 DEF Fetched
  <1>7. InFocus(v)
    BY <1>0, <1>1, FocusKept
  <1>8. QED BY <1>2, <1>4, <1>5, <1>6, <1>7 DEF Tight, Loose

\* One request gets an answer.
LEMMA OneAnswer ==
    ASSUME NEW w, Formed(w), NEW k \in DOMAIN w.sent, NEW a
    PROVE  LET v == [w EXCEPT !.sent[k].answer = a]
           IN  /\ Reanswers(w, v) /\ v.sent[k].answer = a
               /\ \A i \in DOMAIN w.sent \ {k} : v.sent[i] = w.sent[i]
  <1> DEFINE v == [w EXCEPT !.sent[k].answer = a]
  <1>1. /\ Fields \subseteq DOMAIN v
        /\ \A f \in Fields \ {"sent"} : v[f] = w[f]
        /\ v.sent = [w.sent EXCEPT ![k].answer = a]
    BY DEF Formed, Fields
  <1>2. v.sent = [i \in DOMAIN w.sent |-> v.sent[i]]
    BY <1>1
  <1>3. /\ v.sent[k] = [w.sent[k] EXCEPT !.answer = a]
        /\ \A i \in DOMAIN w.sent \ {k} : v.sent[i] = w.sent[i]
    BY <1>1
  <1> HIDE DEF v
  <1>4. IsSeq(v.sent) /\ DOMAIN v.sent = DOMAIN w.sent
    BY <1>2, Mapped DEF Formed
  <1>5. \A i \in DOMAIN w.sent : IsRequest(w.sent[i])
    BY DEF Formed
  <1>6. /\ IsRequest(v.sent[k]) /\ v.sent[k].answer = a
        /\ v.sent[k].from = w.sent[k].from
        /\ v.sent[k].method = w.sent[k].method
        /\ v.sent[k].about = w.sent[k].about
        /\ v.sent[k].kept = w.sent[k].kept
    BY <1>3, <1>5 DEF IsRequest
  <1>7. Reanswers(w, v)
    BY <1>1, <1>3, <1>4, <1>5, <1>6 DEF Reanswers
  <1>8. QED BY <1>3, <1>6, <1>7 DEF v

\* The oldest request without an answer is one of those sent.
LEMMA AskedIsSent ==
    ASSUME Formed(win), Asked # 0
    PROVE  Asked \in DOMAIN win.sent
  <1> DEFINE I == {i \in 1..Len(win.sent) : win.sent[i].answer = Null}
  <1>1. Len(win.sent) \in Nat /\ DOMAIN win.sent = 1..Len(win.sent)
    BY SeqPlaces DEF Formed
  <1>2. Asked = IF I # {} THEN Min(I) ELSE 0
    BY DEF Asked, SelectInSeq
  <1>3. I # {} /\ I \subseteq Nat
    BY <1>1, <1>2
  <1>4. \E n \in I : \A m \in I : n <= m
    <2> HIDE DEF I
    <2>1. QED BY <1>3, Least
  <1>5. Min(I) \in I
    <2> HIDE DEF I
    <2>1. QED BY <1>4 DEF Min
  <1>6. QED BY <1>1, <1>2, <1>3, <1>5

\* What answering a request does to the drivers.
LEMMA EffectFacts ==
    ASSUME CoreFormed(core), NEW q,
           q.from = "discard" /\ q.method = "task/resume" =>
               Flagged(core.driver, q.about)
    PROVE  /\ CoreFormed(Effect(q))
           /\ Grows(core.driver, Effect(q).driver)
           /\ Has(q) /\ q.method = "task/cancel" =>
                  Flagged(Effect(q).driver, q.about)
           /\ Has(q) /\ q.method = "task/resume" /\ Flagged(core.driver, q.about) =>
                  Ended(Effect(q).driver, q.about)
  <1> DEFINE d == core.driver
             c == Effect(q)
             t == q.about
  <1>1. CASE Has(q) /\ q.method = "task/cancel"
    <2>0. t \in DOMAIN d
      BY <1>1 DEF Has
    <2> DEFINE to == IF d[t] = "none" THEN "flagged"
                     ELSE IF d[t] = "running" THEN "ended" ELSE d[t]
    <2>1. c = [core EXCEPT !.driver[t] = to]
      BY <1>1 DEF Effect
    <2>2. to \in {"flagged", "ended", "cancelled"}
          /\ (d[t] \in {"ended", "cancelled"} => to = d[t])
      BY <2>0 DEF CoreFormed, Drivers
    <2> HIDE DEF to, c
    <2>3. /\ DOMAIN c = DOMAIN core /\ c.driver = [d EXCEPT ![t] = to]
          /\ c.revived = core.revived
      BY <2>1 DEF CoreFormed
    <2>4. CoreFormed(c)
      BY <2>2, <2>3 DEF CoreFormed, Drivers
    <2>5. Grows(d, c.driver) /\ Flagged(c.driver, t)
      BY <2>0, <2>2, <2>3 DEF Grows, Flagged, Ended
    <2>6. QED BY <1>1, <2>4, <2>5 DEF c
  <1>2. CASE Has(q) /\ q.method = "task/resume"
    <2>0. t \in DOMAIN d
      BY <1>2 DEF Has
    <2> DEFINE to == IF d[t] = "flagged" THEN "ended"
                     ELSE IF d[t] = "none" THEN "running" ELSE d[t]
               risen == IF q.from = "discard" /\ d[t] = "none"
                        THEN core.revived \cup {t} ELSE core.revived
    <2>1. c = [core EXCEPT !.driver[t] = to, !.revived = risen]
      BY <1>2 DEF Effect
    <2>2. /\ to \in Drivers
          /\ d[t] \in {"flagged", "ended", "cancelled"} => to \in {"ended", "cancelled"}
      BY <2>0 DEF CoreFormed, Drivers
    <2>3. risen = core.revived
      BY <1>2 DEF Flagged
    <2> HIDE DEF to, risen, c
    <2>4. /\ DOMAIN c = DOMAIN core /\ c.driver = [d EXCEPT ![t] = to]
          /\ c.revived = core.revived
      BY <2>1, <2>3 DEF CoreFormed
    <2>5. CoreFormed(c)
      BY <2>2, <2>4 DEF CoreFormed
    <2>6. Grows(d, c.driver) /\ (Flagged(d, t) => Ended(c.driver, t))
      BY <2>0, <2>2, <2>4 DEF Grows, Flagged, Ended
    <2>7. QED BY <1>2, <2>5, <2>6 DEF c
  <1>3. CASE ~(Has(q) /\ q.method \in {"task/cancel", "task/resume"})
    <2>1. /\ DOMAIN core \subseteq DOMAIN c
          /\ c.driver = core.driver /\ c.revived = core.revived
      <3>1. CASE q.method = "model/remove"
        BY <3>1 DEF Effect, CoreFormed
      <3>2. CASE q.method = "task/create"
        BY <3>2 DEF Effect, CoreFormed
      <3>3. CASE q.method \notin {"model/remove", "task/create"}
        <4>1. c = core BY <1>3, <3>3 DEF Effect
        <4>2. QED BY <4>1
      <3>4. QED BY <3>1, <3>2, <3>3
    <2> HIDE DEF c
    <2>2. CoreFormed(c) /\ Grows(d, c.driver)
      BY <2>1 DEF CoreFormed, Grows
    <2>3. QED BY <1>3, <2>2 DEF c
  <1>4. QED BY <1>1, <1>2, <1>3

-----------------------------------------------------------------------------
(***************************************************************************)
(* The steps.                                                              *)
(***************************************************************************)
\* supervisor.open.
LEMMA OpenKept ==
    ASSUME NEW w, NEW d, Tight(w, d)
    PROVE  Tight(Open(w), d)
  <1> DEFINE v == [w EXCEPT !.conn = "connecting"]
  <1>1. Fields \subseteq DOMAIN w
    BY DEF Tight, Loose, Formed
  <1>2. /\ Fields \subseteq DOMAIN v
        /\ \A f \in Fields \ {"lists", "conn", "caps", "alive"} : v[f] = w[f]
    BY <1>1 DEF Fields
  <1> HIDE DEF v
  <1>3. Tight(SupervisorChanged(v), d)
    BY <1>2, ConnKept
  <1>4. Tight(Send(SupervisorChanged(v), "session", "session/open", Null, Null), d)
    BY <1>3, SendKept DEF Others
  <1>5. QED BY <1>4 DEF Open, v

\* A batch, an empty store: any store the listeners hear of.
LEMMA StoreKept ==
    ASSUME NEW w, NEW d, Loose(w, d), NEW s
    PROVE  Tight(StoreChanged([w EXCEPT !.store = s]), d)
  <1> DEFINE v == [w EXCEPT !.store = s]
  <1>1. /\ Fields \subseteq DOMAIN v
        /\ \A f \in Fields \ {"store"} : v[f] = w[f]
    BY DEF Loose, Formed, Fields
  <1> HIDE DEF v
  <1>2. /\ v.sent = w.sent /\ v.dialogs = w.dialogs
        /\ v.badges = w.badges /\ v.panels = w.panels
    BY <1>1 DEF Fields
  <1>3. Loose(v, d) BY <1>1, <1>2, AsideKept
  <1>4. QED BY <1>3, StoreHeard DEF v

\* A panel is opened or closed.
LEMMA OpenedKept ==
    ASSUME NEW w, NEW d, Loose(w, d), NEW b \in BOOLEAN
    PROVE  /\ Loose([w EXCEPT !.panels.open = b], d)
           /\ ~b => Tight([w EXCEPT !.panels.open = b], d)
  <1> DEFINE v == [w EXCEPT !.panels.open = b]
             p == w.panels
  <1>0. Formed(w) /\ Discards(w, d) /\ Badged(w) /\ Fetched(w)
    BY DEF Loose
  <1>1. /\ Fields \subseteq DOMAIN v
        /\ \A f \in Fields \ {"panels"} : v[f] = w[f]
        /\ DOMAIN v.panels = DOMAIN p
        /\ \A f \in DOMAIN p \ {"open"} : v.panels[f] = p[f]
        /\ v.panels.open = b
    BY <1>0 DEF Formed, Fields
  <1> HIDE DEF v
  <1>2. Sends(w, v, "none") /\ v.dialogs = w.dialogs
        /\ v.badges = w.badges /\ v.sent = w.sent
    BY <1>1 DEF Sends, Fields
  <1>3. /\ v.panels.next = p.next /\ v.panels.data = p.data
        /\ v.panels.fetching = p.fetching
        /\ v.panels.failed = p.failed /\ v.panels.cold = p.cold
    BY <1>0, <1>1 DEF Formed
  <1>4. Formed(v)
    BY <1>0, <1>1, <1>2, <1>3 DEF Formed
  <1>5. Discards(v, d) /\ Badged(v)
    BY <1>0, <1>2, DiscardsKept, BadgedKept
  <1>6. Fetched(v)
    BY <1>0, <1>2, <1>3 DEF Fetched, PanelSent, From
  <1>7. ~b => InFocus(v)
    BY <1>1 DEF InFocus
  <1>8. QED BY <1>4, <1>5, <1>6, <1>7 DEF Tight, Loose, v

\* A window before its session is opened.
LEMMA StartTight ==
    ASSUME NEW d
    PROVE  Tight(WindowStart, d)
  <1> DEFINE w == WindowStart
  <1>2. Formed(w)
    <2>1. IsSeq(<<>>) BY DEF IsSeq
    <2>2. QED BY <2>1, NothingKnown DEF WindowStart, Formed, Fields
  <1>3. From(w, "badges") = {} /\ From(w, "panels") = {}
    BY DEF WindowStart, From
  <1>4. Discards(w, d)
    BY DEF WindowStart, Discards
  <1>5. Badged(w)
    <2>1. AllOf(w.badges.byPath, w.badges.lastTaskId)
      BY DEF WindowStart, AllOf
    <2>2. QED BY <1>3, <2>1 DEF Badged, BadgesSent
  <1>6. Fetched(w)
    <2>1. /\ ~w.panels.fetching /\ w.panels.data = NoData(Null)
          /\ w.panels.next = NoData(Null)
      BY DEF WindowStart
    <2>2. QED BY <1>3, <2>1, NothingKnown DEF Fetched
  <1>7. InFocus(w)
    BY DEF WindowStart, InFocus
  <1>8. QED BY <1>2, <1>4, <1>5, <1>6, <1>7 DEF Tight, Loose

\* A window that has just been opened.
LEMMA InitInv == Init => IInv
  <1> SUFFICES ASSUME Init PROVE IInv
    OBVIOUS
  <1>1. CoreFormed(core)
    BY DEF Init, CoreStart, CoreFormed, Drivers
  <1>2. Tight(Open(WindowStart), core.driver)
    BY StartTight, OpenKept
  <1>3. QED BY <1>1, <1>2 DEF Init, IInv

\* Core tells an event, or ends a task that was cancelled.
LEMMA TellsStep ==
    ASSUME IInv, NEW s, Emit(s) \/ Cancels(s)
    PROVE  IInv'
  <1>0. CoreFormed(core) /\ Tight(win, core.driver)
    BY DEF IInv
  <1>1. CASE Emit(s)
    <2>1. /\ DOMAIN core \subseteq DOMAIN core' /\ win' = win
          /\ core'.driver = core.driver /\ core'.revived = core.revived
      BY <1>0, <1>1 DEF Emit, CoreFormed
    <2>2. CoreFormed(core')
      BY <1>0, <2>1 DEF CoreFormed
    <2>3. QED BY <1>0, <2>1, <2>2 DEF IInv
  <1>2. CASE Cancels(s)
    <2>1. /\ DOMAIN core \subseteq DOMAIN core' /\ win' = win
          /\ core'.driver = [core.driver EXCEPT ![s] = "cancelled"]
          /\ core'.revived = core.revived /\ core.driver[s] = "ended"
      BY <1>0, <1>2 DEF Cancels, CoreFormed
    <2>2. CoreFormed(core')
      BY <1>0, <2>1 DEF CoreFormed, Drivers
    <2>3. Grows(core.driver, core'.driver)
      BY <2>1 DEF Grows, Flagged, Ended
    <2>4. Reanswers(win, win)
      BY <1>0 DEF Reanswers, Tight, Loose, Formed
    <2>5. Tight(win, core'.driver)
      BY <1>0, <2>3, <2>4, Reanswered
    <2>6. QED BY <2>1, <2>2, <2>5 DEF IInv
  <1>3. QED BY <1>1, <1>2

\* Core answers the oldest request.
LEMMA AnswerStep ==
    ASSUME IInv, Answer
    PROVE  IInv'
  <1> DEFINE k == Asked
             q == win.sent[k]
             a == Reply(q)
             v == [win EXCEPT !.sent[k].answer = a]
             d == core.driver
  <1>0. CoreFormed(core) /\ Tight(win, d) /\ Formed(win)
    BY DEF IInv, Tight, Loose
  <1>1. k \in DOMAIN win.sent /\ win' = v /\ core' = Effect(q)
    BY <1>0, AskedIsSent DEF Answer
  <1>2. /\ Reanswers(win, v) /\ v.sent[k].answer = a
        /\ \A i \in DOMAIN win.sent \ {k} : v.sent[i] = win.sent[i]
    BY <1>0, <1>1, OneAnswer
  <1>3. q.from = "discard" => DiscardSent(win, q, d)
    BY <1>0, <1>1 DEF Tight, Loose, Discards
  <1>4. q.from = "discard" /\ q.method = "task/resume" => Flagged(d, q.about)
    BY <1>3 DEF DiscardSent
  <1> HIDE DEF k, q, a, v
  <1>5. /\ CoreFormed(core') /\ Grows(d, core'.driver)
        /\ Has(q) /\ q.method = "task/cancel" => Flagged(core'.driver, q.about)
        /\ Has(q) /\ q.method = "task/resume" /\ Flagged(d, q.about) =>
               Ended(core'.driver, q.about)
    BY <1>0, <1>1, <1>4, EffectFacts
  <1>6. /\ v.sent[k].from = q.from /\ v.sent[k].method = q.method
        /\ v.sent[k].about = q.about
    BY <1>1, <1>2 DEF Reanswers, q
  <1>7. /\ Has(q) => a.ok /\ a.result = Result(q)
        /\ ~Has(q) => ~a.ok /\ a.result = Null
    BY DEF a, Reply, Failure
  <1>8. Fits(v.sent[k], core'.driver)
    <2>1. q.from = "badges" /\ a.ok => AllOf(a.result, q.about)
      <3>1. SUFFICES ASSUME q.from = "badges", a.ok PROVE AllOf(a.result, q.about)
        OBVIOUS
      <3>2. q.method = "ledger/changes"
        BY <1>0, <1>1, <3>1 DEF Tight, Loose, Badged, BadgesSent, From, q
      <3>3. a.result = LedgerOf(q.about)
        BY <1>7, <3>1, <3>2 DEF Result
      <3>4. QED BY <3>3 DEF LedgerOf, AllOf
    <2>2. q.from = "panels" =>
              IF ~a.ok THEN a.result = Null
              ELSE IF q.method = "task/report" THEN a.result = q.about
              ELSE AllOf(a.result, q.about)
      <3>1. SUFFICES ASSUME q.from = "panels"
                     PROVE  IF ~a.ok THEN a.result = Null
                            ELSE IF q.method = "task/report"
                                 THEN a.result = q.about
                            ELSE AllOf(a.result, q.about)
        OBVIOUS
      <3>2. q.method \in {"task/report", "ledger/changes"}
        BY <1>0, <1>1, <3>1 DEF Tight, Loose, Fetched, PanelSent, From, q
      <3>3. Has(q)
        BY <3>2 DEF Has
      <3>4. CASE q.method = "task/report"
        BY <1>7, <3>3, <3>4 DEF Result
      <3>5. CASE q.method = "ledger/changes"
        <4>1. a.result = LedgerOf(q.about)
          BY <1>7, <3>3, <3>5 DEF Result
        <4>2. AllOf(a.result, q.about)
          BY <4>1 DEF LedgerOf, AllOf
        <4>3. QED BY <1>7, <3>3, <3>5, <4>2
      <3>6. QED BY <3>2, <3>4, <3>5
    <2>3. q.from = "discard" /\ a.ok =>
              /\ Flagged(core'.driver, q.about)
              /\ q.method = "task/resume" => Ended(core'.driver, q.about)
      BY <1>3, <1>4, <1>5, <1>7 DEF DiscardSent, Grows
    <2>4. QED BY <1>2, <1>6, <2>1, <2>2, <2>3 DEF Fits, Granted
  <1>9. \A i \in DOMAIN win.sent : \/ v.sent[i].answer = win.sent[i].answer
                                   \/ Fits(v.sent[i], core'.driver)
    BY <1>2, <1>8
  <1>10. Tight(v, core'.driver)
    BY <1>0, <1>2, <1>5, <1>9, Reanswered
  <1>11. QED BY <1>1, <1>5, <1>10 DEF IInv

\* A request fails, or all of them do.
LEMMA Failing ==
    ASSUME Formed(win), Fail \/ HostExits
    PROVE  /\ Reanswers(win, win') /\ core' = core
           /\ scn' = scn /\ journal' = journal
           /\ \A i \in DOMAIN win.sent : \/ win'.sent[i].answer = win.sent[i].answer
                                         \/ win'.sent[i].answer = Failure
  <1>1. CASE Fail
    <2> DEFINE k == Asked
               v == [win EXCEPT !.sent[k].answer = Failure]
    <2>1. /\ k \in DOMAIN win.sent /\ win' = v /\ core' = core
          /\ scn' = scn /\ journal' = journal
      BY <1>1, AskedIsSent DEF Fail
    <2>2. /\ Reanswers(win, v) /\ v.sent[k].answer = Failure
          /\ \A i \in DOMAIN win.sent \ {k} : v.sent[i] = win.sent[i]
      BY <2>1, OneAnswer
    <2> HIDE DEF k, v
    <2>3. QED BY <2>1, <2>2
  <1>2. CASE HostExits
    <2> DEFINE v == win'
    <2>1. /\ Fields \subseteq DOMAIN v
          /\ \A f \in Fields \ {"sent", "alive"} : v[f] = win[f]
          /\ v.sent = [i \in DOMAIN win.sent |->
                          [win.sent[i] EXCEPT !.answer = Failure]]
          /\ core' = core /\ scn' = scn /\ journal' = journal
      BY <1>2 DEF HostExits, Formed, Fields
    <2>2. v.sent = [i \in DOMAIN win.sent |-> v.sent[i]]
      BY <2>1
    <2>3. \A i \in DOMAIN win.sent :
              /\ IsRequest(v.sent[i]) /\ v.sent[i].answer = Failure
              /\ v.sent[i].from = win.sent[i].from
              /\ v.sent[i].method = win.sent[i].method
              /\ v.sent[i].about = win.sent[i].about
              /\ v.sent[i].kept = win.sent[i].kept
      <3>1. SUFFICES ASSUME NEW i \in DOMAIN win.sent
                     PROVE  /\ IsRequest(v.sent[i]) /\ v.sent[i].answer = Failure
                            /\ v.sent[i].from = win.sent[i].from
                            /\ v.sent[i].method = win.sent[i].method
                            /\ v.sent[i].about = win.sent[i].about
                            /\ v.sent[i].kept = win.sent[i].kept
        OBVIOUS
      <3>2. v.sent[i] = [win.sent[i] EXCEPT !.answer = Failure]
        BY <2>1
      <3>3. IsRequest(win.sent[i])
        BY DEF Formed
      <3> HIDE DEF v
      <3>4. QED BY <3>2, <3>3 DEF IsRequest
    <2> HIDE DEF v
    <2>4. IsSeq(v.sent) /\ DOMAIN v.sent = DOMAIN win.sent
      BY <2>2, Mapped DEF Formed
    <2>5. Reanswers(win, v)
      BY <2>1, <2>3, <2>4 DEF Reanswers
    <2>6. QED BY <2>1, <2>3, <2>5 DEF v
  <1>3. QED BY <1>1, <1>2

\* Requests fail, one or all of them.
LEMMA FailStep ==
    ASSUME IInv, Fail \/ HostExits
    PROVE  IInv'
  <1> DEFINE d == core.driver
             v == win'
  <1>0. CoreFormed(core) /\ Tight(win, d) /\ Formed(win)
    BY DEF IInv, Tight, Loose
  <1>1. Grows(d, d)
    BY DEF Grows
  <1>2. ASSUME NEW q, q.answer = Failure PROVE Fits(q, d)
    BY <1>2 DEF Fits, Failure, Granted
  <1> HIDE DEF v
  <1>3. /\ Reanswers(win, v) /\ core' = core
        /\ \A i \in DOMAIN win.sent : \/ v.sent[i].answer = win.sent[i].answer
                                      \/ v.sent[i].answer = Failure
    BY <1>0, Failing DEF v
  <1>4. Tight(v, d)
    BY <1>0, <1>1, <1>2, <1>3, Reanswered
  <1>5. QED BY <1>0, <1>3, <1>4 DEF IInv, v

\* The window takes the oldest answer.
LEMMA TakeStep ==
    ASSUME IInv, Take
    PROVE  IInv'
  <1>1. CoreFormed(core) /\ Tight(win, core.driver)
    BY DEF IInv
  <1>2. /\ 1 \in DOMAIN win.sent /\ win.sent[1].answer # Null
        /\ win' = Taken(Rest(win), win.sent[1]) /\ core' = core
    BY DEF Take, NextAnswered, Rest
  <1>3. Tight(Taken(Rest(win), win.sent[1]), core.driver)
    BY <1>1, <1>2, AnswerTaken
  <1>4. QED BY <1>1, <1>2, <1>3 DEF IInv

\* core/connectionState: the store's listeners, then the supervisor's.
LEMMA ConnectedKept ==
    ASSUME NEW w, NEW d, Tight(w, d), NEW s
    PROVE  Tight(Connected(w, s), d)
  <1> DEFINE told == StoreChanged([w EXCEPT !.store = setConnection(w.store, s)])
             v == [told EXCEPT !.conn = s]
  <1>1. Tight(told, d)
    BY StoreKept DEF Tight
  <1>2. Connected(w, s) = IF told.conn = s THEN told ELSE SupervisorChanged(v)
    BY DEF Connected
  <1> HIDE DEF told
  <1>3. Fields \subseteq DOMAIN told
    BY <1>1 DEF Tight, Loose, Formed
  <1>4. /\ Fields \subseteq DOMAIN v
        /\ \A f \in Fields \ {"lists", "conn", "caps", "alive"} : v[f] = told[f]
    BY <1>3 DEF Fields
  <1> HIDE DEF v
  <1>5. Tight(SupervisorChanged(v), d)
    BY <1>1, <1>4, ConnKept
  <1>6. QED BY <1>1, <1>2, <1>5

\* A batch comes, the connection changes, or the host is started again.
LEMMA HostStep ==
    ASSUME IInv,
           \/ \E first, last : Deliver(first, last)
           \/ \E s : ConnectionState(s)
           \/ Respawn
    PROVE  IInv'
  <1> DEFINE d == core.driver
  <1>0. CoreFormed(core) /\ Tight(win, d) /\ Loose(win, d)
    BY DEF IInv, Tight
  <1>1. ASSUME NEW first, NEW last, Deliver(first, last) PROVE IInv'
    <2> DEFINE s == applyBatch(win.store, SubSeq(journal, first, last))
    <2>1. win' = StoreChanged([win EXCEPT !.store = s]) /\ core' = core
      BY <1>1 DEF Deliver
    <2> HIDE DEF s
    <2>2. Tight(StoreChanged([win EXCEPT !.store = s]), d)
      BY <1>0, StoreKept
    <2>3. QED BY <1>0, <2>1, <2>2 DEF IInv
  <1>2. ASSUME NEW s, ConnectionState(s) PROVE IInv'
    <2>1. win' = Connected(win, s) /\ core' = core
      BY <1>2 DEF ConnectionState
    <2>2. QED BY <1>0, <2>1, ConnectedKept DEF IInv
  <1>3. CASE Respawn
    <2> DEFINE v == [win EXCEPT !.alive = TRUE]
    <2>1. win' = Open(v) /\ core' = core
      BY <1>3 DEF Respawn
    <2>2. /\ Fields \subseteq DOMAIN v
          /\ \A f \in Fields \ {"lists", "conn", "caps", "alive"} : v[f] = win[f]
      BY <1>0 DEF Loose, Formed, Fields
    <2> HIDE DEF v
    <2>3. Tight(Open(v), d)
      BY <1>0, <2>2, BesideKept, OpenKept
    <2>4. QED BY <1>0, <2>1, <2>3 DEF IInv
  <1>4. QED BY <1>1, <1>2, <1>3

\* valyria.openWorkspace.
LEMMA OpenWorkspaceStep ==
    ASSUME IInv, OpenWorkspace
    PROVE  IInv'
  <1> DEFINE d == core.driver
             dropped == StoreChanged([win EXCEPT !.store = emptyStore])
             cleared == IF dropped.pinned = Null THEN dropped
                        ELSE FocusChanged([dropped EXCEPT !.pinned = Null])
             v == [cleared EXCEPT !.prompted = FALSE]
  <1>1. CoreFormed(core) /\ Tight(win, d) /\ Loose(win, d)
    BY DEF IInv, Tight
  <1>2. Tight(dropped, d)
    BY <1>1, StoreKept
  <1>3. Tight(cleared, d)
    <2> HIDE DEF dropped
    <2>1. Tight(FocusChanged([dropped EXCEPT !.pinned = Null]), d)
      BY <1>2, PinKept DEF Tight
    <2>2. QED BY <1>2, <2>1
  <1>4. win' = Open(v) /\ core' = core
    BY DEF OpenWorkspace, Acts
  <1> HIDE DEF cleared
  <1>5. Fields \subseteq DOMAIN cleared
    BY <1>3 DEF Tight, Loose, Formed
  <1>6. /\ Fields \subseteq DOMAIN v
        /\ \A f \in Fields \ {"prompted"} : v[f] = cleared[f]
    BY <1>5 DEF Fields
  <1> HIDE DEF v
  <1>7. /\ v.sent = cleared.sent /\ v.dialogs = cleared.dialogs
        /\ v.badges = cleared.badges /\ v.panels = cleared.panels
        /\ v.store = cleared.store /\ v.pinned = cleared.pinned
    BY <1>6 DEF Fields
  <1>8. Tight(v, d)
    BY <1>3, <1>6, <1>7, AsideKept DEF Tight
  <1>9. QED BY <1>1, <1>4, <1>8, OpenKept DEF IInv

\* The user pins a task, opens, refreshes or closes a panel.
LEMMA PanelStep ==
    ASSUME IInv,
           (\E t : Pin(t)) \/ OpenPanel \/ ClosePanel \/ RefreshSurface
    PROVE  IInv'
  <1> DEFINE d == core.driver
  <1>0. CoreFormed(core) /\ Tight(win, d) /\ Loose(win, d)
    BY DEF IInv, Tight
  <1>1. ASSUME NEW t, Pin(t) PROVE IInv'
    <2>1. win' = FocusChanged([win EXCEPT !.pinned = t]) /\ core' = core
      BY <1>1 DEF Pin, Acts
    <2>2. QED BY <1>0, <2>1, PinKept DEF IInv
  <1>2. CASE OpenPanel
    <2> DEFINE v == [win EXCEPT !.panels.open = TRUE]
    <2>1. win' = RefreshPanels(v, TRUE) /\ core' = core
      BY <1>2 DEF OpenPanel, Acts
    <2>2. Loose(v, d)
      BY <1>0, OpenedKept
    <2> HIDE DEF v
    <2>3. QED BY <1>0, <2>1, <2>2, PanelsRefreshed DEF IInv
  <1>3. CASE ClosePanel
    <2>1. win' = [win EXCEPT !.panels.open = FALSE] /\ core' = core
      BY <1>3 DEF ClosePanel, Acts
    <2>2. QED BY <1>0, <2>1, OpenedKept DEF IInv
  <1>4. CASE RefreshSurface
    <2>1. win' = RefreshPanels(win, TRUE) /\ core' = core
      BY <1>4 DEF RefreshSurface, Acts
    <2>2. QED BY <1>0, <2>1, PanelsRefreshed DEF IInv
  <1>5. QED BY <1>1, <1>2, <1>3, <1>4

\* The user creates a task, or works in a model view.
LEMMA ViewStep ==
    ASSUME IInv,
           \/ \E t : CreateTask(t)
           \/ \E r \in {"models", "picker"} : ResolveView(r)
           \/ \E id : RemoveModel(id)
           \/ RefreshModels
    PROVE  IInv'
  <1> DEFINE d == core.driver
  <1>0. CoreFormed(core) /\ Tight(win, d) /\ Formed(win)
    BY DEF IInv, Tight, Loose
  <1>1. ASSUME NEW t, CreateTask(t) PROVE IInv'
    <2>1. win' = Send(win, "create", "task/create", t, Null) /\ core' = core
      BY <1>1 DEF CreateTask, Acts
    <2>2. QED BY <1>0, <2>1, SendKept DEF IInv, Others
  <1>2. ASSUME NEW r \in {"models", "picker"}, ResolveView(r) PROVE IInv'
    <2> DEFINE v == [win EXCEPT !.lists[r].wired = TRUE]
    <2>1. win' = RefreshList(v, r) /\ core' = core
      BY <1>2 DEF ResolveView, Acts
    <2>2. /\ Fields \subseteq DOMAIN v
          /\ \A f \in Fields \ {"lists", "conn", "caps", "alive"} : v[f] = win[f]
      BY <1>0 DEF Formed, Fields
    <2> HIDE DEF v
    <2>3. Tight(RefreshList(v, r), d)
      BY <1>0, <2>2, BesideKept, ListRefreshed DEF Readers
    <2>4. QED BY <1>0, <2>1, <2>3 DEF IInv
  <1>3. ASSUME NEW id, RemoveModel(id) PROVE IInv'
    <2>1. win' = Send(win, "removal", "model/remove", id, Null) /\ core' = core
      BY <1>3 DEF RemoveModel, Acts
    <2>2. QED BY <1>0, <2>1, SendKept DEF IInv, Others
  <1>4. CASE RefreshModels
    <2>1. win' = RefreshList(win, "models") /\ core' = core
      BY <1>4 DEF RefreshModels, Acts
    <2>2. QED BY <1>0, <2>1, ListRefreshed DEF IInv, Readers
  <1>5. QED BY <1>1, <1>2, <1>3, <1>4

\* The user answers a resume prompt.
LEMMA DialogStep ==
    ASSUME IInv, NEW i \in DOMAIN win.dialogs,
           (\E choice : Pick(i, choice)) \/ ConfirmDiscard(i)
    PROVE  IInv'
  <1> DEFINE d == core.driver
             t == win.dialogs[i].task
             Becomes(stage) == [win EXCEPT !.dialogs[i].stage = stage]
  <1>0. CoreFormed(core) /\ Tight(win, d)
    BY DEF IInv
  <1>1. ASSUME NEW stage, stage # "discarded"
        PROVE  /\ Tight(Becomes(stage), d)
               /\ i \in DOMAIN Becomes(stage).dialogs
               /\ Becomes(stage).dialogs[i].task = t
    BY <1>0, <1>1, StageKept
  <1>2. ASSUME NEW choice, Pick(i, choice) PROVE IInv'
    <2>1. CASE choice = "Resume"
      <3> DEFINE v == Becomes("resumed")
      <3>1. win' = Send(v, "prompt", "task/resume", t, Null) /\ core' = core
        BY <1>2, <2>1 DEF Pick, Acts
      <3>2. Tight(v, d) BY <1>1
      <3> HIDE DEF v
      <3>3. Tight(Send(v, "prompt", "task/resume", t, Null), d)
        BY <3>2, SendKept DEF Others
      <3>4. QED BY <1>0, <3>1, <3>3 DEF IInv
    <2>2. CASE choice = "Inspect"
      <3> DEFINE v == Becomes("closed")
      <3>1. win' = FocusChanged([v EXCEPT !.pinned = t]) /\ core' = core
        BY <1>2, <2>2 DEF Pick, Acts
      <3>2. Loose(v, d) BY <1>1 DEF Tight
      <3> HIDE DEF v
      <3>3. QED BY <1>0, <3>1, <3>2, PinKept DEF IInv
    <2>3. CASE choice = "Discard"
      <3>1. win' = Becomes("sure") /\ core' = core
        BY <1>2, <2>3 DEF Pick, Acts
      <3>2. QED BY <1>0, <1>1, <3>1 DEF IInv
    <2>4. CASE choice \notin {"Resume", "Inspect", "Discard"}
      <3>1. win' = Becomes("closed") /\ core' = core
        BY <1>2, <2>4 DEF Pick, Acts
      <3>2. QED BY <1>0, <1>1, <3>1 DEF IInv
    <2>5. QED BY <2>1, <2>2, <2>3, <2>4
  <1>3. CASE ConfirmDiscard(i)
    <2> DEFINE v == Becomes("discarding")
    <2>1. win' = Send(v, "discard", "task/cancel", t, i) /\ core' = core
      BY <1>3 DEF ConfirmDiscard, Acts
    <2>2. /\ Tight(v, d) /\ i \in DOMAIN v.dialogs /\ v.dialogs[i].task = t
      BY <1>1
    <2> HIDE DEF v, t, d
    <2>3. Tight(Send(v, "discard", "task/cancel", t, i), d)
      BY <2>2, DiscardSends
    <2>4. QED BY <1>0, <2>1, <2>3 DEF IInv, d
  <1>4. QED BY <1>2, <1>3

\* Every step keeps the invariant.
LEMMA StepInv == IInv /\ [Next]_vars => IInv'
  <1> SUFFICES ASSUME IInv, [Next]_vars PROVE IInv'
    OBVIOUS
  <1>1. ASSUME NEW s, Emit(s) \/ Cancels(s) PROVE IInv'
    BY <1>1, TellsStep
  <1>2. CASE Answer BY <1>2, AnswerStep
  <1>3. CASE Fail \/ HostExits BY <1>3, FailStep
  <1>4. CASE Take BY <1>4, TakeStep
  <1>5. CASE \/ \E first, last : Deliver(first, last)
             \/ \E s : ConnectionState(s)
             \/ Respawn
    BY <1>5, HostStep
  <1>6. CASE OpenWorkspace BY <1>6, OpenWorkspaceStep
  <1>7. CASE (\E t : Pin(t)) \/ OpenPanel \/ ClosePanel \/ RefreshSurface
    BY <1>7, PanelStep
  <1>8. CASE \/ \E t : CreateTask(t)
             \/ \E r \in {"models", "picker"} : ResolveView(r)
             \/ \E id : RemoveModel(id)
             \/ RefreshModels
    BY <1>8, ViewStep
  <1>9. ASSUME NEW i \in DOMAIN win.dialogs,
               (\E choice : Pick(i, choice)) \/ ConfirmDiscard(i)
        PROVE  IInv'
    BY <1>9, DialogStep
  <1>10. CASE UNCHANGED vars
    BY <1>10 DEF vars, IInv
  <1>11. QED
    BY <1>1, <1>2, <1>3, <1>4, <1>5, <1>6, <1>7, <1>8, <1>9, <1>10 DEF Next

\* The invariant holds in every state.
LEMMA Inductive == Spec => []IInv
  BY InitInv, StepInv, PTL DEF Spec

-----------------------------------------------------------------------------
(***************************************************************************)
(* The store.                                                              *)
(***************************************************************************)
\* A set of naturals up to n has a greatest member.
LEMMA Greatest ==
    ASSUME NEW n \in Nat, NEW S, S \subseteq 0 .. n, S # {}
    PROVE  \E k \in S : \A j \in S : j <= k
  <1> DEFINE T == {m \in 0 .. n : n - m \in S}
  <1>1. T \subseteq Nat /\ T # {}
    <2>1. PICK k \in S : TRUE OBVIOUS
    <2>2. n - k \in 0 .. n /\ n - (n - k) = k OBVIOUS
    <2>3. n - k \in T BY <2>2
    <2>4. T \subseteq Nat OBVIOUS
    <2> HIDE DEF T
    <2>5. QED BY <2>3, <2>4
  <1>2. PICK m \in T : \A x \in T : m <= x
    <2> HIDE DEF T
    <2>1. QED BY <1>1, Least
  <1>3. ASSUME NEW j \in S PROVE j <= n - m
    <2>1. n - j \in 0 .. n /\ n - (n - j) = j OBVIOUS
    <2>2. m <= n - j BY <1>2, <2>1
    <2>3. QED BY <2>2
  <1>4. QED BY <1>2, <1>3

\* The most recently touched of some keys is one of them.
LEMMA MostRecentIsKey ==
    ASSUME NEW f, NEW n \in Nat, Touched(f, n),
           NEW keys, keys \subseteq DOMAIN f, keys # {}
    PROVE  MostRecent(f, keys) \in keys
  <1> DEFINE S == {f[k].lastSeq : k \in keys}
  <1>1. S \subseteq 0 .. n /\ S # {}
    BY DEF Touched
  <1>2. PICK m \in S : \A j \in S : j <= m
    <2> HIDE DEF S
    <2>1. QED BY <1>1, Greatest
  <1>3. \E k \in keys : \A j \in keys : f[j].lastSeq <= f[k].lastSeq
    BY <1>2
  <1>4. QED BY <1>3 DEF MostRecent

\* What the surfaces focus is a task the store has, if it has any.
LEMMA FocusKnown ==
    ASSUME NEW st, NEW J \in Nat, NEW T, Heard(st, J, T), NEW pinned,
           resolveFocus(st, pinned) # Null
    PROVE  resolveFocus(st, pinned) \in DOMAIN st.tasks
  <1>1. st.lastSeq \in Nat /\ Touched(st.tasks, st.lastSeq)
    BY DEF Heard
  <1>2. CASE pinned # Null /\ pinned \in DOMAIN st.tasks
    BY <1>2 DEF resolveFocus
  <1>3. CASE ~(pinned # Null /\ pinned \in DOMAIN st.tasks)
    <2>1. resolveFocus(st, pinned) = MostRecent(st.tasks, DOMAIN st.tasks)
      BY <1>3 DEF resolveFocus, currentTask
    <2>2. DOMAIN st.tasks # {}
      BY <2>1 DEF MostRecent
    <2>3. QED BY <1>1, <2>1, <2>2, MostRecentIsKey
  <1>4. QED BY <1>2, <1>3

\* The event a reader waits for is one the store has heard.
LEMMA LastTerminalHeard ==
    ASSUME NEW st, NEW J \in Nat, NEW T, Heard(st, J, T), NEW r
    PROVE  LastTerminal(st, r) \in 0 .. J
  <1> DEFINE installs == IF r = "picker" THEN <<>> ELSE st.modelInstalls
             ended == {installs[m].lastSeq : m \in
                          {k \in DOMAIN installs : installs[k].status # "running"}}
             settled == {st.modelServers[s].lastSeq : s \in
                            {k \in DOMAIN st.modelServers :
                                 st.modelServers[k].state # "starting"}}
             S == {0} \cup ended \cup settled
  <1>1. /\ st.lastSeq \in 0 .. J
        /\ Touched(installs, st.lastSeq) /\ Touched(st.modelServers, st.lastSeq)
    BY DEF Heard, Touched
  <1>2. ended \subseteq 0 .. J /\ settled \subseteq 0 .. J
    <2> HIDE DEF installs
    <2>1. QED BY <1>1 DEF Touched
  <1>3. LastTerminal(st, r) = CHOOSE n \in S : \A m \in ended \cup settled : m <= n
    BY DEF LastTerminal
  <1> HIDE DEF ended, settled
  <1>4. S \subseteq 0 .. J /\ S # {}
    BY <1>2
  <1>5. \E n \in S : \A m \in S : m <= n
    <2> HIDE DEF S
    <2>1. QED BY <1>4, Greatest
  <1>6. \E n \in S : \A m \in ended \cup settled : m <= n
    BY <1>5
  <1>7. LastTerminal(st, r) \in S
    <2> HIDE DEF S
    <2>1. QED BY <1>3, <1>6
  <1>8. QED BY <1>4, <1>7

\* A projection keeps what it had, and has the new entry.
LEMMA PutTouched ==
    ASSUME NEW f, NEW n \in Nat, NEW m \in Nat, n <= m, Touched(f, n),
           NEW k, NEW v, "lastSeq" \in DOMAIN v, v.lastSeq \in 0 .. m
    PROVE  Touched(Put(f, k, v), m)
  <1> DEFINE g == Put(f, k, v)
  <1>1. DOMAIN g = DOMAIN f \cup {k} /\ g[k] = v
        /\ \A x \in DOMAIN f \ {k} : g[x] = f[x]
    BY DEF Put
  <1> HIDE DEF g
  <1>2. \A x \in DOMAIN g : "lastSeq" \in DOMAIN g[x] /\ g[x].lastSeq \in 0 .. m
    BY <1>1 DEF Touched
  <1>3. QED BY <1>2 DEF Touched, g

\* A task is touched by its event, whatever it says.
LEMMA AdvancedTouched ==
    ASSUME NEW prev, prev = Null \/ "lastSeq" \in DOMAIN prev, NEW e
    PROVE  /\ "lastSeq" \in DOMAIN advanceTask(prev, e)
           /\ advanceTask(prev, e).lastSeq = e.seq
  <1> DEFINE base == IF prev = Null
                     THEN [state |-> "unknown", objective |-> Null,
                           firstSeenSeq |-> e.seq, lastSeq |-> e.seq,
                           terminal |-> FALSE]
                     ELSE prev
             touched == [base EXCEPT !.lastSeq = e.seq]
             Enter(s) == [touched EXCEPT !.state = s,
                                    !.terminal = @ \/ s \in TERMINAL_STATES]
             Named == [touched EXCEPT !.objective = Or(Field(e, "objective"), @)]
  <1>1. "lastSeq" \in DOMAIN base
    OBVIOUS
  <1> HIDE DEF base
  <1>2. "lastSeq" \in DOMAIN touched /\ touched.lastSeq = e.seq
    BY <1>1
  <1>3. advanceTask(prev, e) \in {touched, Named, Enter("completed"), Enter("failed"),
                                  Enter(normalizeState(Field(e, "to")))}
    BY DEF advanceTask, base
  <1> HIDE DEF touched
  <1>4. /\ DOMAIN Named = DOMAIN touched /\ Named.lastSeq = touched.lastSeq
        /\ \A s : /\ DOMAIN Enter(s) = DOMAIN touched
                  /\ Enter(s).lastSeq = touched.lastSeq
    BY <1>2
  <1>5. QED BY <1>2, <1>3, <1>4

-----------------------------------------------------------------------------
\* An event is decoded under its seq, about the task it names, if any.
LEMMA Decoded ==
    ASSUME NEW raw, NEW T, raw.taskId \in T \cup {Null}
    PROVE  /\ decodeEvent(raw).seq = raw.seq
           /\ decodeEvent(raw).taskId \in T \cup {Null}
  BY DEF decodeEvent

\* An install's entry is of the last event about it.
LEMMA InstallsTouched ==
    ASSUME NEW f, NEW n \in Nat, Touched(f, n), NEW e, e.seq \in Nat, n <= e.seq
    PROVE  Touched(foldModelInstall(f, e), e.seq)
  <1> DEFINE m == e.seq
             Entry(v) == "lastSeq" \in DOMAIN v /\ v.lastSeq = m
  <1>1. \A prev, status, phase, done, total :
            Entry(InstallEntry(prev, e, status, phase, done, total))
    BY DEF InstallEntry
  <1>2. \A prev : Entry(ProgressEntry(prev, e))
    BY <1>1 DEF ProgressEntry
  <1>3. \/ foldModelInstall(f, e) = f
        \/ \E v : Entry(v) /\ foldModelInstall(f, e) = Put(f, Field(e, "id"), v)
    <2> HIDE DEF Entry
    <2>1. QED BY <1>1, <1>2 DEF foldModelInstall
  <1>4. Touched(f, m)
    BY DEF Touched
  <1>5. ASSUME NEW v, Entry(v), foldModelInstall(f, e) = Put(f, Field(e, "id"), v)
        PROVE  Touched(foldModelInstall(f, e), m)
    <2>1. "lastSeq" \in DOMAIN v /\ v.lastSeq \in 0 .. m
      BY <1>5
    <2>2. QED BY <1>5, <2>1, PutTouched
  <1>6. QED BY <1>3, <1>4, <1>5

\* So is a server's.
LEMMA ServersTouched ==
    ASSUME NEW f, NEW n \in Nat, Touched(f, n), NEW e, e.seq \in Nat, n <= e.seq
    PROVE  Touched(foldModelServer(f, e), e.seq)
  <1> DEFINE m == e.seq
             Entry(v) == "lastSeq" \in DOMAIN v /\ v.lastSeq = m
  <1>1. \/ foldModelServer(f, e) = f
        \/ \E v : Entry(v) /\ foldModelServer(f, e) = Put(f, Field(e, "role"), v)
    BY DEF foldModelServer
  <1>2. Touched(f, m)
    BY DEF Touched
  <1>3. ASSUME NEW v, Entry(v), foldModelServer(f, e) = Put(f, Field(e, "role"), v)
        PROVE  Touched(foldModelServer(f, e), m)
    <2>1. "lastSeq" \in DOMAIN v /\ v.lastSeq \in 0 .. m
      BY <1>3
    <2>2. QED BY <1>3, <2>1, PutTouched
  <1>4. QED BY <1>1, <1>2, <1>3

\* applyDecoded: an event the store has not heard moves the cursor to its seq and
\* touches what it names.
LEMMA AppliedHeard ==
    ASSUME NEW st, NEW J \in Nat, NEW T, Heard(st, J, T),
           NEW raw, raw.seq \in 1 .. J, raw.taskId \in T \cup {Null}
    PROVE  Heard(applyDecoded(st, raw), J, T)
  <1> DEFINE e == decodeEvent(raw)
             n == st.lastSeq
             global == FoldGlobal(st, e)
             next == FoldTask(global, e)
  <1>1. e.seq = raw.seq /\ e.taskId \in T \cup {Null} /\ n \in 0 .. J
    BY Decoded DEF Heard
  <1>2. CASE e.seq < n + 1
    BY <1>2 DEF applyDecoded
  <1>3. CASE ~(e.seq < n + 1)
    <2> DEFINE m == e.seq
    <2>1. m \in 1 .. J /\ n <= m /\ n \in Nat /\ m \in Nat
      BY <1>1, <1>3
    <2>2. applyDecoded(st, raw) =
              [next EXCEPT !.lastSeq = m,
                           !.gapDetected = @ \/ m > n + 1,
                           !.events = Append(@, [seq |-> e.seq, kind |-> e.kind,
                                                 taskId |-> e.taskId,
                                                 payload |-> e.payload,
                                                 degraded |-> ~e.ok])]
      BY <1>3 DEF applyDecoded
    <2> HIDE DEF e
    <2>3. /\ DOMAIN global = DOMAIN st /\ global.tasks = st.tasks
          /\ Touched(global.modelInstalls, m) /\ Touched(global.modelServers, m)
      <3>1. Touched(foldModelInstall(st.modelInstalls, e), m)
            /\ Touched(foldModelServer(st.modelServers, e), m)
        BY <2>1, InstallsTouched, ServersTouched DEF Heard
      <3>2. Touched(st.modelInstalls, m) /\ Touched(st.modelServers, m)
        BY <2>1 DEF Heard, Touched
      <3>3. StoreFields \subseteq DOMAIN st BY DEF Heard
      <3>4. CASE ~e.ok BY <3>2, <3>4 DEF FoldGlobal
      <3>5. CASE e.ok
        <4>1. global = [st EXCEPT
                  !.modelInstalls  = foldModelInstall(st.modelInstalls, e),
                  !.engineInstalls = foldEngineInstall(st.engineInstalls, e),
                  !.modelServers   = foldModelServer(st.modelServers, e)]
          BY <3>5 DEF FoldGlobal
        <4>2. /\ DOMAIN global = DOMAIN st /\ global.tasks = st.tasks
              /\ global.modelInstalls = foldModelInstall(st.modelInstalls, e)
              /\ global.modelServers = foldModelServer(st.modelServers, e)
          BY <3>3, <4>1 DEF StoreFields, emptyStore
        <4>3. QED BY <3>1, <4>2
      <3>6. QED BY <3>4, <3>5
    <2> HIDE DEF global
    <2>4. /\ DOMAIN next = DOMAIN st
          /\ next.modelInstalls = global.modelInstalls
          /\ next.modelServers = global.modelServers
          /\ Touched(next.tasks, m) /\ DOMAIN next.tasks \subseteq T \ {Null}
      <3> DEFINE t == e.taskId
                 entry == advanceTask(Get(st.tasks, t), e)
      <3>1. Touched(st.tasks, n) /\ DOMAIN st.tasks \subseteq T \ {Null}
            /\ StoreFields \subseteq DOMAIN global
        BY <2>3 DEF Heard
      <3>2. Get(st.tasks, t) = Null \/ "lastSeq" \in DOMAIN Get(st.tasks, t)
        BY <3>1 DEF Get, Touched
      <3>3. "lastSeq" \in DOMAIN entry /\ entry.lastSeq = m
        BY <3>2, AdvancedTouched
      <3> HIDE DEF entry
      <3>4. Touched(Put(st.tasks, t, entry), m)
        BY <2>1, <3>1, <3>3, PutTouched
      <3>5. t # Null => DOMAIN Put(st.tasks, t, entry) \subseteq T \ {Null}
        BY <1>1, <3>1 DEF Put
      <3>6. CASE t = Null
        <4>1. next = global BY <3>6 DEF FoldTask
        <4>2. Touched(st.tasks, m) BY <2>1, <3>1 DEF Touched
        <4>3. QED BY <2>3, <3>1, <4>1, <4>2
      <3>7. CASE t # Null
        <4>1. /\ DOMAIN next = DOMAIN global
              /\ next.tasks = Put(st.tasks, t, entry)
              /\ next.modelInstalls = global.modelInstalls
              /\ next.modelServers = global.modelServers
          BY <2>3, <3>1, <3>7 DEF FoldTask, StoreFields, emptyStore, entry
        <4>2. QED BY <2>3, <3>4, <3>5, <3>7, <4>1
      <3>8. QED BY <3>6, <3>7
    <2> HIDE DEF next
    <2> DEFINE v == applyDecoded(st, raw)
    <2>5. StoreFields \subseteq DOMAIN next
      BY <2>4 DEF Heard
    <2>6. /\ DOMAIN v = DOMAIN next /\ v.lastSeq = m /\ v.tasks = next.tasks
          /\ v.modelInstalls = next.modelInstalls
          /\ v.modelServers = next.modelServers
      <3> HIDE DEF m
      <3>1. QED BY <2>2, <2>5 DEF StoreFields, emptyStore
    <2> HIDE DEF v
    <2>7. Heard(v, J, T)
      BY <2>1, <2>3, <2>4, <2>5, <2>6 DEF Heard
    <2>8. QED BY <2>7 DEF v
  <1>4. QED BY <1>2, <1>3

\* F is the recursive function of applyBatch.
Folds(F, st, raws, last) ==
    F = [n \in 0 .. last |-> IF n = 0 THEN st ELSE applyDecoded(F[n - 1], raws[n])]

\* It exists: it does for no event, and for the least batch without it, the batch
\* one event shorter has it.
LEMMA BatchFunction ==
    ASSUME NEW st, NEW raws, NEW last \in Nat
    PROVE  \E F : Folds(F, st, raws, last)
  <1> USE DEF Folds
  <1> DEFINE Known(b) == \E F : Folds(F, st, raws, b)
             Lacking == {b \in Nat : ~Known(b)}
  <1>1. SUFFICES ASSUME Lacking # {} PROVE FALSE
    <2>1. last \notin Lacking BY <1>1
    <2>2. QED BY <2>1
  <1>2. PICK b \in Lacking : \A c \in Lacking : b <= c
    <2>1. Lacking \subseteq Nat OBVIOUS
    <2> HIDE DEF Lacking
    <2>2. QED BY <1>1, <2>1, Least
  <1>3. b # 0
    <2>1. Known(0)
      <3> DEFINE F == [n \in 0 .. 0 |-> st]
      <3>1. F = [n \in 0 .. 0 |-> IF n = 0 THEN st
                                 ELSE applyDecoded(F[n - 1], raws[n])]
        OBVIOUS
      <3>2. QED BY <3>1
    <2>2. QED BY <2>1
  <1>4. b - 1 \in Nat /\ b - 1 \notin Lacking
    <2>1. b - 1 \in Nat BY <1>3
    <2>2. ~(b <= b - 1) OBVIOUS
    <2> HIDE DEF Lacking
    <2>3. QED BY <2>1, <2>2, <1>2
  <1>5. PICK F : F = [n \in 0 .. (b - 1) |-> IF n = 0 THEN st
                                          ELSE applyDecoded(F[n - 1], raws[n])]
    <2>1. Known(b - 1) BY <1>4
    <2>2. QED BY <2>1
  <1>6. Known(b)
    <2> DEFINE G == [n \in 0 .. b |-> IF n = b THEN applyDecoded(F[b - 1], raws[b])
                                    ELSE F[n]]
               H == [n \in 0 .. b |-> IF n = 0 THEN st
                                    ELSE applyDecoded(G[n - 1], raws[n])]
    <2>1. ASSUME NEW n \in 0 .. b PROVE G[n] = H[n]
      <3>1. CASE n = b
        <4>1. G[n - 1] = F[b - 1] BY <3>1, <1>4
        <4>2. QED BY <3>1, <4>1, <1>3
      <3>2. CASE n = 0
        BY <3>2, <1>3, <1>4, <1>5
      <3>3. CASE n # 0 /\ n # b
        <4>1. n \in 0 .. (b - 1) /\ n - 1 \in 0 .. b /\ n - 1 # b BY <3>3
        <4>2. G[n] = F[n] /\ G[n - 1] = F[n - 1] BY <3>3, <4>1
        <4>3. F[n] = applyDecoded(F[n - 1], raws[n]) BY <1>5, <4>1, <3>3
        <4>4. H[n] = applyDecoded(G[n - 1], raws[n]) BY <3>3
        <4>5. QED BY <4>2, <4>3, <4>4
      <3>4. QED BY <3>1, <3>2, <3>3
    <2>2. G = H BY <2>1
    <2>3. QED BY <2>2
  <1>7. QED BY <1>6, <1>2

\* applyBatch is the last value of a function that folds the batch.
LEMMA BatchFolds ==
    ASSUME NEW st, NEW raws, Len(raws) \in Nat
    PROVE  \E F : Folds(F, st, raws, Len(raws)) /\ applyBatch(st, raws) = F[Len(raws)]
  <1> DEFINE last == Len(raws)
             after == CHOOSE F : Folds(F, st, raws, last)
  <1>1. Folds(after, st, raws, last)
    <2>1. \E F : Folds(F, st, raws, last) BY BatchFunction
    <2>2. QED BY <2>1
  <1>2. applyBatch(st, raws) = after[last]
    BY DEF applyBatch, Folds
  <1> HIDE DEF after
  <1>3. QED BY <1>1, <1>2

\* Such a function starts with the store and applies one event after the other.
LEMMA FoldSteps ==
    ASSUME NEW F, NEW st, NEW raws, NEW l \in Nat, Folds(F, st, raws, l)
    PROVE  F[0] = st /\ \A n \in 1 .. l : F[n] = applyDecoded(F[n - 1], raws[n])
  <1>1. F = [n \in 0 .. l |-> IF n = 0 THEN st ELSE applyDecoded(F[n - 1], raws[n])]
    BY DEF Folds
  <1>2. 0 \in 0 .. l /\ \A n \in 1 .. l : n \in 0 .. l /\ n # 0
    OBVIOUS
  <1>3. F[0] = st
    BY <1>1, <1>2
  <1>4. ASSUME NEW n \in 1 .. l PROVE F[n] = applyDecoded(F[n - 1], raws[n])
    BY <1>1, <1>2
  <1>5. QED BY <1>3, <1>4

\* Functions that fold the same events from the same store have the same values.
LEMMA FoldsAgree ==
    ASSUME NEW st, NEW r, NEW q, NEW l \in Nat, NEW m \in Nat, l <= m,
           NEW F, Folds(F, st, r, l), NEW G, Folds(G, st, q, m),
           \A i \in 1 .. l : r[i] = q[i]
    PROVE  \A n \in 0 .. l : F[n] = G[n]
  <1> DEFINE Wrong == {n \in 0 .. l : F[n] # G[n]}
  <1>1. /\ F[0] = st /\ \A n \in 1 .. l : F[n] = applyDecoded(F[n - 1], r[n])
        /\ G[0] = st /\ \A n \in 1 .. m : G[n] = applyDecoded(G[n - 1], q[n])
    BY FoldSteps
  <1>2. SUFFICES ASSUME Wrong # {} PROVE FALSE
    OBVIOUS
  <1>3. PICK n \in Wrong : \A k \in Wrong : n <= k
    <2>1. Wrong \subseteq Nat OBVIOUS
    <2> HIDE DEF Wrong
    <2>2. QED BY <1>2, <2>1, Least
  <1>4. n \in 1 .. l /\ n \in 1 .. m
    BY <1>1
  <1>5. n - 1 \in 0 .. l /\ n - 1 \notin Wrong
    <2>1. n - 1 \in 0 .. l /\ ~(n <= n - 1) BY <1>4
    <2> HIDE DEF Wrong
    <2>2. QED BY <1>3, <2>1
  <1>6. F[n - 1] = G[n - 1]
    BY <1>5
  <1>7. F[n] = G[n]
    BY <1>1, <1>4, <1>6
  <1>8. QED BY <1>7

\* applyBatch: so it is after any batch of the journal's events.
LEMMA BatchHeard ==
    ASSUME NEW st, NEW J \in Nat, NEW T, Heard(st, J, T),
           NEW raws, Len(raws) \in Nat,
           \A n \in 1 .. Len(raws) :
               raws[n].seq \in 1 .. J /\ raws[n].taskId \in T \cup {Null}
    PROVE  Heard(applyBatch(st, raws), J, T)
  <1> DEFINE last == Len(raws)
  <1>1. PICK after : Folds(after, st, raws, last) /\ applyBatch(st, raws) = after[last]
    BY BatchFolds
  <1>2. applyBatch(st, raws) = after[last]
    BY <1>1
  <1>3. /\ after[0] = st
        /\ \A n \in 1 .. last : after[n] = applyDecoded(after[n - 1], raws[n])
    BY <1>1, FoldSteps
  <1> DEFINE Wrong == {n \in 0 .. last : ~Heard(after[n], J, T)}
  <1>4. Wrong = {}
    <2>1. SUFFICES ASSUME Wrong # {} PROVE FALSE OBVIOUS
    <2>2. PICK n \in Wrong : \A m \in Wrong : n <= m
      <3>1. Wrong \subseteq Nat OBVIOUS
      <3> HIDE DEF Wrong
      <3>2. QED BY <2>1, <3>1, Least
    <2>3. n # 0 BY <1>3
    <2>4. n - 1 \in 0 .. last /\ n - 1 \notin Wrong /\ n \in 1 .. last
      <3>1. n - 1 \in 0 .. last /\ n \in 1 .. last BY <2>3
      <3>2. ~(n <= n - 1) OBVIOUS
      <3> HIDE DEF Wrong
      <3>3. QED BY <3>1, <3>2, <2>2
    <2>5. Heard(after[n - 1], J, T) BY <2>4
    <2>6. Heard(after[n], J, T)
      <3>1. after[n] = applyDecoded(after[n - 1], raws[n]) BY <1>3, <2>4
      <3>2. raws[n].seq \in 1 .. J /\ raws[n].taskId \in T \cup {Null}
        BY <2>4
      <3>3. QED BY <2>5, <3>1, <3>2, AppliedHeard
    <2>7. QED BY <2>6
  <1>5. Heard(after[last], J, T)
    <2>1. last \in 0 .. last OBVIOUS
    <2>2. QED BY <1>4, <2>1
  <1>6. QED BY <1>2, <1>5

-----------------------------------------------------------------------------
(***************************************************************************)
(* The lists and the rest of the window.                                   *)
(***************************************************************************)
\* A sender's requests are the same in both windows.
Same(w, v, who) ==
    /\ From(v, who) = From(w, who)
    /\ \A i \in From(w, who) : v.sent[i] = w.sent[i]

\* Another's request changes nothing for it.
LEMMA OthersSame ==
    ASSUME NEW w, NEW v, NEW who, Formed(w), Sends(w, v, who),
           NEW r, r # who
    PROVE  Same(w, v, r)
  <1>1. /\ DOMAIN w.sent \subseteq DOMAIN v.sent
        /\ \A i \in DOMAIN w.sent : v.sent[i] = w.sent[i]
        /\ \A i \in DOMAIN v.sent \ DOMAIN w.sent : v.sent[i].from = who
    BY SentFacts
  <1>2. QED BY <1>1 DEF Same, From

\* A list that is as old, and has come as far.
Alike(l, k) ==
    k = l \/ /\ ListFields \subseteq DOMAIN k
             /\ k.at = l.at /\ k.seen = l.seen
             /\ k.skipped = l.skipped /\ k.failed = l.failed

\* A reader with such a list and the same requests is as fresh as it was.
LEMMA ReaderKept ==
    ASSUME NEW w, NEW v, NEW r, Same(w, v, r), Alike(w.lists[r], v.lists[r]), NEW J,
           ListTyped(w, r, J)
    PROVE  ListTyped(v, r, J) /\ (ListFresh(w, r) => ListFresh(v, r))
  <1>1. \A m : /\ AskedFor(v, r, m) = AskedFor(w, r, m)
               /\ \A i \in AskedFor(w, r, m) : v.sent[i] = w.sent[i]
    BY DEF AskedFor, Same
  <1>2. ListTyped(v, r, J)
    BY DEF ListTyped, Same, Alike
  <1>3. \A at : Current(w.lists[r], r, at) => Current(v.lists[r], r, at)
    BY DEF Current, Alike
  <1>4. v.lists[r].failed = w.lists[r].failed /\ v.lists[r].at = w.lists[r].at
    BY DEF Alike
  <1>5. ListFresh(w, r) => ListFresh(v, r)
    BY <1>1, <1>3, <1>4 DEF ListFresh, IsLast
  <1>6. QED BY <1>2, <1>5

\* The window apart from its lists depends on no other request.
LEMMA ShellKept ==
    ASSUME NEW w, NEW v, NEW J, NEW s, Shell(w, J, s), Same(w, v, "create"),
           v.conn = w.conn, v.caps = w.caps, v.store = w.store,
           v.pinned = w.pinned, v.dialogs = w.dialogs
    PROVE  Shell(v, J, s)
  BY DEF Shell, Same

\* A reader's own doing leaves the rest alone.
LEMMA ApartKept ==
    ASSUME NEW w, NEW v, NEW J, NEW s, NEW r \in Readers,
           Formed(w), Apart(w, J, s, r), Sends(w, v, r),
           \A f \in Fields \ {"lists", "sent"} : v[f] = w[f],
           DOMAIN v.lists = DOMAIN w.lists,
           \A x \in Readers \ {r} : v.lists[x] = w.lists[x]
    PROVE  Apart(v, J, s, r)
  <1>1. /\ v.conn = w.conn /\ v.caps = w.caps /\ v.store = w.store
        /\ v.pinned = w.pinned /\ v.dialogs = w.dialogs
    BY DEF Fields
  <1>2. "create" # r
    BY DEF Readers
  <1>3. Shell(v, J, s)
    BY <1>1, <1>2, OthersSame, ShellKept DEF Apart
  <1>4. ASSUME NEW x \in Readers \ {r} PROVE ListTyped(v, x, J) /\ ListFresh(v, x)
    <2>1. Same(w, v, x)
      BY OthersSame
    <2>2. ListTyped(w, x, J) /\ ListFresh(w, x)
      BY DEF Apart
    <2>3. QED BY <2>1, <2>2, ReaderKept DEF Alike
  <1>5. QED BY <1>3, <1>4 DEF Apart

\* So does what no reader does; of the rest it may change what keeps its type.
LEMMA SoundKept ==
    ASSUME NEW w, NEW v, NEW J, NEW s, NEW who, Formed(w), Sound(w, J, s),
           Sends(w, v, who), who \notin Readers \cup {"create"},
           v.lists = w.lists, Heard(v.store, J, DOMAIN s.scripts),
           v.conn \in Connections, v.caps \subseteq s.caps,
           v.pinned \in DOMAIN s.scripts \cup {Null},
           \A i \in DOMAIN v.dialogs :
               v.dialogs[i].stage \in Stages /\ v.dialogs[i].task \in DOMAIN s.scripts
    PROVE  Sound(v, J, s)
  <1>1. Same(w, v, "create")
    BY OthersSame
  <1>2. Shell(v, J, s)
    BY <1>1 DEF Sound, Shell, Same
  <1>3. ASSUME NEW r \in Readers PROVE ListTyped(v, r, J) /\ ListFresh(v, r)
    <2>1. Same(w, v, r)
      BY OthersSame
    <2>2. ListTyped(w, r, J) /\ ListFresh(w, r)
      BY DEF Sound
    <2>3. QED BY <2>1, <2>2, ReaderKept DEF Alike
  <1>4. QED BY <1>2, <1>3 DEF Sound

\* A view of who's changes its own field and sends its own requests.
Beside(w, v, who) ==
    /\ Fields \subseteq DOMAIN v
    /\ Sends(w, v, who)
    /\ \A f \in Fields \ {who, "sent"} : v[f] = w[f]

\* It may do both.
LEMMA SendBeside ==
    ASSUME NEW w, NEW u, NEW who, Beside(w, u, who), u.sent = w.sent,
           NEW method, NEW about, NEW kept
    PROVE  Beside(w, Send(u, who, method, about, kept), who)
  <1> DEFINE v == Send(u, who, method, about, kept)
             r == [from |-> who, method |-> method, about |-> about,
                   kept |-> kept, answer |-> Null]
  <1>1. /\ Fields \subseteq DOMAIN v
        /\ \A f \in Fields \ {"sent"} : v[f] = u[f]
        /\ v.sent = Append(w.sent, r)
    BY DEF Beside, Fields, Send
  <1>2. IsRequest(r) /\ r.from = who /\ r.answer = Null
    BY DEF IsRequest
  <1> HIDE DEF v, r
  <1>3. Sends(w, v, who)
    BY <1>1, <1>2 DEF Sends
  <1>4. QED BY <1>1, <1>3 DEF Beside, v

\* maybeRefreshData and maybeRefresh of the badges are such.
LEMMA PanelsBeside ==
    ASSUME NEW w, Formed(w), NEW force
    PROVE  Beside(w, RefreshPanels(w, force), "panels")
  <1> DEFINE t == Focus(w)
             p == w.panels
             missing == [w EXCEPT !.panels.missed = @ \/ t # p.next.taskId]
             dropped == [w EXCEPT !.panels.data = NoData(t), !.panels.cold = TRUE,
                                  !.panels.missed = FALSE, !.panels.failed = FALSE]
             asking == [w EXCEPT !.panels.fetching = TRUE, !.panels.next = NoData(t),
                                 !.panels.cold = FALSE, !.panels.missed = FALSE,
                                 !.panels.failed = FALSE]
             asked == Send(asking, "panels", "task/report", t, Null)
  <1>1. Beside(w, w, "panels")
    BY DEF Beside, Formed, Sends
  <1>2. ASSUME NEW v \in {missing, dropped, asking}
        PROVE  Beside(w, v, "panels") /\ v.sent = w.sent
    <2>1. Fields \subseteq DOMAIN v /\ \A f \in Fields \ {"panels"} : v[f] = w[f]
      BY DEF Formed, Fields
    <2> HIDE DEF missing, dropped, asking
    <2>2. v.sent = w.sent BY <2>1 DEF Fields
    <2>3. QED BY <2>1, <2>2 DEF Beside, Sends
  <1>3. RefreshPanels(w, force) \in {w, missing, dropped, asked}
    BY DEF RefreshPanels
  <1> HIDE DEF missing, dropped, asking
  <1>4. Beside(w, asked, "panels")
    BY <1>2, SendBeside
  <1>5. QED BY <1>1, <1>2, <1>3, <1>4

LEMMA BadgesBeside ==
    ASSUME NEW w, Formed(w)
    PROVE  Beside(w, RefreshBadges(w), "badges")
  <1> DEFINE t == Focus(w)
             cleared == [w EXCEPT !.badges.lastTaskId = t, !.badges.byPath = <<>>,
                             !.badges.overtaken = @ \/ Waiting(w, "badges")]
             asking == [w EXCEPT !.badges.lastTaskId = t,
                                 !.badges.overtaken = FALSE,
                                 !.badges.failed = FALSE]
             asked == Send(asking, "badges", "ledger/changes", t, Null)
  <1>1. Beside(w, w, "badges")
    BY DEF Beside, Formed, Sends
  <1>2. ASSUME NEW v \in {cleared, asking}
        PROVE  Beside(w, v, "badges") /\ v.sent = w.sent
    <2>1. Fields \subseteq DOMAIN v /\ \A f \in Fields \ {"badges"} : v[f] = w[f]
      BY DEF Formed, Fields
    <2> HIDE DEF cleared, asking
    <2>2. v.sent = w.sent BY <2>1 DEF Fields
    <2>3. QED BY <2>1, <2>2 DEF Beside, Sends
  <1>3. RefreshBadges(w) \in {w, cleared, asked}
    BY DEF RefreshBadges
  <1> HIDE DEF cleared, asking
  <1>4. Beside(w, asked, "badges")
    BY <1>2, SendBeside
  <1>5. QED BY <1>1, <1>2, <1>3, <1>4

\* They concern neither the lists nor the rest.
LEMMA BesideSound ==
    ASSUME NEW w, NEW v, NEW J, NEW s, NEW who \in {"panels", "badges"},
           Formed(w), Sound(w, J, s), Beside(w, v, who)
    PROVE  Sound(v, J, s) /\ v.conn = w.conn
  <1>1. /\ v.lists = w.lists /\ v.store = w.store /\ v.conn = w.conn
        /\ v.caps = w.caps /\ v.pinned = w.pinned /\ v.dialogs = w.dialogs
    BY DEF Beside, Fields
  <1>2. who \notin Readers \cup {"create"}
    BY DEF Readers
  <1>3. Sound(v, J, s)
    BY <1>1, <1>2, SoundKept DEF Sound, Shell, Beside
  <1>4. QED BY <1>1, <1>3

-----------------------------------------------------------------------------
(***************************************************************************)
(* A list is asked for.                                                    *)
(***************************************************************************)
\* A reader's list after it was skipped, asked for anew, or took note of an event.
LEMMA ListSet ==
    ASSUME NEW w, Formed(w), NEW J \in Nat, NEW s, NEW r \in Readers,
           Apart(w, J, s, r), NEW l
    PROVE  LET v == [w EXCEPT !.lists[r] = l]
           IN  /\ Fields \subseteq DOMAIN v /\ v.sent = w.sent
               /\ \A f \in Fields \ {"lists"} : v[f] = w[f]
               /\ v.lists[r] = l /\ Apart(v, J, s, r)
  <1> DEFINE v == [w EXCEPT !.lists[r] = l]
  <1>1. /\ Fields \subseteq DOMAIN v
        /\ \A f \in Fields \ {"lists"} : v[f] = w[f]
        /\ v.lists = [w.lists EXCEPT ![r] = l]
    BY DEF Formed, Fields
  <1>2. v.sent = w.sent /\ Sends(w, v, r)
    BY <1>1 DEF Sends, Fields
  <1>3. r \in DOMAIN w.lists
    BY DEF Apart
  <1>4. /\ v.lists[r] = l /\ DOMAIN v.lists = DOMAIN w.lists
        /\ \A x \in Readers \ {r} : v.lists[x] = w.lists[x]
    BY <1>1, <1>3
  <1>5. \A f \in Fields \ {"lists", "sent"} : v[f] = w[f]
    BY <1>1
  <1> HIDE DEF v
  <1>6. Apart(v, J, s, r)
    BY <1>2, <1>4, <1>5, ApartKept
  <1>7. QED BY <1>1, <1>2, <1>4, <1>6 DEF v

\* refresh of a reader: its list will be there, or it is known to be skipped.
LEMMA ListAsked ==
    ASSUME NEW w, Formed(w), NEW J \in Nat, NEW s, NEW r \in Readers,
           Apart(w, J, s, r), ListTyped(w, r, J),
           r # "marker" \/ w.conn = "ready"
    PROVE  Sound(RefreshList(w, r), J, s)
  <1> DEFINE l == w.lists[r]
             left == [l EXCEPT !.skipped = TRUE]
             anew == [l EXCEPT !.failed = FALSE, !.skipped = FALSE]
             skipping == [w EXCEPT !.lists[r] = left]
             asking == [w EXCEPT !.lists[r] = anew]
             asked == Send(asking, r, "model/list", Null, Null)
  <1>1. RefreshList(w, r) = IF w.conn # "ready" THEN skipping ELSE asked
    <2>1. "lists" \in DOMAIN w /\ r \in DOMAIN w.lists
      BY DEF Formed, Fields, Apart
    <2>2. asking = [w EXCEPT !.lists[r].failed = FALSE, !.lists[r].skipped = FALSE]
      BY <2>1
    <2>3. skipping = [w EXCEPT !.lists[r].skipped = TRUE]
      BY <2>1
    <2> HIDE DEF asking, skipping
    <2>4. QED BY <2>2, <2>3 DEF RefreshList
  <1>2. /\ ListFields \subseteq DOMAIN left /\ left.skipped
        /\ left.at = l.at /\ left.seen = l.seen
        /\ ListFields \subseteq DOMAIN anew /\ ~anew.failed
        /\ anew.at = l.at /\ anew.seen = l.seen
    BY DEF ListTyped, ListFields
  <1> HIDE DEF left, anew, l
  <1>3. ASSUME r # "marker" PROVE Sound(skipping, J, s)
    <2>1. /\ skipping.sent = w.sent /\ skipping.lists[r] = left
          /\ Apart(skipping, J, s, r)
      BY ListSet
    <2> HIDE DEF skipping
    <2>2. From(skipping, r) = From(w, r)
      BY <2>1 DEF From
    <2>3. ListTyped(skipping, r, J)
      BY <1>2, <2>1, <2>2 DEF ListTyped, l
    <2>4. \A at : Current(skipping.lists[r], r, at)
      BY <1>2, <1>3, <2>1 DEF Current
    <2>5. AskedFor(skipping, r, "doctor/run") = {}
      BY <1>3, <2>3 DEF ListTyped, AskedFor
    <2>6. ListFresh(skipping, r)
      BY <2>4, <2>5 DEF ListFresh
    <2>7. QED BY <2>1, <2>3, <2>6 DEF Sound, Apart
  <1>4. Sound(asked, J, s)
    <2> DEFINE n == Len(w.sent) + 1
               q == [from |-> r, method |-> "model/list", about |-> Null,
                     kept |-> Null, answer |-> Null]
    <2>1. /\ Fields \subseteq DOMAIN asking /\ asking.sent = w.sent
          /\ asking.lists[r] = anew /\ Apart(asking, J, s, r)
      BY ListSet
    <2>2. Formed(asking)
      <3>1. \A f \in Fields \ {"lists"} : asking[f] = w[f]
        BY ListSet
      <3> HIDE DEF asking
      <3>2. asking.panels = w.panels /\ asking.badges = w.badges
            /\ asking.dialogs = w.dialogs
        BY <3>1 DEF Fields
      <3>3. QED BY <2>1, <3>2 DEF Formed
    <2> HIDE DEF asking
    <2>3. /\ Fields \subseteq DOMAIN asked
          /\ \A f \in Fields \ {"sent"} : asked[f] = asking[f]
          /\ asked.sent = Append(w.sent, q) /\ Sends(asking, asked, r)
      BY <2>1, <2>2, SendFacts
    <2> HIDE DEF asked
    <2>4. asked.lists = asking.lists
      BY <2>3 DEF Fields
    <2>5. Apart(asked, J, s, r)
      BY <2>1, <2>2, <2>3, <2>4, ApartKept
    <2>6. /\ DOMAIN w.sent = 1..Len(w.sent) /\ Len(w.sent) \in Nat
          /\ DOMAIN asked.sent = 1..n
          /\ \A i \in DOMAIN w.sent : asked.sent[i] = w.sent[i]
          /\ asked.sent[n] = q
      BY <2>3, Appended DEF Formed
    <2>7. n \in AskedFor(asked, r, "model/list") /\ ~Granted(asked.sent[n])
          /\ asked.sent[n].method = "model/list"
      BY <2>6 DEF AskedFor, From, Granted
    <2> HIDE DEF q
    <2>8. \A i \in From(asked, r) : \/ i = n
                                    \/ /\ i \in From(w, r) /\ i < n
                                       /\ asked.sent[i] = w.sent[i]
      BY <2>6 DEF From
    <2> HIDE DEF n
    <2>9. ListTyped(asked, r, J)
      BY <1>2, <2>1, <2>4, <2>7, <2>8 DEF ListTyped, l
    <2>10. ListFresh(asked, r)
      <3>1. \A i \in AskedFor(asked, r, "model/list") :
                IsLast(i, AskedFor(asked, r, "model/list")) => i = n
        BY <2>6, <2>7, <2>8 DEF IsLast, AskedFor, From, n
      <3>2. QED BY <2>7, <3>1 DEF ListFresh
    <2>11. QED BY <2>5, <2>9, <2>10 DEF Sound, Apart
  <1>5. QED BY <1>1, <1>3, <1>4

\* onStoreChange of a reader: it takes note of the event and asks.
LEMMA ListChangeSound ==
    ASSUME NEW w, Formed(w), NEW J \in Nat, NEW s, NEW r \in Readers,
           Sound(w, J, s)
    PROVE  Sound(ListChange(w, r), J, s)
  <1> DEFINE n == LastTerminal(w.store, r)
             l == w.lists[r]
             heard == [l EXCEPT !.seen = n]
             v == [w EXCEPT !.lists[r] = heard]
  <1>1. n \in 0 .. J
    BY LastTerminalHeard DEF Sound, Shell
  <1> HIDE DEF n
  <1>2. Apart(w, J, s, r) /\ ListTyped(w, r, J)
    BY DEF Sound, Apart
  <1>3. ListFields \subseteq DOMAIN heard /\ heard.seen = n /\ heard.at = l.at
    BY <1>2 DEF ListTyped, ListFields
  <1> HIDE DEF heard
  <1>4. /\ Fields \subseteq DOMAIN v /\ v.sent = w.sent
        /\ \A f \in Fields \ {"lists"} : v[f] = w[f]
        /\ v.lists[r] = heard /\ Apart(v, J, s, r)
    BY <1>2, ListSet
  <1>5. ListChange(w, r) # w =>
            /\ ListChange(w, r) = RefreshList(v, r)
            /\ r # "marker" \/ w.conn = "ready"
    BY DEF ListChange, n, heard
  <1> HIDE DEF v
  <1>6. /\ v.conn = w.conn /\ v.panels = w.panels /\ v.badges = w.badges
        /\ v.dialogs = w.dialogs
    BY <1>4 DEF Fields
  <1>7. Formed(v)
    BY <1>4, <1>6 DEF Formed
  <1>8. ListTyped(v, r, J)
    BY <1>1, <1>2, <1>3, <1>4 DEF ListTyped, From, l
  <1>9. r # "marker" \/ w.conn = "ready" => Sound(RefreshList(v, r), J, s)
    BY <1>4, <1>6, <1>7, <1>8, ListAsked
  <1>10. QED BY <1>5, <1>9

-----------------------------------------------------------------------------
(***************************************************************************)
(* The listeners once more.                                                *)
(***************************************************************************)
\* A resume prompt is about a task the store has.
LEMMA PromptSound ==
    ASSUME NEW w, Formed(w), NEW J \in Nat, NEW s, Sound(w, J, s)
    PROVE  Sound(PromptResume(w), J, s)
  <1> DEFINE tasks == w.store.tasks
             unfinished == {t \in DOMAIN tasks : ~tasks[t].terminal}
             r == [task |-> MostRecent(tasks, unfinished), stage |-> "ask"]
             v == PromptResume(w)
  <1>1. v # w => /\ Fields \subseteq DOMAIN v
                 /\ \A f \in Fields \ {"prompted", "dialogs"} : v[f] = w[f]
                 /\ v.dialogs = IF unfinished = {} THEN w.dialogs
                                ELSE Append(w.dialogs, r)
    BY DEF PromptResume, Formed, Fields
  <1>2. unfinished # {} => r.task \in DOMAIN s.scripts /\ r.stage \in Stages
    <2>1. /\ w.store.lastSeq \in Nat /\ Touched(tasks, w.store.lastSeq)
          /\ DOMAIN tasks \subseteq DOMAIN s.scripts
      BY DEF Sound, Shell, Heard
    <2>2. unfinished \subseteq DOMAIN tasks
      OBVIOUS
    <2> HIDE DEF unfinished, tasks
    <2>3. unfinished # {} => MostRecent(tasks, unfinished) \in DOMAIN s.scripts
      BY <2>1, <2>2, MostRecentIsKey
    <2>4. QED BY <2>3 DEF Stages
  <1> HIDE DEF v, r, unfinished
  <1>3. CASE v # w
    <2>1. /\ v.sent = w.sent /\ v.lists = w.lists /\ v.store = w.store
          /\ v.conn = w.conn /\ v.caps = w.caps /\ v.pinned = w.pinned
      BY <1>1, <1>3 DEF Fields
    <2>2. Sends(w, v, "none") /\ "none" \notin Readers \cup {"create"}
      BY <2>1 DEF Sends, Readers
    <2>3. \A i \in DOMAIN v.dialogs :
              \/ i \in DOMAIN w.dialogs /\ v.dialogs[i] = w.dialogs[i]
              \/ unfinished # {} /\ v.dialogs[i] = r
      <3>1. CASE unfinished = {} BY <1>1, <1>3, <3>1
      <3>2. CASE unfinished # {}
        <4>1. /\ DOMAIN w.dialogs = 1..Len(w.dialogs) /\ Len(w.dialogs) \in Nat
              /\ DOMAIN v.dialogs = 1..Len(w.dialogs) + 1
              /\ \A i \in DOMAIN w.dialogs : v.dialogs[i] = w.dialogs[i]
              /\ v.dialogs[Len(w.dialogs) + 1] = r
          <5>1. v.dialogs = Append(w.dialogs, r) /\ IsSeq(w.dialogs)
            BY <1>1, <1>3, <3>2 DEF Formed
          <5>2. QED BY <5>1, Appended
        <4>2. QED BY <3>2, <4>1
      <3>3. QED BY <3>1, <3>2
    <2>4. Shell(w, J, s)
      BY DEF Sound
    <2>5. \A i \in DOMAIN v.dialogs :
              /\ v.dialogs[i].stage \in Stages
              /\ v.dialogs[i].task \in DOMAIN s.scripts
      BY <1>2, <2>3, <2>4 DEF Shell
    <2>6. QED BY <2>1, <2>2, <2>4, <2>5, SoundKept DEF Shell, v
  <1>4. QED BY <1>3 DEF v

\* The store's listeners.
LEMMA StoreSound ==
    ASSUME NEW w, NEW d, Loose(w, d), NEW J \in Nat, NEW s, Sound(w, J, s)
    PROVE  Sound(StoreChanged(w), J, s)
  <1> DEFINE w1 == RefreshPanels(w, FALSE)
             w2 == PromptResume(w1)
             w3 == ListChange(w2, "marker")
             w4 == RefreshBadges(w3)
             w5 == ListChange(w4, "models")
             w6 == ListChange(w5, "picker")
             Good(v) == Tight(v, d) /\ Formed(v) /\ Sound(v, J, s)
  <1>1. StoreChanged(w) = w6 BY DEF StoreChanged
  <1>2. Good(w1)
    <2>1. Tight(w1, d) BY PanelsRefreshed
    <2>2. Sound(w1, J, s) BY PanelsBeside, BesideSound DEF Loose
    <2>3. QED BY <2>1, <2>2 DEF Tight, Loose
  <1> HIDE DEF w1
  <1>3. Good(w2)
    <2>1. Tight(w2, d) BY <1>2, Prompted
    <2>2. Sound(w2, J, s) BY <1>2, PromptSound
    <2>3. QED BY <2>1, <2>2 DEF Tight, Loose
  <1>4. ASSUME NEW v, NEW r \in Readers, Good(v) PROVE Good(ListChange(v, r))
    <2>1. Tight(ListChange(v, r), d) BY <1>4, ListChanged
    <2>2. Sound(ListChange(v, r), J, s) BY <1>4, ListChangeSound
    <2>3. QED BY <2>1, <2>2 DEF Tight, Loose
  <1> HIDE DEF w2
  <1>5. Good(w3)
    <2>1. "marker" \in Readers BY DEF Readers
    <2> HIDE DEF Good
    <2>2. QED BY <1>3, <1>4, <2>1
  <1> HIDE DEF w3
  <1>6. Good(w4)
    <2>1. Tight(w4, d) BY <1>5, BadgesRefreshed
    <2>2. Sound(w4, J, s) BY <1>5, BadgesBeside, BesideSound
    <2>3. QED BY <2>1, <2>2 DEF Tight, Loose
  <1> HIDE DEF w4
  <1>7. Good(w5)
    <2>1. "models" \in Readers BY DEF Readers
    <2> HIDE DEF Good
    <2>2. QED BY <1>4, <1>6, <2>1
  <1> HIDE DEF w5
  <1>8. Good(w6)
    <2>1. "picker" \in Readers BY DEF Readers
    <2> HIDE DEF Good
    <2>2. QED BY <1>4, <1>7, <2>1
  <1>9. QED BY <1>1, <1>8

\* Those of the focus and of the supervisor.
LEMMA FocusSound ==
    ASSUME NEW w, NEW d, Loose(w, d), NEW J \in Nat, NEW s, Sound(w, J, s)
    PROVE  /\ Sound(FocusChanged(w), J, s)
           /\ Sound(SupervisorChanged(w), J, s) /\ SupervisorChanged(w).conn = w.conn
  <1> DEFINE v == RefreshPanels(w, FALSE)
  <1>1. Formed(w) BY DEF Loose
  <1>2. Sound(v, J, s) /\ v.conn = w.conn
    BY <1>1, PanelsBeside, BesideSound
  <1>3. Formed(v)
    BY PanelsRefreshed DEF Tight, Loose
  <1> HIDE DEF v
  <1>4. Sound(RefreshBadges(v), J, s) /\ RefreshBadges(v).conn = w.conn
    BY <1>2, <1>3, BadgesBeside, BesideSound
  <1>5. QED BY <1>4 DEF FocusChanged, SupervisorChanged, v

-----------------------------------------------------------------------------
(***************************************************************************)
(* A reader takes an answer.                                               *)
(***************************************************************************)
\* Without the oldest request, whose last request was last is so still, one place
\* nearer.
LEMMA RestAsked ==
    ASSUME NEW w, Formed(w), 1 \in DOMAIN w.sent, NEW who
    PROVE  LET u == Rest(w)
           IN  /\ \A i \in From(u, who) :
                      i + 1 \in From(w, who) /\ u.sent[i] = w.sent[i + 1]
               /\ \A m : \A i : IsLast(i, AskedFor(u, who, m)) =>
                      IsLast(i + 1, AskedFor(w, who, m))
               /\ \A m : AskedFor(u, who, m) = {} =>
                      \A j \in AskedFor(w, who, m) : j = 1
  <1> DEFINE u == Rest(w)
             n == Len(w.sent)
  <1>1. /\ n \in Nat \ {0} /\ DOMAIN w.sent = 1..n /\ DOMAIN u.sent = 1..n - 1
        /\ \A i \in 1..n - 1 : u.sent[i] = w.sent[i + 1]
    BY RestFacts
  <1> HIDE DEF u, n
  <1>2. \A i \in DOMAIN u.sent : /\ i \in Nat /\ i + 1 \in DOMAIN w.sent
                                 /\ u.sent[i] = w.sent[i + 1]
    BY <1>1
  <1>3. \A j \in DOMAIN w.sent \ {1} : /\ j - 1 \in DOMAIN u.sent /\ (j - 1) + 1 = j
                                       /\ u.sent[j - 1] = w.sent[j]
    BY <1>1
  <1>4. \A i \in From(u, who) : i + 1 \in From(w, who) /\ u.sent[i] = w.sent[i + 1]
    BY <1>2 DEF From
  <1>5. ASSUME NEW m
        PROVE  /\ \A i \in AskedFor(u, who, m) : i \in Nat /\ i + 1 \in AskedFor(w, who, m)
               /\ \A j \in AskedFor(w, who, m) :
                      j = 1 \/ (j \in Nat /\ j - 1 \in AskedFor(u, who, m))
    <2>1. ASSUME NEW i \in AskedFor(u, who, m)
          PROVE  i \in Nat /\ i + 1 \in AskedFor(w, who, m)
      BY <1>1, <1>2 DEF AskedFor, From
    <2>2. ASSUME NEW j \in AskedFor(w, who, m), j # 1
          PROVE  j \in Nat /\ j - 1 \in AskedFor(u, who, m)
      <3>1. j \in DOMAIN w.sent \ {1} /\ w.sent[j].from = who /\ w.sent[j].method = m
        BY <2>2 DEF AskedFor, From
      <3>2. j \in Nat
        BY <1>1, <3>1
      <3>3. j - 1 \in DOMAIN u.sent /\ u.sent[j - 1] = w.sent[j]
        BY <1>3, <3>1
      <3>4. QED BY <3>1, <3>2, <3>3 DEF AskedFor, From
    <2>3. QED BY <2>1, <2>2
  <1>6. ASSUME NEW m, NEW i, IsLast(i, AskedFor(u, who, m))
        PROVE  IsLast(i + 1, AskedFor(w, who, m))
    <2>1. i \in Nat /\ i + 1 \in AskedFor(w, who, m)
      BY <1>5, <1>6 DEF IsLast
    <2>2. ASSUME NEW j \in AskedFor(w, who, m) PROVE j <= i + 1
      <3>1. CASE j = 1 BY <2>1, <3>1
      <3>2. CASE j \in Nat /\ j - 1 \in AskedFor(u, who, m)
        <4>1. j - 1 <= i BY <1>6, <3>2 DEF IsLast
        <4>2. QED BY <2>1, <3>2, <4>1
      <3>3. QED BY <1>5, <3>1, <3>2
    <2>3. QED BY <2>1, <2>2 DEF IsLast
  <1>7. ASSUME NEW m, AskedFor(u, who, m) = {}, NEW j \in AskedFor(w, who, m)
        PROVE  j = 1
    BY <1>5, <1>7
  <1>8. QED BY <1>4, <1>6, <1>7 DEF u

\* It is one the window waits for no more; only the reader whose list or doctor it
\* was has still to take it.
LEMMA RestSound ==
    ASSUME NEW w, Formed(w), 1 \in DOMAIN w.sent, NEW J \in Nat, NEW s,
           Sound(w, J, s)
    PROVE  LET u == Rest(w)
               q == w.sent[1]
           IN  /\ Formed(u) /\ Shell(u, J, s) /\ Readers \subseteq DOMAIN u.lists
               /\ \A r \in Readers :
                      /\ ListTyped(u, r, J) /\ u.lists[r] = w.lists[r]
                      /\ ~(q.from = r /\ q.method \in {"model/list", "doctor/run"})
                             => ListFresh(u, r)
  <1> DEFINE u == Rest(w)
             q == w.sent[1]
  <1>1. /\ Formed(u) /\ u.lists = w.lists /\ u.conn = w.conn /\ u.caps = w.caps
        /\ u.store = w.store /\ u.pinned = w.pinned /\ u.dialogs = w.dialogs
    BY RestFacts DEF Fields
  <1>2. ASSUME NEW who
        PROVE  /\ \A i \in From(u, who) :
                      i + 1 \in From(w, who) /\ u.sent[i] = w.sent[i + 1]
               /\ \A m : \A i : IsLast(i, AskedFor(u, who, m)) =>
                      IsLast(i + 1, AskedFor(w, who, m))
               /\ \A m : AskedFor(u, who, m) = {} =>
                      \A j \in AskedFor(w, who, m) : j = 1
    BY RestAsked
  <1> HIDE DEF u
  <1>3. Shell(u, J, s)
    BY <1>1, <1>2 DEF Sound, Shell
  <1>4. ASSUME NEW r \in Readers PROVE ListTyped(u, r, J)
    <2>1. ListTyped(w, r, J) BY DEF Sound
    <2>2. QED BY <1>1, <1>2, <2>1 DEF ListTyped
  <1>5. ASSUME NEW r \in Readers,
               ~(q.from = r /\ q.method \in {"model/list", "doctor/run"})
        PROVE  ListFresh(u, r)
    <2>1. ListFresh(w, r) /\ u.lists[r] = w.lists[r]
      BY <1>1 DEF Sound
    <2>2. ASSUME NEW m \in {"model/list", "doctor/run"}
          PROVE  AskedFor(u, r, m) = {} => AskedFor(w, r, m) = {}
      <3>1. 1 \notin AskedFor(w, r, m) BY <1>5 DEF AskedFor, From
      <3>2. QED BY <1>2, <3>1
    <2>3. ASSUME NEW m, NEW i, IsLast(i, AskedFor(u, r, m))
          PROVE  /\ IsLast(i + 1, AskedFor(w, r, m)) /\ i + 1 \in AskedFor(w, r, m)
                 /\ u.sent[i] = w.sent[i + 1]
      BY <1>2, <2>3 DEF IsLast, AskedFor
    <2>4. \A i \in AskedFor(u, r, "model/list") :
              IsLast(i, AskedFor(u, r, "model/list")) /\ Granted(u.sent[i]) =>
              Current(u.lists[r], r, u.sent[i].answer.result.at)
      BY <2>1, <2>3 DEF ListFresh
    <2>5. ASSUME AskedFor(u, r, "model/list") = {}, ~u.lists[r].failed
          PROVE  /\ AskedFor(u, r, "doctor/run") = {} =>
                        Current(u.lists[r], r, u.lists[r].at)
                 /\ \A i \in AskedFor(u, r, "doctor/run") :
                        IsLast(i, AskedFor(u, r, "doctor/run")) =>
                        /\ u.sent[i].kept.ok
                        /\ Current(u.lists[r], r, u.sent[i].kept.result.at)
      <3>1. AskedFor(w, r, "model/list") = {} BY <2>2, <2>5
      <3>2. AskedFor(u, r, "doctor/run") = {} => AskedFor(w, r, "doctor/run") = {}
        BY <2>2
      <3>3. QED BY <2>1, <2>3, <2>5, <3>1, <3>2 DEF ListFresh
    <2>6. QED BY <2>4, <2>5 DEF ListFresh
  <1>6. QED BY <1>1, <1>3, <1>4, <1>5 DEF Sound, u, q

\* The reader holds what its list or its doctor said, and asked for no other list
\* in that turn.
Turn(u, v, r) ==
    /\ Fields \subseteq DOMAIN v
    /\ \A f \in Fields \ {"lists", "sent"} : v[f] = u[f]
    /\ DOMAIN v.lists = DOMAIN u.lists
    /\ \A x \in Readers \ {r} : v.lists[x] = u.lists[x]
    /\ ListFields \subseteq DOMAIN v.lists[r]
    /\ v.lists[r].seen = u.lists[r].seen
    /\ v.lists[r].skipped = u.lists[r].skipped
    /\ Sends(u, v, r)

LEMMA TurnApart ==
    ASSUME NEW w, Formed(w), 1 \in DOMAIN w.sent, NEW J \in Nat, NEW s,
           Sound(w, J, s), NEW r \in Readers, w.sent[1].from = r,
           NEW v, Turn(Rest(w), v, r)
    PROVE  /\ Apart(v, J, s, r)
           /\ \A at : Current(w.lists[r], r, at) => Current(v.lists[r], r, at)
  <1> DEFINE u == Rest(w)
  <1>1. /\ Formed(u) /\ Shell(u, J, s) /\ Readers \subseteq DOMAIN u.lists
        /\ u.lists[r] = w.lists[r]
        /\ \A x \in Readers \ {r} : ListTyped(u, x, J) /\ ListFresh(u, x)
    BY RestSound
  <1> HIDE DEF u
  <1>2. Apart(u, J, s, r)
    BY <1>1 DEF Apart
  <1>3. Apart(v, J, s, r)
    BY <1>1, <1>2, ApartKept DEF Turn, u
  <1>4. QED BY <1>1, <1>3 DEF Turn, Current, u

\* A model view has its list: if it asked for no later one, that is the last.
LEMMA ViewListed ==
    ASSUME NEW w, Formed(w), 1 \in DOMAIN w.sent, NEW J \in Nat, NEW s,
           Sound(w, J, s), NEW r \in {"models", "picker"}, w.sent[1].from = r,
           w.sent[1].method = "model/list", w.sent[1].answer # Null,
           NEW v, Turn(Rest(w), v, r),
           \A i \in DOMAIN v.sent \ DOMAIN Rest(w).sent :
               v.sent[i].method = "model/recommend",
           v.lists[r].failed = ~w.sent[1].answer.ok,
           v.lists[r].at = IF w.sent[1].answer.ok THEN w.sent[1].answer.result.at
                           ELSE w.lists[r].at
    PROVE  Sound(v, J, s)
  <1> DEFINE u == Rest(w)
             q == w.sent[1]
             Lists(x) == AskedFor(x, r, "model/list")
  <1>1. r \in Readers /\ r # "marker"
    BY DEF Readers
  <1>2. /\ Formed(u) /\ u.lists[r] = w.lists[r] /\ ListTyped(u, r, J)
    BY <1>1, RestSound
  <1>3. /\ ListTyped(w, r, J) /\ ListFresh(w, r)
        /\ 1 \in From(w, r) /\ 1 \in Lists(w)
    BY <1>1 DEF Sound, From, AskedFor
  <1>4. /\ Apart(v, J, s, r)
        /\ \A at : Current(w.lists[r], r, at) => Current(v.lists[r], r, at)
    BY <1>1, TurnApart
  <1>5. /\ \A i : IsLast(i, Lists(u)) => IsLast(i + 1, Lists(w))
        /\ \A i \in From(u, r) : u.sent[i] = w.sent[i + 1]
        /\ Lists(u) = {} => \A j \in Lists(w) : j = 1
    BY RestAsked
  <1> HIDE DEF u, q
  <1>6. /\ DOMAIN u.sent \subseteq DOMAIN v.sent
        /\ \A i \in DOMAIN u.sent : v.sent[i] = u.sent[i]
        /\ \A i \in DOMAIN v.sent \ DOMAIN u.sent :
               v.sent[i].answer = Null /\ v.sent[i].method = "model/recommend"
    BY <1>2, SentFacts DEF Turn, u
  <1>7. Lists(v) = Lists(u) /\ \A i \in Lists(u) : v.sent[i] = u.sent[i]
    BY <1>6 DEF AskedFor, From
  <1>8. ListTyped(v, r, J)
    <2>1. q.answer.ok => q.answer.result.at \in 0 .. J
      BY <1>3 DEF ListTyped, Granted, q
    <2>2. v.lists[r].at \in 0 .. J
      BY <1>3, <2>1 DEF ListTyped, q
    <2>3. ListFields \subseteq DOMAIN v.lists[r] /\ v.lists[r].seen \in 0 .. J
      BY <1>2 DEF ListTyped, Turn, u
    <2>4. ASSUME NEW i \in From(v, r)
          PROVE  /\ v.sent[i].method \in {"model/list", "model/recommend"}
                 /\ v.sent[i].method = "model/list" /\ Granted(v.sent[i]) =>
                        v.sent[i].answer.result.at \in 0 .. J
                 /\ v.sent[i].method # "doctor/run"
      <3>1. CASE i \in DOMAIN u.sent
        <4>1. i \in From(u, r) /\ v.sent[i] = u.sent[i]
          BY <1>6, <3>1 DEF From
        <4>2. QED BY <1>1, <1>2, <4>1 DEF ListTyped
      <3>2. CASE i \notin DOMAIN u.sent
        BY <1>6, <3>2 DEF From
      <3>3. QED BY <3>1, <3>2
    <2>5. QED BY <1>1, <2>2, <2>3, <2>4 DEF ListTyped
  <1>9. ListFresh(v, r)
    <2>1. AskedFor(v, r, "doctor/run") = {}
      BY <1>1, <1>8 DEF ListTyped, AskedFor
    <2>2. ASSUME NEW i \in Lists(v), IsLast(i, Lists(v)), Granted(v.sent[i])
          PROVE  Current(v.lists[r], r, v.sent[i].answer.result.at)
      <3>1. IsLast(i + 1, Lists(w)) /\ v.sent[i] = w.sent[i + 1]
        BY <1>5, <1>7, <2>2 DEF AskedFor
      <3>2. i + 1 \in Lists(w)
        BY <3>1 DEF IsLast
      <3>3. QED BY <1>3, <1>4, <2>2, <3>1, <3>2 DEF ListFresh
    <2>3. ASSUME Lists(v) = {}, ~v.lists[r].failed
          PROVE  Current(v.lists[r], r, v.lists[r].at)
      <3>1. Granted(q) /\ v.lists[r].at = q.answer.result.at
        BY <2>3 DEF Granted, q
      <3>2. IsLast(1, Lists(w))
        BY <1>3, <1>5, <1>7, <2>3 DEF IsLast
      <3>3. Current(w.lists[r], r, q.answer.result.at)
        BY <1>3, <3>1, <3>2 DEF ListFresh, q
      <3>4. QED BY <1>4, <3>1, <3>3
    <2>4. QED BY <2>1, <2>2, <2>3 DEF ListFresh
  <1>10. QED BY <1>4, <1>8, <1>9 DEF Sound, Apart

\* A model view takes a list or a recommendation.
LEMMA ViewTakesSound ==
    ASSUME NEW w, Formed(w), 1 \in DOMAIN w.sent, NEW J \in Nat, NEW s,
           Sound(w, J, s), NEW r \in {"models", "picker"}, w.sent[1].from = r,
           w.sent[1].answer # Null
    PROVE  Sound(ViewTakes(Rest(w), w.sent[1], r), J, s)
  <1> DEFINE u == Rest(w)
             q == w.sent[1]
             l == u.lists[r]
             entry == [l EXCEPT !.models = IF q.answer.ok
                                           THEN q.answer.result.models ELSE Null,
                                !.at = IF q.answer.ok THEN q.answer.result.at ELSE @,
                                !.failed = ~q.answer.ok]
             listed == [u EXCEPT !.lists[r] = entry]
             asked == Send(listed, r, "model/recommend", Null, Null)
             bare == [listed EXCEPT !.lists[r].recommend = Null]
             advised == [u EXCEPT !.lists[r].recommend = q.answer.result]
  <1>1. r \in Readers
    BY DEF Readers
  <1>2. /\ Formed(u) /\ Shell(u, J, s) /\ Readers \subseteq DOMAIN u.lists
        /\ \A x \in Readers : ListTyped(u, x, J)
        /\ \A x \in Readers : x # r => ListFresh(u, x)
        /\ q.method # "model/list" => ListFresh(u, r) \/ q.method = "doctor/run"
        /\ u.lists[r] = w.lists[r]
    BY <1>1, RestSound
  <1>3. 1 \in From(w, r) /\ ListTyped(w, r, J)
    BY <1>1 DEF From, Sound
  <1>4. q.method \in {"model/list", "model/recommend"}
    BY <1>3 DEF ListTyped
  <1> HIDE DEF u
  <1>5. "lists" \in DOMAIN u /\ r \in DOMAIN u.lists /\ ListFields \subseteq DOMAIN l
    BY <1>1, <1>2 DEF Formed, Fields, ListTyped
  <1>6. \/ q.method = "model/list" /\ ViewTakes(u, q, r) \in {asked, bare}
        \/ q.method # "model/list" /\ ViewTakes(u, q, r) = advised
    <2>0. q.method # "model/list" => ViewTakes(u, q, r) = advised
      <3> HIDE DEF q
      <3>1. QED BY DEF ViewTakes
    <2>1. listed = [u EXCEPT
            !.lists[r].models = IF q.answer.ok THEN q.answer.result.models
                                ELSE Null,
            !.lists[r].at = IF q.answer.ok THEN q.answer.result.at ELSE @,
            !.lists[r].failed = ~q.answer.ok]
      BY <1>5 DEF ListFields
    <2> HIDE DEF listed, q
    <2>2. CASE q.method = "model/list" /\ "hardware" \in u.caps
      BY <2>1, <2>2 DEF ViewTakes
    <2>3. CASE q.method = "model/list" /\ "hardware" \notin u.caps
      BY <2>1, <2>3 DEF ViewTakes
    <2>4. CASE q.method # "model/list"
      BY <2>0, <2>4
    <2>5. QED BY <2>2, <2>3, <2>4
  <1>7. /\ ListFields \subseteq DOMAIN entry /\ entry.seen = l.seen
        /\ entry.skipped = l.skipped /\ entry.failed = ~q.answer.ok
        /\ entry.at = IF q.answer.ok THEN q.answer.result.at ELSE l.at
    BY <1>5 DEF ListFields
  <1> HIDE DEF entry, q
  <1>8. /\ Fields \subseteq DOMAIN listed
        /\ \A f \in Fields \ {"lists"} : listed[f] = u[f]
        /\ DOMAIN listed.lists = DOMAIN u.lists
        /\ \A x \in Readers \ {r} : listed.lists[x] = u.lists[x]
        /\ listed.lists[r] = entry
    BY <1>2, <1>5 DEF Formed, Fields
  <1> HIDE DEF listed
  <1>9. listed.sent = u.sent /\ listed.panels = u.panels
        /\ listed.badges = u.badges /\ listed.dialogs = u.dialogs
    BY <1>8 DEF Fields
  <1>10. Formed(listed)
    BY <1>2, <1>8, <1>9 DEF Formed
  <1>11. ASSUME q.method = "model/list" PROVE Sound(asked, J, s)
    <2> DEFINE m == [from |-> r, method |-> "model/recommend", about |-> Null,
                     kept |-> Null, answer |-> Null]
    <2>1. /\ Fields \subseteq DOMAIN asked
          /\ \A f \in Fields \ {"sent"} : asked[f] = listed[f]
          /\ asked.sent = Append(u.sent, m) /\ Sends(u, asked, r)
      <3>1. Sends(listed, asked, r) /\ asked.sent = Append(listed.sent, m)
            /\ Fields \subseteq DOMAIN asked
            /\ \A f \in Fields \ {"sent"} : asked[f] = listed[f]
        BY <1>10, SendFacts
      <3> HIDE DEF asked, m
      <3>2. QED BY <1>9, <3>1 DEF Sends
    <2>2. /\ DOMAIN asked.sent = 1..Len(u.sent) + 1 /\ Len(u.sent) \in Nat
          /\ DOMAIN u.sent = 1..Len(u.sent)
          /\ asked.sent[Len(u.sent) + 1] = m
      BY <1>2, <2>1, Appended DEF Formed
    <2> HIDE DEF asked
    <2>3. \A i \in DOMAIN asked.sent \ DOMAIN u.sent :
              asked.sent[i].method = "model/recommend"
      BY <2>2
    <2>4. asked.lists = listed.lists
      BY <2>1 DEF Fields
    <2>5. Turn(u, asked, r)
      BY <1>7, <1>8, <2>1, <2>4 DEF Turn
    <2>6. /\ asked.lists[r].failed = ~q.answer.ok
          /\ asked.lists[r].at = IF q.answer.ok THEN q.answer.result.at
                                 ELSE w.lists[r].at
      BY <1>2, <1>7, <1>8, <2>4
    <2>7. QED BY <1>11, <2>3, <2>5, <2>6, ViewListed DEF u, q
  <1>12. ASSUME q.method = "model/list" PROVE Sound(bare, J, s)
    <2>1. /\ Fields \subseteq DOMAIN bare
          /\ \A f \in Fields \ {"lists"} : bare[f] = listed[f]
          /\ DOMAIN bare.lists = DOMAIN listed.lists
          /\ \A x \in Readers \ {r} : bare.lists[x] = listed.lists[x]
          /\ bare.lists[r] = [entry EXCEPT !.recommend = Null]
      BY <1>5, <1>8 DEF Formed, Fields
    <2>2. /\ ListFields \subseteq DOMAIN bare.lists[r]
          /\ bare.lists[r].seen = entry.seen
          /\ bare.lists[r].skipped = entry.skipped
          /\ bare.lists[r].failed = entry.failed /\ bare.lists[r].at = entry.at
      BY <1>7, <2>1 DEF ListFields
    <2> HIDE DEF bare
    <2>3. bare.sent = u.sent
      BY <1>9, <2>1 DEF Fields
    <2>4. Turn(u, bare, r)
      <3>1. Sends(u, bare, r) BY <2>3 DEF Sends
      <3>2. QED BY <1>7, <1>8, <2>1, <2>2, <3>1 DEF Turn
    <2>5. /\ bare.lists[r].failed = ~q.answer.ok
          /\ bare.lists[r].at = IF q.answer.ok THEN q.answer.result.at
                                ELSE w.lists[r].at
      BY <1>2, <1>7, <2>2
    <2>6. QED BY <1>12, <2>3, <2>4, <2>5, ViewListed DEF u, q
  <1>13. ASSUME q.method # "model/list" PROVE Sound(advised, J, s)
    <2>1. Apart(u, J, s, r) /\ ListTyped(u, r, J) /\ ListFresh(u, r)
      BY <1>1, <1>2, <1>4, <1>13 DEF Apart
    <2> DEFINE k == [l EXCEPT !.recommend = q.answer.result]
    <2>2. advised = [u EXCEPT !.lists[r] = k]
      OBVIOUS
    <2>3. Alike(l, k)
      BY <1>5 DEF Alike, ListFields
    <2> HIDE DEF k, advised
    <2>4. advised.sent = u.sent /\ advised.lists[r] = k /\ Apart(advised, J, s, r)
      BY <1>1, <1>2, <2>1, <2>2, ListSet
    <2>5. Same(u, advised, r)
      BY <2>4 DEF Same, From
    <2>6. ListTyped(advised, r, J) /\ ListFresh(advised, r)
      BY <2>1, <2>3, <2>4, <2>5, ReaderKept
    <2>7. QED BY <2>4, <2>6 DEF Sound, Apart
  <1>14. Sound(ViewTakes(u, q, r), J, s)
    BY <1>6, <1>11, <1>12, <1>13
  <1>15. QED BY <1>14 DEF u, q

\* The marker's doctor is asked behind its list, whose word it keeps.
LEMMA MarkerListed ==
    ASSUME NEW w, Formed(w), 1 \in DOMAIN w.sent, NEW J \in Nat, NEW s,
           Sound(w, J, s), w.sent[1].from = "marker",
           w.sent[1].method = "model/list", w.sent[1].answer # Null,
           NEW v, Turn(Rest(w), v, "marker"), NEW m,
           v.sent = Append(Rest(w).sent, m), m.from = "marker",
           m.method = "doctor/run", m.answer = Null, m.kept = w.sent[1].answer,
           v.lists["marker"].failed = ~w.sent[1].answer.ok,
           v.lists["marker"].at = w.lists["marker"].at
    PROVE  Sound(v, J, s)
  <1> DEFINE u == Rest(w)
             q == w.sent[1]
             r == "marker"
             n == Len(u.sent) + 1
             Lists(x) == AskedFor(x, r, "model/list")
             Docs(x) == AskedFor(x, r, "doctor/run")
  <1>1. r \in Readers
    BY DEF Readers
  <1>2. /\ Formed(u) /\ u.lists[r] = w.lists[r] /\ ListTyped(u, r, J)
    BY <1>1, RestSound
  <1>3. /\ ListTyped(w, r, J) /\ ListFresh(w, r)
        /\ 1 \in From(w, r) /\ 1 \in Lists(w)
    BY <1>1 DEF Sound, From, AskedFor
  <1>4. /\ Apart(v, J, s, r)
        /\ \A at : Current(w.lists[r], r, at) => Current(v.lists[r], r, at)
    BY <1>1, TurnApart
  <1>5. /\ \A i : IsLast(i, Lists(u)) => IsLast(i + 1, Lists(w))
        /\ \A i \in From(u, r) : u.sent[i] = w.sent[i + 1]
        /\ Lists(u) = {} => \A j \in Lists(w) : j = 1
    BY RestAsked
  <1> HIDE DEF u, q
  <1>6. /\ DOMAIN u.sent = 1..Len(u.sent) /\ Len(u.sent) \in Nat
        /\ DOMAIN v.sent = 1..n
        /\ \A i \in DOMAIN u.sent : v.sent[i] = u.sent[i]
        /\ v.sent[n] = m
    BY <1>2, Appended DEF Formed, u
  <1>7. Lists(v) = Lists(u) /\ \A i \in Lists(u) : v.sent[i] = u.sent[i]
    BY <1>6 DEF AskedFor, From
  <1>8. n \in Docs(v) /\ \A i \in Docs(v) : IsLast(i, Docs(v)) => i = n
    BY <1>6 DEF AskedFor, From, IsLast
  <1>9. ListTyped(v, r, J)
    <2>1. q.answer.ok => q.answer.result.at \in 0 .. J
      BY <1>3 DEF ListTyped, Granted, q
    <2>2. /\ ListFields \subseteq DOMAIN v.lists[r]
          /\ v.lists[r].at \in 0 .. J /\ v.lists[r].seen \in 0 .. J
      BY <1>2 DEF ListTyped, Turn, u
    <2>3. ASSUME NEW i \in From(v, r)
          PROVE  /\ v.sent[i].method \in {"model/list", "doctor/run"}
                 /\ v.sent[i].method = "model/list" /\ Granted(v.sent[i]) =>
                        v.sent[i].answer.result.at \in 0 .. J
                 /\ v.sent[i].method = "doctor/run" /\ v.sent[i].kept.ok =>
                        v.sent[i].kept.result.at \in 0 .. J
      <3>1. CASE i \in DOMAIN u.sent
        <4>1. i \in From(u, r) /\ v.sent[i] = u.sent[i]
          BY <1>6, <3>1 DEF From
        <4>2. QED BY <1>1, <1>2, <4>1 DEF ListTyped
      <3>2. CASE i \notin DOMAIN u.sent
        <4>1. v.sent[i] = m BY <1>6, <3>2 DEF From
        <4>2. QED BY <2>1, <4>1 DEF q
      <3>3. QED BY <3>1, <3>2
    <2>4. QED BY <2>2, <2>3 DEF ListTyped
  <1>10. ListFresh(v, r)
    <2>1. ASSUME NEW i \in Lists(v), IsLast(i, Lists(v)), Granted(v.sent[i])
          PROVE  Current(v.lists[r], r, v.sent[i].answer.result.at)
      <3>1. IsLast(i + 1, Lists(w)) /\ v.sent[i] = w.sent[i + 1]
        BY <1>5, <1>7, <2>1 DEF AskedFor
      <3>2. i + 1 \in Lists(w)
        BY <3>1 DEF IsLast
      <3>3. QED BY <1>3, <1>4, <2>1, <3>1, <3>2 DEF ListFresh
    <2>2. ASSUME Lists(v) = {}, ~v.lists[r].failed
          PROVE  m.kept.ok /\ Current(v.lists[r], r, m.kept.result.at)
      <3>1. Granted(q) /\ m.kept = q.answer
        BY <2>2 DEF Granted, q
      <3>2. IsLast(1, Lists(w))
        BY <1>3, <1>5, <1>7, <2>2 DEF IsLast
      <3>3. Current(w.lists[r], r, q.answer.result.at)
        BY <1>3, <3>1, <3>2 DEF ListFresh, q
      <3>4. QED BY <1>4, <3>1, <3>3 DEF Granted
    <2>3. QED BY <1>6, <1>8, <2>1, <2>2 DEF ListFresh
  <1>11. QED BY <1>4, <1>9, <1>10 DEF Sound, Apart

\* Then it shows the list the doctor kept, unless the doctor failed.
LEMMA MarkerShown ==
    ASSUME NEW w, Formed(w), 1 \in DOMAIN w.sent, NEW J \in Nat, NEW s,
           Sound(w, J, s), w.sent[1].from = "marker",
           w.sent[1].method = "doctor/run",
           NEW v, Turn(Rest(w), v, "marker"), v.sent = Rest(w).sent,
           \/ v.lists["marker"].failed /\ v.lists["marker"].at = w.lists["marker"].at
           \/ /\ v.lists["marker"].failed = w.lists["marker"].failed
              /\ v.lists["marker"].at = IF w.sent[1].kept.ok
                                        THEN w.sent[1].kept.result.at
                                        ELSE w.lists["marker"].at
    PROVE  Sound(v, J, s)
  <1> DEFINE u == Rest(w)
             q == w.sent[1]
             r == "marker"
             Lists(x) == AskedFor(x, r, "model/list")
             Docs(x) == AskedFor(x, r, "doctor/run")
  <1>1. r \in Readers
    BY DEF Readers
  <1>2. /\ Formed(u) /\ u.lists[r] = w.lists[r] /\ ListTyped(u, r, J)
    BY <1>1, RestSound
  <1>3. /\ ListTyped(w, r, J) /\ ListFresh(w, r)
        /\ 1 \in From(w, r) /\ 1 \in Docs(w) /\ 1 \notin Lists(w)
    BY <1>1 DEF Sound, From, AskedFor
  <1>4. /\ Apart(v, J, s, r)
        /\ \A at : Current(w.lists[r], r, at) => Current(v.lists[r], r, at)
    BY <1>1, TurnApart
  <1>5. /\ \A m : \A i : IsLast(i, AskedFor(u, r, m)) => IsLast(i + 1, AskedFor(w, r, m))
        /\ \A i \in From(u, r) : u.sent[i] = w.sent[i + 1]
        /\ Lists(u) = {} => \A j \in Lists(w) : j = 1
        /\ Docs(u) = {} => \A j \in Docs(w) : j = 1
    BY RestAsked
  <1>6. v.sent = u.sent
    OBVIOUS
  <1> HIDE DEF u, q
  <1>7. \A m : AskedFor(v, r, m) = AskedFor(u, r, m)
    BY <1>6 DEF AskedFor, From
  <1>8. ListTyped(v, r, J)
    <2>1. q.kept.ok => q.kept.result.at \in 0 .. J
      BY <1>3 DEF ListTyped, q
    <2>2. v.lists[r].at \in 0 .. J
      BY <1>3, <2>1 DEF ListTyped, q
    <2>3. ListFields \subseteq DOMAIN v.lists[r] /\ v.lists[r].seen \in 0 .. J
      BY <1>2 DEF ListTyped, Turn, u
    <2>4. QED BY <1>2, <1>6, <2>2, <2>3 DEF ListTyped, From
  <1>9. ListFresh(v, r)
    <2>1. ASSUME NEW m, NEW i, IsLast(i, AskedFor(v, r, m))
          PROVE  /\ IsLast(i + 1, AskedFor(w, r, m)) /\ i + 1 \in AskedFor(w, r, m)
                 /\ v.sent[i] = w.sent[i + 1]
      <3>1. IsLast(i, AskedFor(u, r, m)) BY <1>7, <2>1
      <3>2. i \in From(u, r) BY <3>1 DEF IsLast, AskedFor
      <3>3. QED BY <1>5, <1>6, <3>1, <3>2 DEF IsLast
    <2>2. \A i \in Lists(v) : IsLast(i, Lists(v)) /\ Granted(v.sent[i]) =>
              Current(v.lists[r], r, v.sent[i].answer.result.at)
      BY <1>3, <1>4, <2>1 DEF ListFresh
    <2>3. ASSUME Lists(v) = {}, ~v.lists[r].failed
          PROVE  /\ Docs(v) = {} => Current(v.lists[r], r, v.lists[r].at)
                 /\ \A i \in Docs(v) : IsLast(i, Docs(v)) =>
                        /\ v.sent[i].kept.ok
                        /\ Current(v.lists[r], r, v.sent[i].kept.result.at)
      <3>1. Lists(w) = {} /\ ~w.lists[r].failed
        BY <1>3, <1>5, <1>7, <2>3
      <3>2. \A i \in Docs(w) : IsLast(i, Docs(w)) =>
                /\ w.sent[i].kept.ok
                /\ Current(v.lists[r], r, w.sent[i].kept.result.at)
        BY <1>3, <1>4, <3>1 DEF ListFresh
      <3>3. Docs(v) = {} => IsLast(1, Docs(w))
        BY <1>3, <1>5, <1>7 DEF IsLast
      <3>4. Docs(v) = {} => Current(v.lists[r], r, v.lists[r].at)
        BY <1>3, <2>3, <3>2, <3>3 DEF q
      <3>5. QED BY <2>1, <3>2, <3>4
    <2>4. QED BY <2>2, <2>3 DEF ListFresh
  <1>10. QED BY <1>4, <1>8, <1>9 DEF Sound, Apart

\* The marker takes the list, and then the doctor's word.
LEMMA MarkerTakesSound ==
    ASSUME NEW w, Formed(w), 1 \in DOMAIN w.sent, NEW J \in Nat, NEW s,
           Sound(w, J, s), w.sent[1].from = "marker", w.sent[1].answer # Null
    PROVE  Sound(MarkerTakes(Rest(w), w.sent[1]), J, s)
  <1> DEFINE u == Rest(w)
             q == w.sent[1]
             r == "marker"
             l == u.lists[r]
             heard == [l EXCEPT !.failed = ~q.answer.ok]
             lost == [l EXCEPT !.failed = TRUE]
             given == [l EXCEPT !.models = IF q.kept.ok THEN q.kept.result.models
                                           ELSE Null,
                                !.at = IF q.kept.ok THEN q.kept.result.at ELSE @]
             noted == [u EXCEPT !.lists[r] = heard]
             failing == [u EXCEPT !.lists[r] = lost]
             shown == [u EXCEPT !.lists[r] = given]
             asked == Send(noted, r, "doctor/run", Null, q.answer)
  <1>1. r \in Readers
    BY DEF Readers
  <1>2. /\ Formed(u) /\ Readers \subseteq DOMAIN u.lists
        /\ ListTyped(u, r, J) /\ u.lists[r] = w.lists[r]
    BY <1>1, RestSound
  <1>3. q.method \in {"model/list", "doctor/run"}
    <2>1. 1 \in From(w, r) /\ ListTyped(w, r, J)
      BY <1>1 DEF From, Sound
    <2>2. QED BY <2>1 DEF ListTyped
  <1> HIDE DEF u
  <1>4. "lists" \in DOMAIN u /\ r \in DOMAIN u.lists /\ ListFields \subseteq DOMAIN l
    BY <1>1, <1>2 DEF Formed, Fields, ListTyped
  <1>5. \/ q.method = "model/list" /\ MarkerTakes(u, q) = asked
        \/ q.method = "doctor/run" /\ MarkerTakes(u, q) \in {shown, failing}
    <2>1. /\ noted = [u EXCEPT !.lists["marker"].failed = ~q.answer.ok]
          /\ failing = [u EXCEPT !.lists["marker"].failed = TRUE]
          /\ shown = [u EXCEPT
                 !.lists["marker"].models = IF q.kept.ok THEN q.kept.result.models
                                            ELSE Null,
                 !.lists["marker"].at = IF q.kept.ok THEN q.kept.result.at
                                        ELSE @]
      BY <1>4 DEF ListFields
    <2> HIDE DEF noted, failing, shown, q
    <2>2. QED BY <1>3, <2>1 DEF MarkerTakes
  <1>6. ASSUME NEW k \in {heard, lost, given}
        PROVE  LET v == [u EXCEPT !.lists[r] = k]
               IN  /\ Fields \subseteq DOMAIN v
                   /\ \A f \in Fields \ {"lists"} : v[f] = u[f]
                   /\ DOMAIN v.lists = DOMAIN u.lists
                   /\ \A x \in Readers \ {r} : v.lists[x] = u.lists[x]
                   /\ v.lists[r] = k
    <2> HIDE DEF heard, lost, given
    <2>1. QED BY <1>2, <1>4 DEF Formed, Fields
  <1>7. \A k \in {heard, lost, given} :
            /\ ListFields \subseteq DOMAIN k
            /\ k.seen = l.seen /\ k.skipped = l.skipped
    BY <1>4 DEF ListFields
  <1>8. /\ heard.failed = ~q.answer.ok /\ heard.at = l.at
        /\ lost.failed /\ lost.at = l.at
        /\ given.failed = l.failed
        /\ given.at = IF q.kept.ok THEN q.kept.result.at ELSE l.at
    BY <1>4 DEF ListFields
  <1> HIDE DEF heard, lost, given, q
  <1>9. ASSUME q.method = "model/list" PROVE Sound(asked, J, s)
    <2> DEFINE m == [from |-> r, method |-> "doctor/run", about |-> Null,
                     kept |-> q.answer, answer |-> Null]
    <2>1. /\ Fields \subseteq DOMAIN noted
          /\ \A f \in Fields \ {"lists"} : noted[f] = u[f]
          /\ DOMAIN noted.lists = DOMAIN u.lists
          /\ \A x \in Readers \ {r} : noted.lists[x] = u.lists[x]
          /\ noted.lists[r] = heard
      BY <1>6
    <2> HIDE DEF noted
    <2>2. noted.sent = u.sent /\ noted.panels = u.panels
          /\ noted.badges = u.badges /\ noted.dialogs = u.dialogs
      BY <2>1 DEF Fields
    <2>3. Formed(noted)
      BY <1>2, <2>1, <2>2 DEF Formed
    <2>4. /\ Fields \subseteq DOMAIN asked
          /\ \A f \in Fields \ {"sent"} : asked[f] = noted[f]
          /\ asked.sent = Append(u.sent, m) /\ Sends(u, asked, r)
      <3>1. Sends(noted, asked, r) /\ asked.sent = Append(noted.sent, m)
            /\ Fields \subseteq DOMAIN asked
            /\ \A f \in Fields \ {"sent"} : asked[f] = noted[f]
        BY <2>3, SendFacts
      <3> HIDE DEF asked, m
      <3>2. QED BY <2>2, <3>1 DEF Sends
    <2> HIDE DEF asked
    <2>5. asked.lists = noted.lists
      BY <2>4 DEF Fields
    <2>6. Turn(u, asked, r)
      BY <1>7, <2>1, <2>4, <2>5 DEF Turn
    <2>7. /\ m.from = r /\ m.method = "doctor/run" /\ m.answer = Null
          /\ m.kept = q.answer
      OBVIOUS
    <2> HIDE DEF m
    <2>8. /\ asked.lists[r].failed = ~q.answer.ok
          /\ asked.lists[r].at = w.lists[r].at
      BY <1>2, <1>8, <2>1, <2>5
    <2>9. QED BY <1>9, <2>4, <2>6, <2>7, <2>8, MarkerListed DEF u, q
  <1>10. ASSUME q.method = "doctor/run", NEW v \in {shown, failing}
         PROVE  Sound(v, J, s)
    <2>1. /\ Fields \subseteq DOMAIN v
          /\ \A f \in Fields \ {"lists"} : v[f] = u[f]
          /\ DOMAIN v.lists = DOMAIN u.lists
          /\ \A x \in Readers \ {r} : v.lists[x] = u.lists[x]
          /\ v.lists[r] \in {given, lost}
      BY <1>6
    <2> HIDE DEF shown, failing
    <2>2. v.sent = u.sent
      BY <2>1 DEF Fields
    <2>3. Turn(u, v, r)
      <3>1. Sends(u, v, r) BY <2>2 DEF Sends
      <3>2. QED BY <1>7, <2>1, <3>1 DEF Turn
    <2>4. \/ v.lists[r].failed /\ v.lists[r].at = w.lists[r].at
          \/ /\ v.lists[r].failed = w.lists[r].failed
             /\ v.lists[r].at = IF q.kept.ok THEN q.kept.result.at
                                ELSE w.lists[r].at
      BY <1>2, <1>8, <2>1
    <2>5. QED BY <1>10, <2>2, <2>3, <2>4, MarkerShown DEF u, q
  <1>11. Sound(MarkerTakes(u, q), J, s)
    BY <1>5, <1>9, <1>10
  <1>12. QED BY <1>11 DEF u, q

-----------------------------------------------------------------------------
(***************************************************************************)
(* The other handlers.                                                     *)
(***************************************************************************)
\* Nothing is sent.
LEMMA QuietSound ==
    ASSUME NEW w, NEW v, NEW J, NEW s, Formed(w), Sound(w, J, s),
           v.sent = w.sent, v.lists = w.lists, Heard(v.store, J, DOMAIN s.scripts),
           v.conn \in Connections, v.caps \subseteq s.caps,
           v.pinned \in DOMAIN s.scripts \cup {Null},
           \A i \in DOMAIN v.dialogs :
               v.dialogs[i].stage \in Stages /\ v.dialogs[i].task \in DOMAIN s.scripts
    PROVE  Sound(v, J, s)
  <1>1. Sends(w, v, "none") /\ "none" \notin Readers \cup {"create"}
    BY DEF Sends, Readers
  <1>2. QED BY <1>1, SoundKept

\* A request of none of the readers, and of the composer only about a task.
LEMMA SendSound ==
    ASSUME NEW w, NEW J \in Nat, NEW s, Formed(w), Sound(w, J, s),
           NEW from, from \notin Readers, NEW method, NEW about,
           from = "create" => about \in DOMAIN s.scripts, NEW kept
    PROVE  Sound(Send(w, from, method, about, kept), J, s)
  <1> DEFINE v == Send(w, from, method, about, kept)
             q == [from |-> from, method |-> method, about |-> about,
                   kept |-> kept, answer |-> Null]
  <1>1. /\ \A f \in Fields \ {"sent"} : v[f] = w[f]
        /\ v.sent = Append(w.sent, q) /\ Sends(w, v, from)
    BY SendFacts
  <1>2. /\ DOMAIN w.sent = 1..Len(w.sent) /\ Len(w.sent) \in Nat
        /\ DOMAIN v.sent = 1..Len(w.sent) + 1
        /\ \A i \in DOMAIN w.sent : v.sent[i] = w.sent[i]
        /\ v.sent[Len(w.sent) + 1] = q
    BY <1>1, Appended DEF Formed
  <1> HIDE DEF v
  <1>3. /\ v.lists = w.lists /\ v.store = w.store /\ v.conn = w.conn
        /\ v.caps = w.caps /\ v.pinned = w.pinned /\ v.dialogs = w.dialogs
    BY <1>1 DEF Fields
  <1>4. \A i \in From(v, "create") : v.sent[i].about \in DOMAIN s.scripts
    <2>1. \A i \in From(w, "create") : w.sent[i].about \in DOMAIN s.scripts
      BY DEF Sound, Shell
    <2>2. ASSUME NEW i \in From(v, "create")
          PROVE  v.sent[i].about \in DOMAIN s.scripts
      <3>1. CASE i \in DOMAIN w.sent
        BY <1>2, <2>1, <2>2, <3>1 DEF From
      <3>2. CASE i \notin DOMAIN w.sent
        <4>1. v.sent[i] = q BY <1>2, <3>2 DEF From
        <4>2. QED BY <4>1 DEF From
      <3>3. QED BY <3>1, <3>2
    <2>3. QED BY <2>2
  <1>5. Shell(v, J, s)
    BY <1>3, <1>4 DEF Sound, Shell
  <1>6. ASSUME NEW r \in Readers PROVE ListTyped(v, r, J) /\ ListFresh(v, r)
    <2>1. Same(w, v, r)
      BY <1>1, OthersSame
    <2>2. ListTyped(w, r, J) /\ ListFresh(w, r) /\ v.lists[r] = w.lists[r]
      BY <1>3 DEF Sound
    <2>3. QED BY <2>1, <2>2, ReaderKept DEF Alike
  <1>7. QED BY <1>3, <1>5, <1>6 DEF Sound, v

\* The store was replaced by one that has heard no more than was told.
LEMMA StoreSet ==
    ASSUME NEW w, NEW d, Loose(w, d), NEW J \in Nat, NEW s, Sound(w, J, s),
           NEW st, Heard(st, J, DOMAIN s.scripts)
    PROVE  Sound(StoreChanged([w EXCEPT !.store = st]), J, s)
  <1> DEFINE v == [w EXCEPT !.store = st]
  <1>1. /\ Fields \subseteq DOMAIN v /\ v.store = st
        /\ \A f \in Fields \ {"store"} : v[f] = w[f]
    BY DEF Loose, Formed, Fields
  <1> HIDE DEF v
  <1>2. /\ v.sent = w.sent /\ v.dialogs = w.dialogs /\ v.badges = w.badges
        /\ v.panels = w.panels /\ v.lists = w.lists /\ v.conn = w.conn
        /\ v.caps = w.caps /\ v.pinned = w.pinned
    BY <1>1 DEF Fields
  <1>3. Loose(v, d)
    BY <1>1, <1>2, AsideKept
  <1>4. Sound(v, J, s)
    BY <1>1, <1>2, QuietSound DEF Sound, Shell, Loose
  <1>5. QED BY <1>3, <1>4, StoreSound DEF v

\* Another task is pinned, or none.
LEMMA PinSound ==
    ASSUME NEW w, NEW d, Loose(w, d), NEW J \in Nat, NEW s, Sound(w, J, s),
           NEW t \in DOMAIN s.scripts \cup {Null}
    PROVE  Sound(FocusChanged([w EXCEPT !.pinned = t]), J, s)
  <1> DEFINE v == [w EXCEPT !.pinned = t]
  <1>1. /\ Fields \subseteq DOMAIN v /\ v.pinned = t
        /\ \A f \in Fields \ {"pinned"} : v[f] = w[f]
    BY DEF Loose, Formed, Fields
  <1> HIDE DEF v
  <1>2. /\ v.sent = w.sent /\ v.dialogs = w.dialogs /\ v.badges = w.badges
        /\ v.panels = w.panels /\ v.lists = w.lists /\ v.conn = w.conn
        /\ v.caps = w.caps /\ v.store = w.store
    BY <1>1 DEF Fields
  <1>3. Loose(v, d)
    BY <1>1, <1>2, AsideKept
  <1>4. Sound(v, J, s)
    BY <1>1, <1>2, QuietSound DEF Sound, Shell, Loose
  <1>5. QED BY <1>3, <1>4, FocusSound DEF v

\* The connection changed, and with it what Core can do.
LEMMA ConnSound ==
    ASSUME NEW w, NEW d, Tight(w, d), NEW J \in Nat, NEW s, Sound(w, J, s),
           NEW v, Fields \subseteq DOMAIN v, v.lists = w.lists,
           \A f \in Fields \ {"lists", "conn", "caps", "alive"} : v[f] = w[f],
           v.conn \in Connections, v.caps \subseteq s.caps
    PROVE  /\ Sound(v, J, s) /\ Sound(SupervisorChanged(v), J, s)
           /\ SupervisorChanged(v).conn = v.conn
  <1>1. /\ v.sent = w.sent /\ v.dialogs = w.dialogs /\ v.pinned = w.pinned
        /\ v.store = w.store
    BY DEF Fields
  <1>2. Loose(v, d) BY BesideKept DEF Tight
  <1>3. Sound(v, J, s)
    BY <1>1, QuietSound DEF Sound, Shell, Tight, Loose
  <1>4. QED BY <1>2, <1>3, FocusSound

\* supervisor.open.
LEMMA OpenSound ==
    ASSUME NEW w, NEW d, Tight(w, d), NEW J \in Nat, NEW s, Sound(w, J, s)
    PROVE  Sound(Open(w), J, s)
  <1> DEFINE v == [w EXCEPT !.conn = "connecting"]
  <1>1. Fields \subseteq DOMAIN w
    BY DEF Tight, Loose, Formed
  <1>2. /\ Fields \subseteq DOMAIN v /\ v.conn = "connecting"
        /\ \A f \in Fields \ {"conn"} : v[f] = w[f]
    BY <1>1 DEF Fields
  <1> HIDE DEF v
  <1>3. v.lists = w.lists /\ v.caps = w.caps /\ v.conn \in Connections
    BY <1>2 DEF Fields, Connections
  <1>4. v.caps \subseteq s.caps
    BY <1>3 DEF Sound, Shell
  <1>5. Sound(SupervisorChanged(v), J, s)
    BY <1>2, <1>3, <1>4, ConnSound
  <1>6. Formed(SupervisorChanged(v))
    BY <1>2, ConnKept DEF Tight, Loose
  <1>7. "session" \notin Readers /\ "session" # "create"
    BY DEF Readers
  <1> DEFINE z == SupervisorChanged(v)
  <1> HIDE DEF z
  <1>8. Sound(Send(z, "session", "session/open", Null, Null), J, s)
    <2>1. Formed(z) /\ Sound(z, J, s) BY <1>5, <1>6 DEF z
    <2>2. QED BY <1>7, <2>1, SendSound
  <1>9. QED BY <1>8 DEF Open, v, z

\* core/connectionState.
LEMMA ConnectedSound ==
    ASSUME NEW w, NEW d, Tight(w, d), NEW J \in Nat, NEW s, Sound(w, J, s),
           NEW c \in Connections
    PROVE  Sound(Connected(w, c), J, s)
  <1> DEFINE st == setConnection(w.store, c)
             told == StoreChanged([w EXCEPT !.store = st])
             v == [told EXCEPT !.conn = c]
  <1>1. Heard(st, J, DOMAIN s.scripts)
    <2>1. Heard(w.store, J, DOMAIN s.scripts)
      BY DEF Sound, Shell
    <2>2. /\ DOMAIN st = DOMAIN w.store /\ st.lastSeq = w.store.lastSeq
          /\ st.tasks = w.store.tasks
          /\ st.modelInstalls = w.store.modelInstalls
          /\ st.modelServers = w.store.modelServers
      BY <2>1 DEF setConnection, Heard, StoreFields, emptyStore
    <2>3. QED BY <2>1, <2>2 DEF Heard
  <1>2. Connected(w, c) = IF told.conn = c THEN told ELSE SupervisorChanged(v)
    BY DEF Connected
  <1> HIDE DEF st
  <1>3. Tight(told, d) /\ Sound(told, J, s)
    BY <1>1, StoreKept, StoreSet DEF Tight
  <1> HIDE DEF told
  <1>4. Fields \subseteq DOMAIN told
    BY <1>3 DEF Tight, Loose, Formed
  <1>5. /\ Fields \subseteq DOMAIN v /\ v.conn = c
        /\ \A f \in Fields \ {"conn"} : v[f] = told[f]
    BY <1>4 DEF Fields
  <1> HIDE DEF v
  <1>6. v.lists = told.lists /\ v.caps = told.caps
    BY <1>5 DEF Fields
  <1>7. v.caps \subseteq s.caps
    BY <1>3, <1>6 DEF Sound, Shell
  <1>8. Sound(SupervisorChanged(v), J, s)
    BY <1>3, <1>5, <1>6, <1>7, ConnSound
  <1>9. QED BY <1>2, <1>3, <1>8

\* The session is open, or it failed to; then the marker asks.
LEMMA SessionSound ==
    ASSUME NEW w, NEW d, Tight(w, d), NEW J \in Nat, Sound(w, J, scn), NEW q
    PROVE  Sound(SessionTakes(w, q), J, scn)
  <1> DEFINE broken == [w EXCEPT !.conn = "failed", !.caps = {}]
             open == [w EXCEPT !.conn = "ready", !.caps = scn.caps]
             z == SupervisorChanged(open)
  <1>1. Fields \subseteq DOMAIN w
    BY DEF Tight, Loose, Formed
  <1>2. /\ Fields \subseteq DOMAIN broken /\ broken.conn = "failed"
        /\ broken.caps = {} /\ \A f \in Fields \ {"conn", "caps"} : broken[f] = w[f]
    BY <1>1 DEF Fields
  <1>3. /\ Fields \subseteq DOMAIN open /\ open.conn = "ready"
        /\ open.caps = scn.caps
        /\ \A f \in Fields \ {"conn", "caps"} : open[f] = w[f]
    BY <1>1 DEF Fields
  <1>4. SessionTakes(w, q) \in {SupervisorChanged(broken), SupervisorChanged(open),
                               RefreshList(z, "marker")}
    BY DEF SessionTakes
  <1> HIDE DEF broken, open
  <1>5. broken.lists = w.lists /\ open.lists = w.lists
        /\ broken.conn \in Connections /\ open.conn \in Connections
        /\ broken.caps \subseteq scn.caps /\ open.caps \subseteq scn.caps
    BY <1>2, <1>3 DEF Fields, Connections
  <1>6. Sound(SupervisorChanged(broken), J, scn)
    BY <1>2, <1>5, ConnSound
  <1>7. Sound(z, J, scn) /\ z.conn = "ready" /\ Formed(z)
    <2>1. Sound(z, J, scn) /\ z.conn = "ready"
      BY <1>3, <1>5, ConnSound
    <2>2. Formed(z)
      BY <1>3, ConnKept DEF Tight, Loose
    <2>3. QED BY <2>1, <2>2
  <1>8. Sound(RefreshList(z, "marker"), J, scn)
    <2>1. "marker" \in Readers BY DEF Readers
    <2> HIDE DEF z
    <2>2. Apart(z, J, scn, "marker") /\ ListTyped(z, "marker", J)
      BY <1>7, <2>1 DEF Sound, Apart
    <2>3. QED BY <1>7, <2>1, <2>2, ListAsked
  <1>9. QED BY <1>4, <1>6, <1>7, <1>8

\* A dialog moves on.
LEMMA StageSound ==
    ASSUME NEW w, Formed(w), NEW J \in Nat, NEW s, Sound(w, J, s),
           NEW i \in DOMAIN w.dialogs, NEW stage \in Stages
    PROVE  Sound([w EXCEPT !.dialogs[i].stage = stage], J, s)
  <1> DEFINE v == [w EXCEPT !.dialogs[i].stage = stage]
  <1>1. /\ \A f \in Fields \ {"dialogs"} : v[f] = w[f]
        /\ v.dialogs = [w.dialogs EXCEPT ![i].stage = stage]
    BY DEF Formed, Fields
  <1>2. DOMAIN v.dialogs = DOMAIN w.dialogs /\
        \A k \in DOMAIN w.dialogs :
            /\ v.dialogs[k].task = w.dialogs[k].task
            /\ v.dialogs[k].stage = IF k = i THEN stage ELSE w.dialogs[k].stage
    BY <1>1 DEF Formed
  <1> HIDE DEF v
  <1>3. /\ v.sent = w.sent /\ v.lists = w.lists /\ v.store = w.store
        /\ v.conn = w.conn /\ v.caps = w.caps /\ v.pinned = w.pinned
    BY <1>1 DEF Fields
  <1>4. Shell(w, J, s) BY DEF Sound
  <1>5. \A k \in DOMAIN v.dialogs : /\ v.dialogs[k].stage \in Stages
                                    /\ v.dialogs[k].task \in DOMAIN s.scripts
    BY <1>2, <1>4 DEF Shell
  <1>6. QED BY <1>3, <1>4, <1>5, QuietSound DEF Shell, v

\* The cancel was granted, so the resume follows; or the discard is over.
LEMMA DiscardSound ==
    ASSUME NEW w, Formed(w), NEW J \in Nat, NEW s, Sound(w, J, s),
           NEW q, q.kept \in DOMAIN w.dialogs
    PROVE  Sound(DiscardTakes(w, q), J, s)
  <1>1. "discard" \notin Readers /\ "discard" # "create"
        /\ {"discarded", "failed"} \subseteq Stages
    BY DEF Readers, Stages
  <1>2. Sound(Send(w, "discard", "task/resume", q.about, q.kept), J, s)
    BY <1>1, SendSound
  <1>3. \A stage \in Stages : Sound([w EXCEPT !.dialogs[q.kept].stage = stage], J, s)
    BY StageSound
  <1>4. QED BY <1>1, <1>2, <1>3 DEF DiscardTakes

\* The panels and the badges take theirs.
LEMMA PanelsTakeSound ==
    ASSUME NEW w, Formed(w), NEW J \in Nat, NEW s, Sound(w, J, s), NEW q
    PROVE  Sound(PanelsTake(w, q), J, s)
  <1> DEFINE got  == IF q.method = "task/report"
                     THEN [w EXCEPT !.panels.next.report = q.answer.result]
                     ELSE [w EXCEPT !.panels.next.ownership =
                                        Or(q.answer.result, <<>>)]
             told == [got EXCEPT !.panels.failed = @ \/ ~q.answer.ok]
             asked == Send(told, "panels", "ledger/changes", q.about, Null)
             shown == FetchShown(told)
  <1>1. Fields \subseteq DOMAIN got /\ \A f \in Fields \ {"panels"} : got[f] = w[f]
    BY DEF Formed, Fields
  <1>2. PanelsTake(w, q) \in {asked, shown}
    BY DEF PanelsTake
  <1> HIDE DEF got
  <1>3. Fields \subseteq DOMAIN told /\ \A f \in Fields \ {"panels"} : told[f] = w[f]
    BY <1>1 DEF Fields
  <1> HIDE DEF told
  <1>4. told.sent = w.sent
    BY <1>3 DEF Fields
  <1>5. Beside(w, told, "panels")
    BY <1>3, <1>4 DEF Beside, Sends
  <1>6. Beside(w, asked, "panels")
    BY <1>4, <1>5, SendBeside
  <1>7. Beside(w, shown, "panels")
    <2>1. Fields \subseteq DOMAIN shown
          /\ \A f \in Fields \ {"panels"} : shown[f] = told[f]
      BY <1>3 DEF FetchShown, Fields
    <2> HIDE DEF shown
    <2>2. shown.sent = w.sent BY <1>4, <2>1 DEF Fields
    <2>3. QED BY <1>3, <2>1, <2>2 DEF Beside, Sends
  <1>8. QED BY <1>2, <1>6, <1>7, BesideSound

LEMMA BadgesTakeSound ==
    ASSUME NEW w, Formed(w), NEW J \in Nat, NEW s, Sound(w, J, s), NEW q
    PROVE  Sound(BadgesTake(w, q), J, s)
  <1> DEFINE v == BadgesTake(w, q)
  <1>1. Fields \subseteq DOMAIN v /\ \A f \in Fields \ {"badges"} : v[f] = w[f]
    BY DEF BadgesTake, Formed, Fields
  <1> HIDE DEF v
  <1>2. v.sent = w.sent BY <1>1 DEF Fields
  <1>3. Beside(w, v, "badges")
    BY <1>1, <1>2 DEF Beside, Sends
  <1>4. QED BY <1>3, BesideSound DEF v

-----------------------------------------------------------------------------
(***************************************************************************)
(* The steps again: what the window has heard, and its lists.              *)
(***************************************************************************)
\* Whoever takes the oldest answer leaves the lists sound.
LEMMA TakenSound ==
    ASSUME NEW w, NEW d, Tight(w, d), NEW J \in Nat, Sound(w, J, scn),
           1 \in DOMAIN w.sent, w.sent[1].answer # Null
    PROVE  Sound(Taken(Rest(w), w.sent[1]), J, scn)
  <1> DEFINE u == Rest(w)
             q == w.sent[1]
  <1>0. Formed(w) /\ Discards(w, d)
    BY DEF Tight, Loose
  <1>1. /\ Formed(u) /\ Shell(u, J, scn) /\ Readers \subseteq DOMAIN u.lists
        /\ \A r \in Readers :
               /\ ListTyped(u, r, J)
               /\ ~(q.from = r /\ q.method \in {"model/list", "doctor/run"})
                      => ListFresh(u, r)
    BY <1>0, RestSound
  <1>2. q.from \notin Readers => Sound(u, J, scn)
    BY <1>1 DEF Sound
  <1>3. q.from \notin {"panels", "badges"} => Tight(u, d)
    BY RestKept DEF Tight, Loose
  <1>4. q.from = "discard" => q.kept \in DOMAIN u.dialogs
    <2>1. u.dialogs = w.dialogs
      BY <1>0, RestFacts DEF Fields
    <2>2. QED BY <1>0, <2>1 DEF Discards, DiscardSent
  <1>5. q.from = "create" => q.about \in DOMAIN scn.scripts
    BY DEF Sound, Shell, From
  <1>6. CASE q.from \in {"models", "picker"}
    <2>1. Taken(u, q) = ViewTakes(u, q, q.from)
      BY <1>6 DEF Taken
    <2>2. QED BY <1>0, <1>6, <2>1, ViewTakesSound
  <1>7. CASE q.from = "marker"
    <2>1. Taken(u, q) = MarkerTakes(u, q) BY <1>7 DEF Taken
    <2>2. QED BY <1>0, <1>7, <2>1, MarkerTakesSound
  <1> HIDE DEF u, q
  <1>8. CASE q.from = "panels"
    <2>1. Taken(u, q) = PanelsTake(u, q) BY <1>8 DEF Taken
    <2>2. q.from \notin Readers BY <1>8 DEF Readers
    <2>3. QED BY <1>1, <1>2, <2>1, <2>2, PanelsTakeSound DEF u, q
  <1>9. CASE q.from = "badges"
    <2>1. Taken(u, q) = BadgesTake(u, q) BY <1>9 DEF Taken
    <2>2. q.from \notin Readers BY <1>9 DEF Readers
    <2>3. QED BY <1>1, <1>2, <2>1, <2>2, BadgesTakeSound DEF u, q
  <1>10. CASE q.from = "removal"
    <2>1. Taken(u, q) = RemovalTakes(u, q) BY <1>10 DEF Taken
    <2>2. Sound(u, J, scn) BY <1>2, <1>10 DEF Readers
    <2>3. /\ "models" \in Readers /\ Apart(u, J, scn, "models")
          /\ ListTyped(u, "models", J)
      BY <2>2 DEF Readers, Sound, Apart
    <2>4. Sound(RefreshList(u, "models"), J, scn)
      BY <1>1, <2>3, ListAsked
    <2>5. QED BY <2>1, <2>2, <2>4 DEF RemovalTakes, u, q
  <1>11. CASE q.from = "session"
    <2>1. Taken(u, q) = SessionTakes(u, q) BY <1>11 DEF Taken
    <2>2. Sound(u, J, scn) BY <1>2, <1>11 DEF Readers
    <2>3. Tight(u, d) BY <1>3, <1>11
    <2>4. QED BY <2>1, <2>2, <2>3, SessionSound DEF u, q
  <1>12. CASE q.from = "discard"
    <2>1. Taken(u, q) = DiscardTakes(u, q) BY <1>12 DEF Taken
    <2>2. Sound(u, J, scn) BY <1>2, <1>12 DEF Readers
    <2>3. QED BY <1>1, <1>4, <1>12, <2>1, <2>2, DiscardSound DEF u, q
  <1>13. CASE q.from = "create"
    <2>1. Taken(u, q) = CreateTakes(u, q) BY <1>13 DEF Taken
    <2>2. Sound(u, J, scn) BY <1>2, <1>13 DEF Readers
    <2>3. Loose(u, d) BY <1>3, <1>13 DEF Tight
    <2>4. Sound(FocusChanged([u EXCEPT !.pinned = q.about]), J, scn)
      BY <1>5, <1>13, <2>2, <2>3, PinSound
    <2>5. QED BY <2>1, <2>2, <2>4 DEF CreateTakes, u, q
  <1>14. CASE q.from \notin {"panels", "badges", "models", "picker", "marker",
                             "removal", "session", "discard", "create"}
    <2>1. Taken(u, q) = u BY <1>14 DEF Taken
    <2>2. Sound(u, J, scn) BY <1>2, <1>14 DEF Readers
    <2>3. QED BY <2>1, <2>2 DEF u, q
  <1>15. QED
    BY <1>6, <1>7, <1>8, <1>9, <1>10, <1>11, <1>12, <1>13, <1>14 DEF u, q

-----------------------------------------------------------------------------
(***************************************************************************)
(* What Core tells and answers.                                            *)
(***************************************************************************)
\* More was told.
LEMMA LaterSound ==
    ASSUME NEW w, NEW s, NEW J \in Nat, Sound(w, J, s)
    PROVE  Sound(w, J + 1, s)
  <1>1. \A n \in 0 .. J : n \in 0 .. J + 1
    OBVIOUS
  <1>2. Heard(w.store, J, DOMAIN s.scripts)
    BY DEF Sound, Shell
  <1>3. Heard(w.store, J + 1, DOMAIN s.scripts)
    BY <1>1, <1>2 DEF Heard
  <1>4. Shell(w, J + 1, s)
    BY <1>3 DEF Sound, Shell
  <1>5. ASSUME NEW r \in Readers PROVE ListTyped(w, r, J + 1)
    <2>1. ListTyped(w, r, J) BY DEF Sound
    <2>2. QED BY <1>1, <2>1 DEF ListTyped
  <1>6. QED BY <1>4, <1>5 DEF Sound

\* A list that Core answers with is as new as the journal.
LEMMA ReanswersSound ==
    ASSUME NEW w, NEW v, NEW s, NEW J \in Nat, Sound(w, J, s), Reanswers(w, v),
           \A i \in DOMAIN w.sent :
               \/ v.sent[i].answer = w.sent[i].answer
               \/ ~Granted(v.sent[i])
               \/ v.sent[i].method = "model/list" =>
                      v.sent[i].answer.result.at = J
    PROVE  Sound(v, J, s)
  <1>1. /\ v.lists = w.lists /\ v.conn = w.conn /\ v.caps = w.caps
        /\ v.store = w.store /\ v.pinned = w.pinned /\ v.dialogs = w.dialogs
    BY DEF Fields, Reanswers
  <1>2. ASSUME NEW who
        PROVE  /\ From(v, who) = From(w, who)
               /\ \A i \in From(w, who) :
                      /\ v.sent[i].method = w.sent[i].method
                      /\ v.sent[i].about = w.sent[i].about
                      /\ v.sent[i].kept = w.sent[i].kept
                      /\ \/ v.sent[i].answer = w.sent[i].answer
                         \/ ~Granted(v.sent[i])
                         \/ v.sent[i].method = "model/list" =>
                                v.sent[i].answer.result.at = J
    BY DEF Reanswers, From
  <1>3. Shell(v, J, s)
    BY <1>1, <1>2 DEF Sound, Shell
  <1>4. ASSUME NEW r \in Readers PROVE ListTyped(v, r, J) /\ ListFresh(v, r)
    <2>1. ListTyped(w, r, J) /\ ListFresh(w, r) /\ v.lists[r] = w.lists[r]
      BY <1>1 DEF Sound
    <2>2. J \in 0 .. J
      OBVIOUS
    <2>3. ListTyped(v, r, J)
      BY <1>2, <2>1, <2>2 DEF ListTyped, Granted
    <2>4. ASSUME NEW m
          PROVE  /\ AskedFor(v, r, m) = AskedFor(w, r, m)
                 /\ \A i \in AskedFor(w, r, m) :
                        /\ v.sent[i].method = m /\ v.sent[i].kept = w.sent[i].kept
                        /\ \/ v.sent[i].answer = w.sent[i].answer
                           \/ ~Granted(v.sent[i])
                           \/ v.sent[i].method = "model/list" =>
                                  v.sent[i].answer.result.at = J
      BY <1>2 DEF AskedFor
    <2>5. Current(v.lists[r], r, J)
      BY <2>1 DEF Current, ListTyped
    <2>6. ListFresh(v, r)
      BY <2>1, <2>4, <2>5 DEF ListFresh, Granted
    <2>7. QED BY <2>3, <2>6
  <1>5. QED BY <1>1, <1>3, <1>4 DEF Sound

\* An event more is told.
LEMMA Longer ==
    ASSUME NEW s, IsSeq(s), NEW e
    PROVE  Len(s) \in Nat /\ Len(Append(s, e)) = Len(s) + 1
  <1> DEFINE S == {s[i] : i \in DOMAIN s} \cup {e}
  <1>1. s \in Seq(S) /\ e \in S
    BY DEF IsSeq
  <1> HIDE DEF S
  <1>2. QED BY <1>1, AppendFacts

\* Answering changes neither what Core has told nor, but for a removal, what is
\* installed.
LEMMA EffectTold ==
    ASSUME CoreFormed(core), NEW q
    PROVE  Effect(q).pos = core.pos /\ Effect(q).weights \subseteq core.weights
  <1> DEFINE c == Effect(q)
  <1>1. \/ c = core
        \/ \E ws, a : c = [core EXCEPT !.weights = core.weights \ ws, !.active = a]
        \/ \E b : c = [core EXCEPT !.born = b]
        \/ \E t, x : c = [core EXCEPT !.driver[t] = x]
        \/ \E t, x, R : c = [core EXCEPT !.driver[t] = x, !.revived = R]
    <2>1. CASE q.method = "model/remove"
      <3>1. c = [core EXCEPT !.weights = core.weights \ {q.about},
                             !.active = IF core.active = q.about THEN Null
                                        ELSE core.active]
        BY <2>1 DEF Effect, CoreFormed
      <3>2. QED BY <3>1
    <2>2. CASE q.method = "task/create"
      <3>1. c = [core EXCEPT !.born = core.born \cup {q.about}]
        BY <2>2 DEF Effect, CoreFormed
      <3>2. QED BY <3>1
    <2>3. CASE q.method = "task/cancel" /\ Has(q)
      <3>1. c = [core EXCEPT !.driver[q.about] =
                     IF core.driver[q.about] = "none" THEN "flagged"
                     ELSE IF core.driver[q.about] = "running" THEN "ended"
                     ELSE core.driver[q.about]]
        BY <2>3 DEF Effect
      <3>2. QED BY <3>1
    <2>4. CASE q.method = "task/resume" /\ Has(q)
      <3> DEFINE t == q.about
                 x == IF core.driver[t] = "flagged" THEN "ended"
                      ELSE IF core.driver[t] = "none" THEN "running"
                      ELSE core.driver[t]
                 R == IF q.from = "discard" /\ core.driver[t] = "none"
                      THEN core.revived \cup {t} ELSE core.revived
      <3>1. c = [core EXCEPT !.driver[t] = x, !.revived = R]
        BY <2>4 DEF Effect, CoreFormed
      <3> HIDE DEF c, t, x, R
      <3>2. QED BY <3>1, Zenon
    <2>5. CASE /\ q.method \notin {"model/remove", "task/create"}
               /\ ~(q.method = "task/cancel" /\ Has(q))
               /\ ~(q.method = "task/resume" /\ Has(q))
      BY <2>5 DEF Effect
    <2>6. QED BY <2>1, <2>2, <2>3, <2>4, <2>5
  <1>2. {"pos", "weights"} \subseteq DOMAIN core
    BY DEF CoreFormed
  <1> HIDE DEF c
  <1>3. c.pos = core.pos /\ c.weights \subseteq core.weights
    BY <1>1, <1>2
  <1>4. QED BY <1>3 DEF c

\* Only telling changes what Core has told.
LEMMA StillTold ==
    ASSUME Told, scn' = scn, journal' = journal,
           core'.pos = core.pos, core'.weights \subseteq core.weights
    PROVE  Told'
  BY DEF Told

\* So the window is what a step has to be looked at for.
LEMMA StillSound ==
    ASSUME SoundInv, scn' = scn, journal' = journal, core' = core,
           Sound(win', Len(journal), scn)
    PROVE  SoundInv'
  BY StillTold DEF SoundInv

\* Telling adds what a script says, or that a task was cancelled.
LEMMA ToldMore ==
    ASSUME SoundInv, NEW m, journal' = Append(journal, m), scn' = scn, win' = win,
           m.seq = Len(journal) + 1, m.taskId \in DOMAIN scn.scripts \cup {Null},
           core'.pos \in [DOMAIN scn.scripts -> Nat],
           core'.weights \subseteq CatalogIds
    PROVE  SoundInv'
  <1>1. /\ IsSeq(journal') /\ DOMAIN journal = 1..Len(journal) /\ Len(journal) \in Nat
        /\ DOMAIN journal' = 1..Len(journal) + 1
        /\ \A i \in DOMAIN journal : journal'[i] = journal[i]
        /\ journal'[Len(journal) + 1] = m
    BY Appended DEF SoundInv, Told
  <1>2. Len(journal') = Len(journal) + 1
    BY Longer DEF SoundInv, Told
  <1>3. ASSUME NEW i \in DOMAIN journal'
        PROVE  /\ journal'[i].seq = i
               /\ journal'[i].taskId \in DOMAIN scn.scripts \cup {Null}
    <2>1. CASE i \in DOMAIN journal
      BY <1>1, <2>1 DEF SoundInv, Told
    <2>2. CASE i = Len(journal) + 1
      BY <1>1, <2>2
    <2>3. QED BY <1>1, <2>1, <2>2
  <1>4. Told'
    BY <1>1, <1>3 DEF SoundInv, Told
  <1>5. Sound(win', Len(journal'), scn)
    BY <1>1, <1>2, LaterSound DEF SoundInv
  <1>6. QED BY <1>4, <1>5 DEF SoundInv

\* Core tells an event, or ends a task that was cancelled.
LEMMA TellsSound ==
    ASSUME SoundInv, IInv, NEW t \in DOMAIN scn.scripts, Emit(t) \/ Cancels(t)
    PROVE  SoundInv'
  <1>0. /\ CoreFormed(core) /\ scn \in Scenarios
        /\ core.pos \in [DOMAIN scn.scripts -> Nat] /\ core.weights \subseteq CatalogIds
    BY DEF IInv, SoundInv, Told
  <1>1. CASE Cancels(t)
    <2> DEFINE m == [valid |-> TRUE, kind |-> "state_changed", taskId |-> t,
                     payload |-> [to |-> "cancelled"], seq |-> Len(journal) + 1]
    <2>1. journal' = Append(journal, m) /\ scn' = scn /\ win' = win
      BY <1>1 DEF Cancels, Tells
    <2>2. m.seq = Len(journal) + 1 /\ m.taskId = t
      OBVIOUS
    <2> HIDE DEF m
    <2>3. core'.pos = core.pos /\ core'.weights = core.weights
      BY <1>0, <1>1 DEF Cancels, CoreFormed
    <2>4. QED BY <1>0, <2>1, <2>2, <2>3, ToldMore
  <1>2. CASE Emit(t)
    <2> DEFINE e == scn.scripts[t][core.pos[t] + 1]
               m == [valid |-> e.valid, kind |-> e.kind, taskId |-> e.taskId,
                     payload |-> e.payload, seq |-> Len(journal) + 1]
    <2>1. journal' = Append(journal, m) /\ scn' = scn /\ win' = win
      BY <1>2 DEF Emit, Tells
    <2>2. m.seq = Len(journal) + 1 /\ m.taskId = e.taskId
      OBVIOUS
    <2>3. e \in Range(scn.scripts[t])
      <3> DEFINE q == scn.scripts[t]
      <3>1. q \in Seq(Range(q))
        BY <1>0, ScenariosAssumption
      <3>2. core.pos[t] \in Nat /\ core.pos[t] < Len(q)
        BY <1>0, <1>2 DEF Emit
      <3> HIDE DEF q
      <3>3. core.pos[t] + 1 \in DOMAIN q
        BY <3>1, <3>2
      <3>4. q[core.pos[t] + 1] \in Range(q)
        BY <3>3, Zenon DEF Range
      <3>5. QED BY <3>4 DEF q
    <2>4. /\ e.taskId \in DOMAIN scn.scripts \cup {Null}
          /\ e.kind = "model_install_completed" => e.payload.id \in CatalogIds
      BY <1>0, <2>3, ScenariosAssumption
    <2>5. /\ core'.pos = [core.pos EXCEPT ![t] = core.pos[t] + 1]
          /\ core'.weights = IF e.kind = "model_install_completed"
                             THEN core.weights \cup {e.payload.id} ELSE core.weights
      BY <1>0, <1>2 DEF Emit, CoreFormed
    <2> HIDE DEF e, m
    <2>6. core'.pos \in [DOMAIN scn.scripts -> Nat]
      BY <1>0, <2>5
    <2>7. core'.weights \subseteq CatalogIds
      BY <1>0, <2>4, <2>5
    <2>8. QED BY <2>1, <2>2, <2>4, <2>6, <2>7, ToldMore
  <1>3. QED BY <1>1, <1>2

\* Core answers the oldest request.
LEMMA AnswerSound ==
    ASSUME SoundInv, IInv, Answer
    PROVE  SoundInv'
  <1> DEFINE k == Asked
             q == win.sent[k]
             a == Reply(q)
             v == [win EXCEPT !.sent[k].answer = a]
             J == Len(journal)
  <1>0. CoreFormed(core) /\ Formed(win) /\ Sound(win, J, scn) /\ Told /\ J \in Nat
    BY SeqPlaces DEF IInv, Tight, Loose, SoundInv, Told
  <1>1. /\ k \in DOMAIN win.sent /\ win' = v /\ core' = Effect(q)
        /\ scn' = scn /\ journal' = journal
    BY <1>0, AskedIsSent DEF Answer
  <1>2. /\ Reanswers(win, v) /\ v.sent[k].answer = a
        /\ \A i \in DOMAIN win.sent \ {k} : v.sent[i] = win.sent[i]
    <2>1. Formed(win) /\ k \in DOMAIN win.sent
      BY <1>0, <1>1
    <2> HIDE DEF k, a
    <2>2. QED BY <2>1, OneAnswer
  <1>3. v.sent[k].method = q.method
    BY <1>1, <1>2 DEF Reanswers
  <1>4. q.method = "model/list" => a.result.at = J
    <2>1. SUFFICES ASSUME q.method = "model/list" PROVE a.result.at = J
      OBVIOUS
    <2> HIDE DEF q
    <2>2. Has(q) BY <2>1 DEF Has
    <2>3. Result(q) = CatalogNow BY <2>1 DEF Result
    <2>4. a.result = CatalogNow BY <2>2, <2>3 DEF Reply
    <2>5. QED BY <2>4 DEF CatalogNow
  <1> HIDE DEF k, q, a, v, J
  <1>5. \A i \in DOMAIN win.sent :
            \/ v.sent[i].answer = win.sent[i].answer
            \/ v.sent[i].method = "model/list" => v.sent[i].answer.result.at = J
    BY <1>2, <1>3, <1>4
  <1>6. Sound(v, J, scn)
    BY <1>0, <1>2, <1>5, ReanswersSound
  <1>7. Told'
    BY <1>0, <1>1, EffectTold, StillTold
  <1>8. QED BY <1>1, <1>6, <1>7 DEF SoundInv, J

\* A request fails, or all do.
LEMMA FailSound ==
    ASSUME SoundInv, IInv, Fail \/ HostExits
    PROVE  SoundInv'
  <1>0. Formed(win) /\ Sound(win, Len(journal), scn) /\ Len(journal) \in Nat
    BY SeqPlaces DEF IInv, Tight, Loose, SoundInv, Told
  <1>1. /\ Reanswers(win, win') /\ core' = core /\ scn' = scn /\ journal' = journal
        /\ \A i \in DOMAIN win.sent : \/ win'.sent[i].answer = win.sent[i].answer
                                      \/ win'.sent[i].answer = Failure
    BY <1>0, Failing
  <1>2. \A i \in DOMAIN win.sent : \/ win'.sent[i].answer = win.sent[i].answer
                                   \/ ~Granted(win'.sent[i])
    BY <1>1 DEF Failure, Granted
  <1> DEFINE v == win'
  <1> HIDE DEF v
  <1>3. Sound(v, Len(journal), scn)
    BY <1>0, <1>1, <1>2, ReanswersSound DEF v
  <1>4. QED BY <1>1, <1>3, StillSound DEF v

\* The window takes the oldest answer.
LEMMA TakeSound ==
    ASSUME SoundInv, IInv, Take
    PROVE  SoundInv'
  <1>1. Tight(win, core.driver) /\ Sound(win, Len(journal), scn) /\ Len(journal) \in Nat
    BY SeqPlaces DEF IInv, SoundInv, Told
  <1>2. /\ 1 \in DOMAIN win.sent /\ win.sent[1].answer # Null
        /\ win' = Taken(Rest(win), win.sent[1])
        /\ core' = core /\ scn' = scn /\ journal' = journal
    BY DEF Take, NextAnswered, Rest
  <1>3. Sound(win', Len(journal), scn)
    BY <1>1, <1>2, TakenSound
  <1>4. QED BY <1>2, <1>3, StillSound

\* A batch comes, the connection changes, or the host is started again.
LEMMA HostSound ==
    ASSUME SoundInv, IInv,
           \/ \E last \in DOMAIN journal : \E first \in 1 .. last : Deliver(first, last)
           \/ \E c \in {"ready", "degraded"} : ConnectionState(c)
           \/ Respawn
    PROVE  SoundInv'
  <1> DEFINE d == core.driver
             J == Len(journal)
             T == DOMAIN scn.scripts
  <1>0. /\ Tight(win, d) /\ Loose(win, d) /\ Sound(win, J, scn) /\ Told
        /\ J \in Nat /\ DOMAIN journal = 1 .. J
    BY SeqPlaces DEF IInv, Tight, SoundInv, Told
  <1>1. Heard(win.store, J, T)
    BY <1>0 DEF Sound, Shell
  <1>2. ASSUME NEW last \in DOMAIN journal, NEW first \in 1 .. last,
               Deliver(first, last)
        PROVE  SoundInv'
    <2> DEFINE raws == SubSeq(journal, first, last)
               st == applyBatch(win.store, raws)
    <2>1. /\ win' = StoreChanged([win EXCEPT !.store = st])
          /\ core' = core /\ scn' = scn /\ journal' = journal
      BY <1>2 DEF Deliver
    <2>2. \E S : journal \in Seq(S)
      BY <1>0 DEF Told, IsSeq
    <2>3. /\ Len(raws) = last - first + 1
          /\ \A n \in 1 .. Len(raws) : raws[n] = journal[first + n - 1]
      BY <1>0, <2>2
    <2>4. ASSUME NEW n \in 1 .. Len(raws)
          PROVE  raws[n].seq \in 1 .. J /\ raws[n].taskId \in T \cup {Null}
      <3>1. first + n - 1 \in DOMAIN journal
        BY <1>0, <2>3
      <3>2. /\ journal[first + n - 1].seq = first + n - 1
            /\ journal[first + n - 1].taskId \in T \cup {Null}
        BY <1>0, <3>1 DEF Told
      <3>3. QED BY <1>0, <2>3, <3>1, <3>2
    <2>5. Len(raws) \in Nat
      BY <1>0, <2>3
    <2> HIDE DEF raws
    <2>6. Heard(st, J, T)
      BY <1>0, <1>1, <2>4, <2>5, BatchHeard
    <2> HIDE DEF st
    <2>7. Sound(win', J, scn)
      BY <1>0, <2>1, <2>6, StoreSet
    <2>8. QED BY <2>1, <2>7, StillSound
  <1>3. ASSUME NEW c \in {"ready", "degraded"}, ConnectionState(c) PROVE SoundInv'
    <2>1. /\ win' = Connected(win, c)
          /\ core' = core /\ scn' = scn /\ journal' = journal
      BY <1>3 DEF ConnectionState
    <2>2. c \in Connections BY DEF Connections
    <2>3. Sound(win', J, scn)
      BY <1>0, <2>1, <2>2, ConnectedSound
    <2>4. QED BY <2>1, <2>3, StillSound
  <1>4. CASE Respawn
    <2> DEFINE v == [win EXCEPT !.alive = TRUE]
    <2>1. /\ win' = Open(v) /\ core' = core /\ scn' = scn /\ journal' = journal
      BY <1>4 DEF Respawn
    <2>2. /\ Fields \subseteq DOMAIN v
          /\ \A f \in Fields \ {"alive"} : v[f] = win[f]
      BY <1>0 DEF Loose, Formed, Fields
    <2> HIDE DEF v
    <2>3. v.lists = win.lists /\ v.conn = win.conn /\ v.caps = win.caps
      BY <2>2 DEF Fields
    <2>4. v.conn \in Connections /\ v.caps \subseteq scn.caps
      BY <1>0, <2>3 DEF Sound, Shell
    <2>5. Tight(v, d)
      BY <1>0, <2>2, BesideKept
    <2>6. Sound(v, J, scn)
      BY <1>0, <2>2, <2>3, <2>4, ConnSound
    <2>7. Sound(win', J, scn)
      BY <1>0, <2>1, <2>5, <2>6, OpenSound
    <2>8. QED BY <2>1, <2>7, StillSound
  <1>5. QED BY <1>2, <1>3, <1>4

\* Nothing is known of an empty journal.
LEMMA EmptyHeard ==
    ASSUME NEW J \in Nat, NEW T
    PROVE  Heard(emptyStore, J, T)
  BY DEF Heard, StoreFields, emptyStore, Touched

\* valyria.openWorkspace.
LEMMA OpenWorkspaceSound ==
    ASSUME SoundInv, IInv, OpenWorkspace
    PROVE  SoundInv'
  <1> DEFINE d == core.driver
             J == Len(journal)
             dropped == StoreChanged([win EXCEPT !.store = emptyStore])
             cleared == IF dropped.pinned = Null THEN dropped
                        ELSE FocusChanged([dropped EXCEPT !.pinned = Null])
             v == [cleared EXCEPT !.prompted = FALSE]
  <1>1. Tight(win, d) /\ Loose(win, d) /\ Sound(win, J, scn) /\ J \in Nat
    BY SeqPlaces DEF IInv, Tight, SoundInv, Told
  <1>2. Heard(emptyStore, J, DOMAIN scn.scripts)
    BY <1>1, EmptyHeard
  <1>3. Tight(dropped, d) /\ Sound(dropped, J, scn)
    BY <1>1, <1>2, StoreKept, StoreSet
  <1>4. Tight(cleared, d) /\ Sound(cleared, J, scn)
    <2> HIDE DEF dropped, J, d
    <2>1. /\ Tight(FocusChanged([dropped EXCEPT !.pinned = Null]), d)
          /\ Sound(FocusChanged([dropped EXCEPT !.pinned = Null]), J, scn)
      BY <1>1, <1>3, PinKept, PinSound DEF Tight
    <2>2. QED BY <1>3, <2>1
  <1>5. /\ win' = Open(v) /\ core' = core /\ scn' = scn /\ journal' = journal
    BY DEF OpenWorkspace, Acts
  <1> HIDE DEF cleared
  <1>6. Fields \subseteq DOMAIN cleared
    BY <1>4 DEF Tight, Loose, Formed
  <1>7. /\ Fields \subseteq DOMAIN v
        /\ \A f \in Fields \ {"prompted"} : v[f] = cleared[f]
    BY <1>6 DEF Fields
  <1> HIDE DEF v
  <1>8. /\ v.sent = cleared.sent /\ v.dialogs = cleared.dialogs
        /\ v.badges = cleared.badges /\ v.panels = cleared.panels
        /\ v.store = cleared.store /\ v.pinned = cleared.pinned
        /\ v.lists = cleared.lists /\ v.conn = cleared.conn
        /\ v.caps = cleared.caps
    BY <1>7 DEF Fields
  <1>9. Tight(v, d)
    BY <1>4, <1>7, <1>8, AsideKept DEF Tight
  <1>10. Sound(v, J, scn)
    BY <1>4, <1>8, QuietSound DEF Tight, Loose, Sound, Shell
  <1>11. Sound(win', J, scn)
    BY <1>1, <1>5, <1>9, <1>10, OpenSound
  <1>12. QED BY <1>5, <1>11, StillSound

\* The user pins a task, opens, refreshes or closes a panel.
LEMMA PanelSound ==
    ASSUME SoundInv, IInv,
           (\E t \in DOMAIN win.store.tasks : Pin(t))
               \/ OpenPanel \/ ClosePanel \/ RefreshSurface
    PROVE  SoundInv'
  <1> DEFINE d == core.driver
             J == Len(journal)
  <1>0. /\ Loose(win, d) /\ Formed(win) /\ Sound(win, J, scn) /\ J \in Nat
        /\ DOMAIN win.store.tasks \subseteq DOMAIN scn.scripts
    BY SeqPlaces DEF IInv, Tight, Loose, SoundInv, Told, Sound, Shell, Heard
  <1>1. ASSUME NEW b \in BOOLEAN
        PROVE  LET v == [win EXCEPT !.panels.open = b]
               IN  Formed(v) /\ Sound(v, J, scn)
    <2> DEFINE v == [win EXCEPT !.panels.open = b]
    <2>1. Formed(v)
      BY <1>0, OpenedKept DEF Loose
    <2>2. /\ Fields \subseteq DOMAIN v
          /\ \A f \in Fields \ {"panels"} : v[f] = win[f]
      BY <1>0 DEF Formed, Fields
    <2> HIDE DEF v
    <2>3. Beside(win, v, "panels")
      BY <2>2 DEF Beside, Sends, Fields
    <2>4. Sound(v, J, scn)
      BY <1>0, <2>3, BesideSound
    <2>5. QED BY <2>1, <2>4 DEF v
  <1>2. ASSUME NEW v, Formed(v), Sound(v, J, scn), NEW force
        PROVE  Sound(RefreshPanels(v, force), J, scn)
    BY <1>2, PanelsBeside, BesideSound
  <1>3. ASSUME NEW t \in DOMAIN win.store.tasks, Pin(t) PROVE SoundInv'
    <2>1. /\ win' = FocusChanged([win EXCEPT !.pinned = t])
          /\ core' = core /\ scn' = scn /\ journal' = journal
      BY <1>3 DEF Pin, Acts
    <2>2. Sound(win', J, scn)
      BY <1>0, <2>1, PinSound
    <2>3. QED BY <2>1, <2>2, StillSound
  <1>4. CASE OpenPanel
    <2> DEFINE v == [win EXCEPT !.panels.open = TRUE]
    <2>1. /\ win' = RefreshPanels(v, TRUE)
          /\ core' = core /\ scn' = scn /\ journal' = journal
      BY <1>4 DEF OpenPanel, Acts
    <2>2. Formed(v) /\ Sound(v, J, scn)
      BY <1>1
    <2> HIDE DEF v
    <2>3. Sound(win', J, scn)
      BY <1>2, <2>1, <2>2
    <2>4. QED BY <2>1, <2>3, StillSound
  <1>5. CASE ClosePanel
    <2>1. /\ win' = [win EXCEPT !.panels.open = FALSE]
          /\ core' = core /\ scn' = scn /\ journal' = journal
      BY <1>5 DEF ClosePanel, Acts
    <2>2. Sound(win', J, scn)
      BY <1>1, <2>1
    <2>3. QED BY <2>1, <2>2, StillSound
  <1>6. CASE RefreshSurface
    <2>1. /\ win' = RefreshPanels(win, TRUE)
          /\ core' = core /\ scn' = scn /\ journal' = journal
      BY <1>6 DEF RefreshSurface, Acts
    <2>2. Sound(win', J, scn)
      BY <1>0, <1>2, <2>1
    <2>3. QED BY <2>1, <2>2, StillSound
  <1>7. QED BY <1>3, <1>4, <1>5, <1>6

\* The user creates a task, or works in a model view.
LEMMA ViewSound ==
    ASSUME SoundInv, IInv,
           \/ \E t \in scn.creates : CreateTask(t)
           \/ \E r \in {"models", "picker"} : ResolveView(r)
           \/ \E id : RemoveModel(id)
           \/ RefreshModels
    PROVE  SoundInv'
  <1> DEFINE d == core.driver
             J == Len(journal)
  <1>0. /\ Tight(win, d) /\ Formed(win) /\ Sound(win, J, scn) /\ J \in Nat
        /\ scn.creates \subseteq DOMAIN scn.scripts
    BY SeqPlaces, ScenariosAssumption DEF IInv, Tight, Loose, SoundInv, Told
  <1>1. ASSUME NEW r \in Readers PROVE Apart(win, J, scn, r) /\ ListTyped(win, r, J)
    BY <1>0 DEF Sound, Apart
  <1>2. ASSUME NEW t \in scn.creates, CreateTask(t) PROVE SoundInv'
    <2>1. /\ win' = Send(win, "create", "task/create", t, Null)
          /\ core' = core /\ scn' = scn /\ journal' = journal
      BY <1>2 DEF CreateTask, Acts
    <2>2. t \in DOMAIN scn.scripts /\ "create" \notin Readers
      BY <1>0 DEF Readers
    <2>3. Sound(Send(win, "create", "task/create", t, Null), J, scn)
      BY <1>0, <2>2, SendSound
    <2>4. QED BY <2>1, <2>3, StillSound
  <1>3. ASSUME NEW r \in {"models", "picker"}, ResolveView(r) PROVE SoundInv'
    <2> DEFINE l == win.lists[r]
               k == [l EXCEPT !.wired = TRUE]
               v == [win EXCEPT !.lists[r] = k]
    <2>1. r \in Readers /\ r # "marker"
      BY DEF Readers
    <2>2. "lists" \in DOMAIN win /\ r \in DOMAIN win.lists
      BY <1>0, <2>1 DEF Formed, Fields, Sound
    <2>3. v = [win EXCEPT !.lists[r].wired = TRUE]
      BY <2>2
    <2>4. /\ win' = RefreshList(v, r)
          /\ core' = core /\ scn' = scn /\ journal' = journal
      BY <1>3, <2>3 DEF ResolveView, Acts
    <2>5. Alike(l, k)
      BY <1>1, <2>1 DEF ListTyped, ListFields, Alike
    <2> HIDE DEF k
    <2>6. /\ Fields \subseteq DOMAIN v /\ v.sent = win.sent
          /\ \A f \in Fields \ {"lists"} : v[f] = win[f]
          /\ v.lists[r] = k /\ Apart(v, J, scn, r)
      BY <1>0, <1>1, <2>1, ListSet
    <2> HIDE DEF v
    <2>7. Same(win, v, r)
      BY <2>6 DEF Same, From
    <2>8. ListTyped(v, r, J)
      BY <1>1, <2>1, <2>5, <2>6, <2>7, ReaderKept
    <2>9. Formed(v)
      BY <1>0, <2>6, BesideKept DEF Tight, Loose
    <2>10. Sound(RefreshList(v, r), J, scn)
      BY <1>0, <2>1, <2>6, <2>8, <2>9, ListAsked
    <2>11. QED BY <2>4, <2>10, StillSound
  <1>4. ASSUME NEW id, RemoveModel(id) PROVE SoundInv'
    <2>1. /\ win' = Send(win, "removal", "model/remove", id, Null)
          /\ core' = core /\ scn' = scn /\ journal' = journal
      BY <1>4 DEF RemoveModel, Acts
    <2>2. "removal" \notin Readers
      BY DEF Readers
    <2>3. Sound(Send(win, "removal", "model/remove", id, Null), J, scn)
      BY <1>0, <2>2, SendSound
    <2>4. QED BY <2>1, <2>3, StillSound
  <1>5. CASE RefreshModels
    <2>1. /\ win' = RefreshList(win, "models")
          /\ core' = core /\ scn' = scn /\ journal' = journal
      BY <1>5 DEF RefreshModels, Acts
    <2>2. "models" \in Readers
      BY DEF Readers
    <2>3. Sound(RefreshList(win, "models"), J, scn)
      BY <1>0, <1>1, <2>2, ListAsked
    <2>4. QED BY <2>1, <2>3, StillSound
  <1>6. QED BY <1>2, <1>3, <1>4, <1>5

\* The user answers a resume prompt.
LEMMA DialogSound ==
    ASSUME SoundInv, IInv, NEW i \in DOMAIN win.dialogs,
           (\E choice : Pick(i, choice)) \/ ConfirmDiscard(i)
    PROVE  SoundInv'
  <1> DEFINE d == core.driver
             J == Len(journal)
             t == win.dialogs[i].task
             Becomes(stage) == [win EXCEPT !.dialogs[i].stage = stage]
  <1>0. /\ Tight(win, d) /\ Formed(win) /\ Sound(win, J, scn) /\ J \in Nat
        /\ t \in DOMAIN scn.scripts
    BY SeqPlaces DEF IInv, Tight, Loose, SoundInv, Told, Sound, Shell
  <1>1. ASSUME NEW stage \in Stages, stage # "discarded"
        PROVE  /\ Tight(Becomes(stage), d) /\ Formed(Becomes(stage))
               /\ Sound(Becomes(stage), J, scn)
    BY <1>0, <1>1, StageKept, StageSound DEF Tight, Loose
  <1>2. \A x \in {"prompt", "discard"} : x \notin Readers /\ x # "create"
    BY DEF Readers
  <1>3. ASSUME NEW choice, Pick(i, choice) PROVE SoundInv'
    <2>1. CASE choice = "Resume"
      <3> DEFINE v == Becomes("resumed")
      <3>1. /\ win' = Send(v, "prompt", "task/resume", t, Null)
            /\ core' = core /\ scn' = scn /\ journal' = journal
        BY <1>3, <2>1 DEF Pick, Acts
      <3>2. Formed(v) /\ Sound(v, J, scn)
        BY <1>1 DEF Stages
      <3> HIDE DEF v
      <3>3. Sound(Send(v, "prompt", "task/resume", t, Null), J, scn)
        BY <1>0, <1>2, <3>2, SendSound
      <3>4. QED BY <3>1, <3>3, StillSound
    <2>2. CASE choice = "Inspect"
      <3> DEFINE v == Becomes("closed")
      <3>1. /\ win' = FocusChanged([v EXCEPT !.pinned = t])
            /\ core' = core /\ scn' = scn /\ journal' = journal
        BY <1>3, <2>2 DEF Pick, Acts
      <3>2. Loose(v, d) /\ Sound(v, J, scn)
        BY <1>1 DEF Tight, Stages
      <3> HIDE DEF v, t
      <3>3. Sound(FocusChanged([v EXCEPT !.pinned = t]), J, scn)
        BY <1>0, <3>2, PinSound
      <3>4. QED BY <3>1, <3>3, StillSound
    <2>3. CASE choice = "Discard"
      <3>1. /\ win' = Becomes("sure")
            /\ core' = core /\ scn' = scn /\ journal' = journal
        BY <1>3, <2>3 DEF Pick, Acts
      <3>2. Sound(win', J, scn)
        BY <1>1, <3>1 DEF Stages
      <3>3. QED BY <3>1, <3>2, StillSound
    <2>4. CASE choice \notin {"Resume", "Inspect", "Discard"}
      <3>1. /\ win' = Becomes("closed")
            /\ core' = core /\ scn' = scn /\ journal' = journal
        BY <1>3, <2>4 DEF Pick, Acts
      <3>2. Sound(win', J, scn)
        BY <1>1, <3>1 DEF Stages
      <3>3. QED BY <3>1, <3>2, StillSound
    <2>5. QED BY <2>1, <2>2, <2>3, <2>4
  <1>4. CASE ConfirmDiscard(i)
    <2> DEFINE v == Becomes("discarding")
    <2>1. /\ win' = Send(v, "discard", "task/cancel", t, i)
          /\ core' = core /\ scn' = scn /\ journal' = journal
      BY <1>4 DEF ConfirmDiscard, Acts
    <2>2. Formed(v) /\ Sound(v, J, scn)
      BY <1>1 DEF Stages
    <2> HIDE DEF v
    <2>3. Sound(Send(v, "discard", "task/cancel", t, i), J, scn)
      BY <1>0, <1>2, <2>2, SendSound
    <2>4. QED BY <2>1, <2>3, StillSound
  <1>5. QED BY <1>3, <1>4

\* Every step keeps what the window has heard and will show.
LEMMA StepSound == IInv /\ SoundInv /\ [Next]_vars => SoundInv'
  <1> SUFFICES ASSUME IInv, SoundInv, [Next]_vars PROVE SoundInv'
    OBVIOUS
  <1>1. ASSUME NEW s \in DOMAIN scn.scripts, Emit(s) \/ Cancels(s) PROVE SoundInv'
    BY <1>1, TellsSound
  <1>2. CASE Answer BY <1>2, AnswerSound
  <1>3. CASE Fail \/ HostExits BY <1>3, FailSound
  <1>4. CASE Take BY <1>4, TakeSound
  <1>5. CASE \/ \E last \in DOMAIN journal : \E first \in 1 .. last :
                    Deliver(first, last)
             \/ \E c \in {"ready", "degraded"} : ConnectionState(c)
             \/ Respawn
    BY <1>5, HostSound
  <1>6. CASE OpenWorkspace BY <1>6, OpenWorkspaceSound
  <1>7. CASE (\E t \in DOMAIN win.store.tasks : Pin(t))
                 \/ OpenPanel \/ ClosePanel \/ RefreshSurface
    BY <1>7, PanelSound
  <1>8. CASE \/ \E t \in scn.creates : CreateTask(t)
             \/ \E r \in {"models", "picker"} : ResolveView(r)
             \/ \E id : RemoveModel(id)
             \/ RefreshModels
    BY <1>8, ViewSound
  <1>9. ASSUME NEW i \in DOMAIN win.dialogs,
               (\E choice : Pick(i, choice)) \/ ConfirmDiscard(i)
        PROVE  SoundInv'
    BY <1>9, DialogSound
  <1>10. CASE UNCHANGED vars
    BY <1>10, StillSound DEF vars, SoundInv
  <1>11. QED
    BY <1>1, <1>2, <1>3, <1>4, <1>5, <1>6, <1>7, <1>8, <1>9, <1>10 DEF Next

\* A window that has just been opened has heard nothing and shows nothing.
LEMMA InitSound == Init => SoundInv
  <1> SUFFICES ASSUME Init PROVE SoundInv
    OBVIOUS
  <1> DEFINE w == WindowStart
  <1>1. scn \in Scenarios /\ journal = <<>> /\ core = CoreStart /\ win = Open(w)
    BY DEF Init
  <1>2. Told
    <2>1. IsSeq(journal) /\ DOMAIN journal = {}
      BY <1>1 DEF IsSeq
    <2>2. core.pos \in [DOMAIN scn.scripts -> Nat] /\ core.weights = {}
      BY <1>1 DEF CoreStart
    <2>3. QED BY <1>1, <2>1, <2>2 DEF Told
  <1>3. /\ w.store = emptyStore /\ w.conn = "starting" /\ w.pinned = Null
        /\ w.caps = {} /\ w.sent = <<>> /\ w.dialogs = <<>>
        /\ Readers \subseteq DOMAIN w.lists
        /\ \A r \in Readers : /\ ListFields \subseteq DOMAIN w.lists[r]
                              /\ w.lists[r].at = 0 /\ w.lists[r].seen = 0
    BY DEF WindowStart, ListFields
  <1> HIDE DEF w
  <1>4. \A who : From(w, who) = {}
    BY <1>3 DEF From
  <1>5. Shell(w, 0, scn)
    BY <1>3, <1>4, EmptyHeard DEF Shell, Connections
  <1>6. ASSUME NEW r \in Readers PROVE ListTyped(w, r, 0) /\ ListFresh(w, r)
    <2>1. ListTyped(w, r, 0)
      BY <1>3, <1>4 DEF ListTyped
    <2>2. \A m : AskedFor(w, r, m) = {}
      BY <1>4 DEF AskedFor
    <2>3. Current(w.lists[r], r, w.lists[r].at)
      BY <1>3 DEF Current
    <2>4. QED BY <2>1, <2>2, <2>3 DEF ListFresh
  <1>7. Sound(w, 0, scn)
    BY <1>3, <1>5, <1>6 DEF Sound
  <1>8. Sound(win, 0, scn)
    BY <1>1, <1>7, StartTight, OpenSound DEF w
  <1>9. Len(journal) = 0
    BY <1>1
  <1>10. QED BY <1>2, <1>8, <1>9 DEF SoundInv

\* Both invariants hold in every state.
LEMMA BothInductive == Spec => [](IInv /\ SoundInv)
  <1>1. Init => IInv /\ SoundInv
    BY InitInv, InitSound
  <1>2. IInv /\ SoundInv /\ [Next]_vars => (IInv /\ SoundInv)'
    BY StepInv, StepSound
  <1>3. QED BY <1>1, <1>2, PTL DEF Spec

-----------------------------------------------------------------------------
(***************************************************************************)
(* What the panels show.                                                   *)
(***************************************************************************)
\* The data of an open panel.
LEMMA FocusData == IInv => DataOfFocus
  <1> SUFFICES ASSUME IInv PROVE DataOfFocus
    OBVIOUS
  <1>1. Fetched(win) /\ InFocus(win)
    BY DEF IInv, Tight, Loose
  <1>2. OwnData(win.panels.data)
    BY <1>1 DEF Fetched
  <1>3. win.panels.open /\ ~win.panels.fetching =>
            /\ win.panels.data.taskId = Focus(win) \/ win.panels.missed
            /\ \/ win.panels.data.taskId \in {Null, win.panels.data.report}
               \/ win.panels.cold \/ win.panels.failed
    BY <1>1 DEF Fetched, InFocus
  <1>4. QED BY <1>2, <1>3 DEF DataOfFocus, OwnData, AllOf

\* What the workspace and the review show beside each other: the task shown, its
\* report, and its files with the owners that were fetched.
LEMMA PanelSurfaces ==
    ASSUME NEW w
    PROVE  LET t == Focus(w)
               work == workspaceView(w)
               review == reviewView(w)
               own == w.panels.data.ownership
           IN  /\ work.taskId = t /\ review.taskId = t
               /\ work.verified = w.panels.data.report
               /\ review.verified = w.panels.data.report
               /\ t = Null => DOMAIN review.files = {}
               /\ t # Null /\ t \in DOMAIN w.store.tasks => review.files = work.files
               /\ \A i \in DOMAIN review.files :
                      \/ review.files[i].ownership = Null
                      \/ \E path \in DOMAIN own :
                             review.files[i].ownership = own[path]
  <1> DEFINE t == Focus(w)
             own == w.panels.data.ownership
             files == changedFilesForTask(w.store, t)
             chat == chatModel(w.store, w.pinned, w.conn)
             task == taskModel(w.store, w.pinned, "diagnostics_v2" \in w.caps)
             work == workspaceView(w)
             review == reviewView(w)
  <1>1. t = resolveFocus(w.store, w.pinned)
    BY DEF Focus
  <1>2. chat.taskId = t
    BY <1>1 DEF chatModel
  <1>3. t \in DOMAIN w.store.tasks => task.files = files
    BY <1>1 DEF taskModel
  <1> HIDE DEF t, chat, task, files
  <1>4. /\ work.taskId = chat.taskId /\ work.verified = w.panels.data.report
        /\ work.files = OwnedFiles(task.files, own)
    BY DEF workspaceView, workspaceModel, chat, task
  <1>5. /\ review.taskId = t /\ review.verified = w.panels.data.report
        /\ review.files = IF t = Null THEN <<>> ELSE OwnedFiles(files, own)
    BY <1>1 DEF reviewView, reviewModel, files
  <1> HIDE DEF work, review
  <1>6. ASSUME NEW i \in DOMAIN review.files
        PROVE  \/ review.files[i].ownership = Null
               \/ \E path \in DOMAIN own : review.files[i].ownership = own[path]
    <2>1. t # Null /\ review.files = OwnedFiles(files, own)
      BY <1>5, <1>6
    <2>2. i \in DOMAIN files
      BY <1>6, <2>1 DEF OwnedFiles
    <2>3. review.files[i].ownership = Get(own, files[i].path)
      BY <2>1, <2>2 DEF OwnedFiles
    <2> HIDE DEF own
    <2>4. QED BY <2>3 DEF Get
  <1>7. QED BY <1>2, <1>3, <1>4, <1>5, <1>6 DEF t, work, review

-----------------------------------------------------------------------------
(***************************************************************************)
(* One task and one ask on every surface.                                  *)
(***************************************************************************)
\* The conjuncts of SurfacesAgree about the task shown and its ask, which need
\* no sorted list.
OneTaskShown ==
    /\ \A pin \in DOMAIN win.store.tasks \cup {Null} :
           SameTone(pin, chatModel(win.store, pin, win.conn), homeView(win))
    /\ OneStory(Offers(win))
    /\ TargetIsShown

\* Ticker, chat and Home look at the same task in the same way, whatever it is.
LEMMA ToneAndChat ==
    ASSUME NEW st, NEW J \in Nat, NEW T, Heard(st, J, T), NEW pin, NEW conn
    PROVE  LET chat == chatModel(st, pin, conn)
               tone == tickerModel(st, pin).tone
           IN  /\ chat.working <=> tone = "working"
               /\ chat.blocked <=> tone = "blocked"
               /\ approvalsModel(st, pin).approval # Null => chat.blocked
               /\ homeModel(st, conn).canSubmit => ~chat.working
  <1> DEFINE id == resolveFocus(st, pin)
             task == FocusedTask(st, pin)
             chat == chatModel(st, pin, conn)
             tone == tickerModel(st, pin).tone
  <1>1. /\ chat.working <=> /\ task # Null /\ ~task.terminal
                            /\ task.state \notin {"waiting_for_permission", "paused"}
        /\ chat.blocked <=> task # Null /\ task.state = "waiting_for_permission"
    BY DEF chatModel
  <1>2. task = Null => tone = "idle"
    BY DEF tickerModel
  <1>3. task # Null /\ task.state = "waiting_for_permission" => tone = "blocked"
    BY DEF tickerModel
  <1>4. task # Null /\ task.state = "paused" => tone = "paused"
    BY DEF tickerModel
  <1>5. task # Null /\ task.terminal
        /\ task.state \notin {"waiting_for_permission", "paused"} =>
            tone \in {"failed", "done"}
    BY DEF tickerModel
  <1>6. task # Null /\ ~task.terminal
        /\ task.state \notin {"waiting_for_permission", "paused"} =>
            tone = "working"
    BY DEF tickerModel
  <1>7. approvalsModel(st, pin).approval # Null => chat.blocked
    <2>1. approvalsModel(st, pin).approval # Null => AskShown(st, pin) # Null
      BY DEF approvalsModel
    <2>2. AskShown(st, pin) # Null =>
              task # Null /\ task.state = "waiting_for_permission"
      BY DEF AskShown, FocusedTask, pendingApprovalFor
    <2>3. QED BY <1>1, <2>1, <2>2
  <1>8. homeModel(st, conn).canSubmit => ~chat.working
    <2>1. homeModel(st, conn).canSubmit => ~Busy(st)
      BY DEF homeModel
    <2>2. task # Null => id \in DOMAIN st.tasks /\ task = st.tasks[id]
      BY FocusKnown DEF FocusedTask, taskById, Get
    <2> HIDE DEF chat, task, id
    <2>3. chat.working => Busy(st)
      BY <1>1, <2>2 DEF Busy
    <2>4. QED BY <2>1, <2>3
  <1> HIDE DEF chat, tone, task
  <1>9. QED BY <1>1, <1>2, <1>3, <1>4, <1>5, <1>6, <1>7, <1>8 DEF chat, tone

\* The commands of a set that have a name.
Named(commands, name) == {o \in commands : o[1] = name}

\* An ask's buttons are nothing else and all speak of it.
LEMMA AnswersNamed ==
    ASSUME NEW ap, NEW answers, NEW o \in Answers(ap, answers)
    PROVE  /\ ap # Null /\ o[1] = "resolveApproval" /\ o[2].seq = ap.seq
           /\ \E a \in answers :
                  o = <<"resolveApproval", [seq |-> ap.seq, answer |-> a]>>
  <1>1. ap # Null
    BY DEF Answers, When
  <1>2. PICK a \in answers :
            o = <<"resolveApproval", [seq |-> ap.seq, answer |-> a]>>
    BY <1>1 DEF Answers, When
  <1>3. o[1] = "resolveApproval" /\ o[2] = [seq |-> ap.seq, answer |-> a]
    BY <1>2
  <1>4. o[2].seq = ap.seq
    BY <1>3
  <1>5. QED BY <1>1, <1>2, <1>3, <1>4

\* More answers, more buttons.
LEMMA AnswersGrow ==
    ASSUME NEW ap, NEW few, NEW many, few \subseteq many
    PROVE  Answers(ap, few) \subseteq Answers(ap, many)
  BY DEF Answers, When

\* Home answers nothing.
LEMMA HomeNamed ==
    ASSUME NEW m
    PROVE  Named(homeOffers(m), "resolveApproval") = {}
  BY DEF homeOffers, When, Named

\* What the workspace offers, by name.
LEMMA WorkspaceNamed ==
    ASSUME NEW m
    PROVE  LET o == workspaceOffers(m)
           IN  /\ Named(o, "resolveApproval") =
                      Answers(m.approval, {"once", "task", "deny"})
               /\ m.canSubmit \/ Named(o, "createTask") = {}
               /\ m.taskId # Null /\ ~m.terminal => Named(o, "cancelTask") # {}
               /\ Named(o, "openDiff") = {<<"openDiff", f.path>> : f \in Range(m.files)}
  <1> DEFINE own == When(m.taskId # Null /\ ~m.terminal, TaskCommands \X {Null})
             new == When(m.canSubmit, {<<"createTask", Null>>})
             asked == Answers(m.approval, {"once", "task", "deny"})
             diffs == {<<"openDiff", f.path>> : f \in Range(m.files)}
             o == workspaceOffers(m)
  <1>1. o = own \cup new \cup asked \cup diffs
    BY DEF workspaceOffers
  <1>2. \A x \in own : x[1] \in TaskCommands
    BY DEF When
  <1>3. /\ \A x \in new : m.canSubmit /\ x[1] = "createTask"
        /\ \A x \in diffs : x[1] = "openDiff"
    BY DEF When
  <1>4. \A x \in asked : x[1] = "resolveApproval"
    BY AnswersNamed
  <1>5. m.taskId # Null /\ ~m.terminal => <<"cancelTask", Null>> \in own
    BY DEF When, TaskCommands
  <1> HIDE DEF o, own, new, asked, diffs
  <1>6. Named(o, "resolveApproval") = asked
    BY <1>1, <1>2, <1>3, <1>4 DEF Named, TaskCommands
  <1>7. Named(o, "openDiff") = diffs
    BY <1>1, <1>2, <1>3, <1>4 DEF Named, TaskCommands
  <1>8. m.canSubmit \/ Named(o, "createTask") = {}
    BY <1>1, <1>2, <1>3, <1>4 DEF Named, TaskCommands
  <1>9. m.taskId # Null /\ ~m.terminal => Named(o, "cancelTask") # {}
    <2> SUFFICES ASSUME m.taskId # Null /\ ~m.terminal
                 PROVE  <<"cancelTask", Null>> \in Named(o, "cancelTask")
      OBVIOUS
    <2>1. <<"cancelTask", Null>> \in o
      BY <1>1, <1>5
    <2>2. QED BY <2>1 DEF Named
  <1>10. QED BY <1>6, <1>7, <1>8, <1>9 DEF o, asked, diffs

\* What the review offers, by name.
LEMMA ReviewNamed ==
    ASSUME NEW m
    PROVE  LET o == reviewOffers(m)
           IN  /\ Named(o, "resolveApproval") = Answers(m.approval, {"once", "deny"})
               /\ Named(o, "createTask") = {}
               /\ Named(o, "openDiff") = {<<"openDiff", f.path>> : f \in Range(m.files)}
  <1> DEFINE asked == Answers(m.approval, {"once", "deny"})
             diffs == {<<"openDiff", f.path>> : f \in Range(m.files)}
             o == reviewOffers(m)
  <1>1. o = asked \cup diffs
    BY DEF reviewOffers
  <1>2. \A x \in diffs : x[1] = "openDiff"
    OBVIOUS
  <1>3. \A x \in asked : x[1] = "resolveApproval"
    BY AnswersNamed
  <1> HIDE DEF o, asked, diffs
  <1>4. /\ Named(o, "resolveApproval") = asked
        /\ Named(o, "createTask") = {}
        /\ Named(o, "openDiff") = diffs
    BY <1>1, <1>2, <1>3 DEF Named
  <1>5. QED BY <1>4 DEF o, asked, diffs

\* What the chat offers, by name: no more answers than the workspace, a new task
\* and Stop only as its model says.
LEMMA ChatNamed ==
    ASSUME NEW m, NEW caps
    PROVE  LET o == modelChatOffers(m, caps)
           IN  /\ Named(o, "resolveApproval") \subseteq
                      Answers(m.approval, {"once", "task", "deny"})
               /\ m.canSubmit \/ Named(o, "createTask") = {}
               /\ m.working \/ Named(o, "cancelTask") = {}
  <1> DEFINE picks == When(~m.activating,
                           {<<"activateModel", x.id>> : x \in Range(m.models)})
             all == Answers(m.approval, {"once", "task", "deny"})
             new == When(m.canSubmit, {<<"createTask", Null>>})
             stop == When(m.working, {<<"cancelTask", m.taskId>>})
             o == modelChatOffers(m, caps)
  <1>1. o \subseteq picks \cup all \cup new \cup stop
    <2> DEFINE high == m.approval # Null /\ Field(m.approval, "risk") \in HIGH_RISK
               some == {"once", "deny"}
                       \cup When(~high /\ "approval_scope" \in caps, {"task"})
    <2>1. some \subseteq {"once", "task", "deny"}
      BY DEF When
    <2>2. Answers(m.approval, some) \subseteq all
      <3> HIDE DEF some
      <3>1. QED BY <2>1, AnswersGrow
    <2>3. o = When("model_inference" \in caps,
                   picks \cup Answers(m.approval, some) \cup new \cup stop)
      BY DEF modelChatOffers
    <2> HIDE DEF some, o, picks, all, new, stop
    <2>4. QED BY <2>2, <2>3 DEF When
  <1>2. /\ \A x \in picks : x[1] = "activateModel"
        /\ \A x \in new : m.canSubmit /\ x[1] = "createTask"
        /\ \A x \in stop : m.working /\ x[1] = "cancelTask"
    BY DEF When
  <1>3. \A x \in all : x[1] = "resolveApproval"
    BY AnswersNamed
  <1> HIDE DEF o, picks, all, new, stop
  <1>4. Named(o, "resolveApproval") \subseteq all
    BY <1>1, <1>2 DEF Named
  <1>5. m.canSubmit \/ Named(o, "createTask") = {}
    BY <1>1, <1>2, <1>3 DEF Named
  <1>6. m.working \/ Named(o, "cancelTask") = {}
    BY <1>1, <1>2, <1>3 DEF Named
  <1>7. QED BY <1>4, <1>5, <1>6 DEF o, all

\* The workspace, the review and the chat show the same ask, and with it nobody
\* submits; what the chat calls working, the workspace does not call ended.
LEMMA AskEverywhere ==
    ASSUME NEW w, NEW J \in Nat, NEW T, Heard(w.store, J, T)
    PROVE  LET ap == AskShown(w.store, w.pinned)
               work == workspaceView(w)
               chat == chatView(w)
           IN  /\ work.approval = ap /\ reviewView(w).approval = ap
               /\ chat.approval = ap
               /\ ap # Null => /\ ~work.canSubmit /\ ~chat.canSubmit
                               /\ ap.seq = pendingApprovalFor(w.store, Focus(w)).seq
               /\ chat.working => work.taskId # Null /\ ~work.terminal
  <1> DEFINE st == w.store
             t == resolveFocus(st, w.pinned)
             row == FocusedTask(st, w.pinned)
             ap == AskShown(st, w.pinned)
             model == chatModel(st, w.pinned, w.conn)
             task == taskModel(st, w.pinned, "diagnostics_v2" \in w.caps)
             work == workspaceView(w)
             chat == chatView(w)
  <1>1. /\ work.approval = task.approval /\ work.canSubmit = model.canSubmit
        /\ work.taskId = model.taskId /\ work.terminal = model.terminal
    <2> HIDE DEF model, task
    <2>1. QED BY DEF workspaceView, workspaceModel, model, task
  <1>2. /\ chat.approval = ap /\ chat.canSubmit = model.canSubmit
        /\ chat.working = model.working
    <2> HIDE DEF model, ap
    <2>1. QED BY DEF chatView, modelChatModel, model, ap
  <1>3. reviewView(w).approval = ap
    BY DEF reviewView, reviewModel
  <1>4. ap # Null => /\ row # Null /\ row.state = "waiting_for_permission"
                     /\ ap = pendingApprovalFor(st, t)
    BY DEF AskShown, FocusedTask, pendingApprovalFor
  <1>5. row # Null => t # Null /\ t \in DOMAIN st.tasks
    BY FocusKnown DEF FocusedTask
  <1>6. task.approval = ap
    <2>1. CASE t \in DOMAIN st.tasks
      <3> HIDE DEF ap
      <3>1. QED BY <2>1 DEF taskModel, ap
    <2>2. CASE t \notin DOMAIN st.tasks
      <3>1. task.approval = Null
        BY <2>2 DEF taskModel
      <3>2. ap = Null
        BY <1>4, <1>5, <2>2
      <3>3. QED BY <3>1, <3>2
    <2>3. QED BY <2>1, <2>2
  <1>7. /\ model.taskId = t
        /\ model.working => row # Null /\ ~row.terminal
        /\ model.terminal <=> row # Null /\ row.terminal
        /\ model.canSubmit =>
               ~(row # Null /\ row.state = "waiting_for_permission")
    BY DEF chatModel
  <1> HIDE DEF st, t, row, ap, model, task, work, chat
  <1>8. ap # Null => ~work.canSubmit /\ ~chat.canSubmit
    BY <1>1, <1>2, <1>4, <1>7
  <1>9. chat.working => work.taskId # Null /\ ~work.terminal
    BY <1>1, <1>2, <1>5, <1>7
  <1>10. Focus(w) = t
    BY DEF Focus, st, t
  <1>11. ap # Null => ap.seq = pendingApprovalFor(st, Focus(w)).seq
    BY <1>4, <1>10
  <1>12. work.approval = ap
    BY <1>1, <1>6
  <1>13. QED
    BY <1>2, <1>3, <1>8, <1>9, <1>11, <1>12 DEF st, ap, work, chat

\* No surface of such a window offers a new task beside an ask, all answer the
\* same one, and the chat stops only what the workspace can cancel.
LEMMA StoryTold ==
    ASSUME NEW J \in Nat, NEW T, Heard(win.store, J, T)
    PROVE  OneStory(Offers(win))
  <1> DEFINE offers == Offers(win)
             ap == AskShown(win.store, win.pinned)
             home == homeView(win)
             work == workspaceView(win)
             review == reviewView(win)
             chat == chatView(win)
             asked == Answers(ap, {"once", "task", "deny"})
             ask == pendingApprovalFor(win.store, Focus(win))
  <1>1. /\ DOMAIN offers = {"home", "workspace", "review", "chat"}
        /\ offers["home"] = homeOffers(home)
        /\ offers["workspace"] = workspaceOffers(work)
        /\ offers["review"] = reviewOffers(review)
        /\ offers["chat"] = modelChatOffers(chat, win.caps)
    BY DEF Offers
  <1>2. /\ work.approval = ap /\ review.approval = ap /\ chat.approval = ap
        /\ ap # Null => /\ ~work.canSubmit /\ ~chat.canSubmit /\ ap.seq = ask.seq
        /\ chat.working => work.taskId # Null /\ ~work.terminal
    BY AskEverywhere
  <1>3. /\ Range(review.files) = Range(work.files)
    <2>1. /\ Focus(win) = Null => DOMAIN review.files = {} /\ DOMAIN work.files = {}
          /\ Focus(win) # Null => review.files = work.files
      <3>1. /\ Focus(win) = Null => DOMAIN review.files = {}
            /\ Focus(win) # Null /\ Focus(win) \in DOMAIN win.store.tasks =>
                   review.files = work.files
        BY PanelSurfaces
      <3>2. Focus(win) # Null => Focus(win) \in DOMAIN win.store.tasks
        BY FocusKnown DEF Focus
      <3>3. Focus(win) = Null => DOMAIN work.files = {}
        <4> DEFINE task == taskModel(win.store, win.pinned,
                                     "diagnostics_v2" \in win.caps)
        <4>1. work.files = OwnedFiles(task.files, win.panels.data.ownership)
          <5> HIDE DEF task
          <5>1. QED BY DEF workspaceView, workspaceModel, task
        <4>2. Focus(win) = Null => task.files = <<>>
          BY DEF Heard, Focus, taskModel
        <4> HIDE DEF task
        <4>3. QED BY <4>1, <4>2 DEF OwnedFiles
      <3>4. QED BY <3>1, <3>2, <3>3
    <2> HIDE DEF review, work
    <2>2. QED BY <2>1 DEF Range
  <1> HIDE DEF offers, ap, home, work, review, chat, ask
  <1>4. /\ Named(offers["home"], "resolveApproval") = {}
        /\ Named(offers["workspace"], "resolveApproval") = asked
        /\ Named(offers["review"], "resolveApproval") \subseteq asked
        /\ Named(offers["chat"], "resolveApproval") \subseteq asked
    <2>1. Answers(ap, {"once", "deny"}) \subseteq asked
      BY AnswersGrow
    <2> HIDE DEF asked
    <2>2. Named(offers["workspace"], "resolveApproval") = asked
      BY <1>1, <1>2, WorkspaceNamed DEF asked
    <2>3. Named(offers["review"], "resolveApproval") = Answers(ap, {"once", "deny"})
      BY <1>1, <1>2, ReviewNamed
    <2>4. Named(offers["chat"], "resolveApproval") \subseteq asked
      BY <1>1, <1>2, ChatNamed DEF asked
    <2>5. QED BY <1>1, <2>1, <2>2, <2>3, <2>4, HomeNamed
  <1>5. \A o \in asked : ap # Null /\ o[2].seq = ap.seq
    BY AnswersNamed
  <1> HIDE DEF asked
  <1>6. asked # {} => /\ Named(offers["workspace"], "createTask") = {}
                      /\ Named(offers["chat"], "createTask") = {}
    BY <1>1, <1>2, <1>5, WorkspaceNamed, ChatNamed
  <1>7. Named(offers["review"], "createTask") = {}
    BY <1>1, ReviewNamed
  <1>8. \A surface \in DOMAIN offers :
            /\ \/ Named(offers[surface], "resolveApproval") = {}
               \/ Named(offers[surface], "createTask") = {}
            /\ Named(offers[surface], "resolveApproval")
                   \subseteq Named(offers["workspace"], "resolveApproval")
    BY <1>1, <1>4, <1>6, <1>7
  <1>9. \A o \in Named(offers["workspace"], "resolveApproval") : o[2].seq = ask.seq
    BY <1>2, <1>4, <1>5
  <1>10. Named(offers["review"], "openDiff") = Named(offers["workspace"], "openDiff")
    BY <1>1, <1>3, WorkspaceNamed, ReviewNamed
  <1>11. \/ Named(offers["chat"], "cancelTask") = {}
         \/ Named(offers["workspace"], "cancelTask") # {}
    BY <1>1, <1>2, WorkspaceNamed, ChatNamed
  <1>12. QED
    BY <1>8, <1>9, <1>10, <1>11 DEF OneStory, Named, offers, ask

-----------------------------------------------------------------------------
(***************************************************************************)
(* Reading events of the journal anew.                                     *)
(***************************************************************************)
\* The events of these seqs, and replay of them: from nothing, one after the
\* other.
Picked(J, r) == [i \in 1 .. Len(r) |-> J[r[i]]]
Rebuilt(J, r) == replay(Picked(J, r))

\* As many events as seqs.
LEMMA PickedPlaces ==
    ASSUME NEW J, NEW r, Len(r) \in Nat
    PROVE  /\ Len(Picked(J, r)) = Len(r)
           /\ \A i \in 1 .. Len(r) : Picked(J, r)[i] = J[r[i]]
  BY DEF Picked

\* No event leaves nothing; one event more is applied to what the others left.
LEMMA RebuiltSteps ==
    ASSUME NEW J, NEW r, r \in Seq(Nat), NEW k \in Nat
    PROVE  /\ Rebuilt(J, <<>>) = emptyStore
           /\ Rebuilt(J, Append(r, k)) = applyDecoded(Rebuilt(J, r), J[k])
  <1> DEFINE l == Len(r)
             a == Picked(J, r)
             q == Append(r, k)
             b == Picked(J, q)
             e == Picked(J, <<>>)
  <1>1. /\ l \in Nat /\ Len(q) = l + 1 /\ Len(<<>>) = 0
        /\ \A i \in 1 .. l : q[i] = r[i]
        /\ q[l + 1] = k
    BY AppendFacts
  <1>2. /\ Len(a) = l /\ Len(b) = l + 1 /\ Len(e) = 0
        /\ \A i \in 1 .. l : a[i] = J[r[i]]
        /\ \A i \in 1 .. l + 1 : b[i] = J[q[i]]
    <2>1. Len(a) = l /\ \A i \in 1 .. l : a[i] = J[r[i]]
      BY <1>1, PickedPlaces
    <2>2. Len(e) = 0
      BY <1>1, PickedPlaces
    <2> HIDE DEF q
    <2>3. Len(q) \in Nat BY <1>1
    <2>4. Len(b) = Len(q) /\ \A i \in 1 .. Len(q) : b[i] = J[q[i]]
      BY <2>3, PickedPlaces
    <2>5. QED BY <1>1, <2>1, <2>2, <2>4
  <1>3. (\A i \in 1 .. l : a[i] = b[i]) /\ b[l + 1] = J[k]
    BY <1>1, <1>2
  <1>4. l + 1 \in Nat /\ l <= l + 1 /\ l + 1 - 1 = l /\ 0 \in Nat
        /\ l \in 0 .. l /\ l + 1 \in 1 .. l + 1
    BY <1>1
  <1> HIDE DEF a, b, e, l, q
  <1>5. PICK F : Folds(F, emptyStore, a, l) /\ applyBatch(emptyStore, a) = F[l]
    BY <1>1, <1>2, BatchFolds
  <1>6. PICK G : /\ Folds(G, emptyStore, b, l + 1)
                 /\ applyBatch(emptyStore, b) = G[l + 1]
    BY <1>2, <1>4, BatchFolds
  <1>7. F[l] = G[l]
    BY <1>1, <1>3, <1>4, <1>5, <1>6, FoldsAgree
  <1>8. G[l + 1] = applyDecoded(G[l], J[k])
    <2>1. G[l + 1] = applyDecoded(G[l + 1 - 1], b[l + 1])
      BY <1>4, <1>6, FoldSteps
    <2>2. QED BY <1>3, <1>4, <2>1
  <1>9. applyBatch(emptyStore, e) = emptyStore
    <2>1. PICK H : /\ Folds(H, emptyStore, e, 0)
                   /\ applyBatch(emptyStore, e) = H[0]
      BY <1>2, <1>4, BatchFolds
    <2>2. QED BY <1>4, <2>1, FoldSteps
  <1>10. QED BY <1>5, <1>6, <1>7, <1>8, <1>9 DEF Rebuilt, replay, a, b, e, q

\* What is told later changes nothing that was read.
LEMMA RebuiltEarlier ==
    ASSUME NEW J, IsSeq(J), NEW m, NEW r \in Seq(1 .. Len(J))
    PROVE  Rebuilt(Append(J, m), r) = Rebuilt(J, r)
  <1> DEFINE S == {J[i] : i \in DOMAIN J} \cup {m}
  <1>1. J \in Seq(S) /\ m \in S
    BY DEF IsSeq
  <1> HIDE DEF S
  <1>2. \A k \in 1 .. Len(J) : Append(J, m)[k] = J[k]
    BY <1>1
  <1>3. Len(r) \in Nat /\ \A i \in 1 .. Len(r) : r[i] \in 1 .. Len(J)
    OBVIOUS
  <1>4. \A i \in 1 .. Len(r) : Append(J, m)[r[i]] = J[r[i]]
    BY <1>2, <1>3
  <1>5. Picked(Append(J, m), r) = Picked(J, r)
    BY <1>4 DEF Picked
  <1>6. QED BY <1>5 DEF Rebuilt

\* applyDecoded keeps the store's shape, ignores what the store has heard, and
\* otherwise moves the cursor to the event and keeps a row of it.
LEMMA AppliedShape ==
    ASSUME NEW st, DOMAIN st = StoreFields, NEW raw
    PROVE  LET v == applyDecoded(st, raw)
           IN  /\ DOMAIN v = StoreFields
               /\ raw.seq < st.lastSeq + 1 => v = st
               /\ ~(raw.seq < st.lastSeq + 1) =>
                      /\ v.lastSeq = raw.seq
                      /\ \E row : /\ row.seq = raw.seq
                                  /\ v.events = Append(st.events, row)
  <1> DEFINE e == decodeEvent(raw)
             global == FoldGlobal(st, e)
             next == FoldTask(global, e)
             row == [seq |-> e.seq, kind |-> e.kind, taskId |-> e.taskId,
                     payload |-> e.payload, degraded |-> ~e.ok]
  <1>1. e.seq = raw.seq
    BY DEF decodeEvent
  <1>2. CASE raw.seq < st.lastSeq + 1
    BY <1>1, <1>2 DEF applyDecoded
  <1>3. CASE ~(raw.seq < st.lastSeq + 1)
    <2>1. DOMAIN next = DOMAIN st /\ next.events = st.events
      <3>1. DOMAIN global = DOMAIN st /\ global.events = st.events
        BY DEF FoldGlobal, StoreFields, emptyStore
      <3> HIDE DEF global
      <3>2. QED BY <3>1 DEF FoldTask, StoreFields, emptyStore
    <2>2. applyDecoded(st, raw) =
              [next EXCEPT !.lastSeq = e.seq,
                           !.gapDetected = @ \/ e.seq > st.lastSeq + 1,
                           !.events = Append(@, row)]
      BY <1>1, <1>3 DEF applyDecoded
    <2>3. row.seq = raw.seq
      BY <1>1
    <2> HIDE DEF next, e, row
    <2>4. /\ DOMAIN applyDecoded(st, raw) = StoreFields
          /\ applyDecoded(st, raw).lastSeq = raw.seq
          /\ applyDecoded(st, raw).events = Append(st.events, row)
      BY <1>1, <2>1, <2>2 DEF StoreFields, emptyStore
    <2>5. QED BY <1>3, <2>3, <2>4
  <1>4. QED BY <1>2, <1>3

\* The connection and the events do not touch each other.
LEMMA ConnectionAside ==
    ASSUME NEW st, DOMAIN st = StoreFields, NEW raw
    PROVE  Unconnected(applyDecoded(st, raw)) = applyDecoded(Unconnected(st), raw)
  <1> DEFINE c == emptyStore.connection
             u == Unconnected(st)
             e == decodeEvent(raw)
  <1>0. /\ u = [st EXCEPT !.connection = c]
        /\ \A x : Unconnected(x) = [x EXCEPT !.connection = c]
    BY DEF Unconnected, setConnection
  <1>1. u.lastSeq = st.lastSeq
    BY <1>0 DEF StoreFields, emptyStore
  <1>2. CASE e.seq < st.lastSeq + 1
    BY <1>1, <1>2 DEF applyDecoded
  <1>3. CASE ~(e.seq < st.lastSeq + 1)
    <2> DEFINE g == FoldGlobal(st, e)
               h == FoldGlobal(u, e)
               n == FoldTask(g, e)
               o == FoldTask(h, e)
    <2>1. h = [g EXCEPT !.connection = c] /\ DOMAIN g = StoreFields
      <3> HIDE DEF c, e, u
      <3>1. CASE ~e.ok
        BY <1>0, <3>1 DEF FoldGlobal
      <3>2. CASE e.ok
        <4> DEFINE a == foldModelInstall(st.modelInstalls, e)
                   b == foldEngineInstall(st.engineInstalls, e)
                   d == foldModelServer(st.modelServers, e)
        <4>1. /\ u.modelInstalls = st.modelInstalls
              /\ u.engineInstalls = st.engineInstalls
              /\ u.modelServers = st.modelServers
          BY <1>0 DEF StoreFields, emptyStore
        <4>2. /\ g = [st EXCEPT !.modelInstalls = a, !.engineInstalls = b,
                                !.modelServers = d]
              /\ h = [u EXCEPT !.modelInstalls = a, !.engineInstalls = b,
                               !.modelServers = d]
          BY <3>2, <4>1 DEF FoldGlobal
        <4> HIDE DEF a, b, d, g, h
        <4>3. QED BY <1>0, <4>2
      <3>3. QED BY <3>1, <3>2
    <2> HIDE DEF g, h
    <2>2. o = [n EXCEPT !.connection = c] /\ DOMAIN n = StoreFields
      <3> HIDE DEF c, u
      <3> DEFINE t == e.taskId
                 Tell(f, kind) == IF e.ok /\ e.kind = kind
                                  THEN Put(f, t, [seq |-> e.seq, payload |-> e.payload])
                                  ELSE f
                 files == foldFileChange(Get(g.files, t), e)
                 runs == foldTestRun(Get(g.tests, t), e)
                 a == Put(g.tasks, t, advanceTask(Get(g.tasks, t), e))
                 b == Tell(g.plans, "plan_created")
                 d == Tell(g.approvals, "approval_requested")
                 k == IF e.ok THEN Put(g.files, t, files) ELSE g.files
                 l == IF e.ok /\ runs # Null THEN Put(g.tests, t, runs) ELSE g.tests
      <3>1. CASE t = Null
        BY <2>1, <3>1 DEF FoldTask
      <3>2. CASE t # Null
        <4>1. /\ h.tasks = g.tasks /\ h.plans = g.plans /\ h.tests = g.tests
              /\ h.approvals = g.approvals /\ h.files = g.files
          BY <2>1 DEF StoreFields, emptyStore
        <4>2. /\ n = [g EXCEPT !.tasks = a, !.plans = b, !.approvals = d,
                               !.files = k, !.tests = l]
              /\ o = [h EXCEPT !.tasks = a, !.plans = b, !.approvals = d,
                               !.files = k, !.tests = l]
          BY <3>2, <4>1 DEF FoldTask
        <4> HIDE DEF a, b, d, k, l, n, o, e
        <4>3. QED BY <2>1, <4>2
      <3>3. QED BY <3>1, <3>2
    <2> HIDE DEF n, o
    <2> DEFINE gap == n.gapDetected \/ e.seq > st.lastSeq + 1
               events == Append(n.events, [seq |-> e.seq, kind |-> e.kind,
                                           taskId |-> e.taskId, payload |-> e.payload,
                                           degraded |-> ~e.ok])
    <2>3. o.gapDetected = n.gapDetected /\ o.events = n.events
      BY <2>2 DEF StoreFields, emptyStore
    <2>4. /\ applyDecoded(st, raw) = [n EXCEPT !.lastSeq = e.seq, !.gapDetected = gap,
                                               !.events = events]
          /\ applyDecoded(u, raw) = [o EXCEPT !.lastSeq = e.seq, !.gapDetected = gap,
                                              !.events = events]
      BY <1>1, <1>3, <2>3 DEF applyDecoded, n, o, g, h
    <2> HIDE DEF gap, events, e, u, c
    <2>5. QED BY <1>0, <2>2, <2>4 DEF u
  <1>4. QED BY <1>2, <1>3

-----------------------------------------------------------------------------
(***************************************************************************)
(* A store that replaying the events it holds rebuilds.                    *)
(***************************************************************************)
\* The seq of the last event read.
Tip(r) == IF r = <<>> THEN 0 ELSE r[Len(r)]

\* The store's fields are there, r are the seqs of its rows, the cursor is at the
\* last of them, and but for the connection it is the one that replaying those
\* events gives.
Replayed(st, J, r) ==
    /\ DOMAIN st = StoreFields
    /\ IsSeq(st.events) /\ HeldSeqs(st) = r
    /\ r \in Seq(1 .. Len(J))
    /\ st.lastSeq = Tip(r)
    /\ Unconnected(st) = Rebuilt(J, r)

\* The events of a journal stand at their seq.
Numbered(J) == IsSeq(J) /\ \A i \in DOMAIN J : J[i].seq = i

\* A run of seqs read after others.
Run(r, from, to) == r \o [i \in 1 .. to - from + 1 |-> from + i - 1]

\* A run grows at its end.
LEMMA RunGrows ==
    ASSUME NEW r, r \in Seq(Nat), NEW from \in Nat, NEW to \in Nat, from - 1 <= to
    PROVE  /\ Run(r, from, from - 1) = r
           /\ Run(r, from, to) \in Seq(Nat)
           /\ Run(r, from, to + 1) = Append(Run(r, from, to), to + 1)
           /\ from <= to => Tip(Run(r, from, to)) = to
  <1> DEFINE S == Nat
             l == Len(r)
             n == to - from + 1
             a == [i \in 1 .. n |-> from + i - 1]
             b == [i \in 1 .. n + 1 |-> from + i - 1]
             e == [i \in 1 .. 0 |-> from + i - 1]
  <1>1. n \in Nat /\ l \in Nat
    OBVIOUS
  <1>2. /\ a \in Seq(S) /\ Len(a) = n /\ b \in Seq(S) /\ Len(b) = n + 1
        /\ e \in Seq(S) /\ Len(e) = 0
    <2>1. \A i \in 1 .. n + 1 : from + i - 1 \in Nat
      BY <1>1
    <2>2. n + 1 \in Nat /\ \A i \in 1 .. n : i \in 1 .. n + 1
      BY <1>1
    <2> HIDE DEF n
    <2>3. QED BY <1>1, <2>1, <2>2
  <1>3. Run(r, from, from - 1) = r
    <2>1. from - 1 - from + 1 = 0
      OBVIOUS
    <2>2. Run(r, from, from - 1) = r \o e
      BY <2>1 DEF Run
    <2> HIDE DEF e
    <2>3. r \o e \in Seq(S) /\ Len(r \o e) = Len(r)
          /\ \A i \in 1 .. Len(r) : (r \o e)[i] = r[i]
      <3>1. Len(r) + 0 = Len(r) BY <1>1
      <3>2. QED BY <1>2, <3>1, ConcatFacts
    <2>4. r \o e = r
      BY <2>3, SameSequence
    <2>5. QED BY <2>2, <2>4
  <1>4. Run(r, from, to) = r \o a /\ Run(r, from, to + 1) = r \o b
    <2>1. to + 1 - from + 1 = n + 1
      OBVIOUS
    <2>2. QED BY <2>1 DEF Run
  <1>5. /\ \A i \in 1 .. n : a[i] = from + i - 1 /\ b[i] = from + i - 1
        /\ b[n + 1] = to + 1
        /\ from <= to => n \in 1 .. n /\ a[n] = to
    <2>1. \A i \in 1 .. n : i \in 1 .. n + 1
      BY <1>1
    <2>2. n + 1 \in 1 .. n + 1 /\ from + (n + 1) - 1 = to + 1 /\ from + n - 1 = to
      BY <1>1
    <2>3. from <= to => n \in 1 .. n
      BY <1>1
    <2> HIDE DEF n
    <2>4. QED BY <2>1, <2>2, <2>3
  <1> HIDE DEF a, b, e, n, S
  <1>6. /\ r \o a \in Seq(S) /\ r \o b \in Seq(S)
        /\ Len(r \o a) = l + n /\ Len(r \o b) = l + (n + 1)
        /\ \A i \in 1 .. l : (r \o a)[i] = r[i] /\ (r \o b)[i] = r[i]
        /\ \A i \in 1 .. n : (r \o a)[l + i] = a[i]
        /\ \A i \in 1 .. n + 1 : (r \o b)[l + i] = b[i]
    <2>1. r \in Seq(S) BY DEF S
    <2>2. /\ r \o a \in Seq(S) /\ Len(r \o a) = l + Len(a)
          /\ \A i \in 1 .. l : (r \o a)[i] = r[i]
          /\ \A i \in 1 .. Len(a) : (r \o a)[l + i] = a[i]
      BY <1>2, <2>1
    <2>3. /\ r \o b \in Seq(S) /\ Len(r \o b) = l + Len(b)
          /\ \A i \in 1 .. l : (r \o b)[i] = r[i]
          /\ \A i \in 1 .. Len(b) : (r \o b)[l + i] = b[i]
      BY <1>2, <2>1
    <2>4. QED BY <1>2, <2>2, <2>3
  <1>7. Run(r, from, to + 1) = Append(Run(r, from, to), to + 1)
    <2> DEFINE p == Append(r \o a, to + 1)
               q == r \o b
    <2>1. to + 1 \in S BY DEF S
    <2>2. /\ p \in Seq(S) /\ Len(p) = l + n + 1
          /\ \A i \in 1 .. l + n : p[i] = (r \o a)[i]
          /\ p[l + n + 1] = to + 1
      BY <1>6, <2>1, AppendFacts
    <2>3. ASSUME NEW i \in 1 .. l + n + 1 PROVE p[i] = q[i]
      <3>1. CASE i <= l
        <4>1. i \in 1 .. l /\ i \in 1 .. l + n BY <1>1, <3>1
        <4>2. QED BY <1>6, <2>2, <4>1
      <3>2. CASE i > l /\ i <= l + n
        <4>1. /\ i - l \in 1 .. n /\ i - l \in 1 .. n + 1 /\ l + (i - l) = i
              /\ i \in 1 .. l + n
          BY <1>1, <3>2
        <4>2. p[i] = a[i - l] /\ q[i] = b[i - l] BY <1>6, <2>2, <4>1
        <4>3. QED BY <1>5, <4>1, <4>2
      <3>3. CASE i = l + n + 1
        <4>1. n + 1 \in 1 .. n + 1 /\ l + (n + 1) = i BY <1>1, <3>3
        <4>2. QED BY <1>5, <1>6, <2>2, <3>3, <4>1
      <3>4. i <= l \/ (i > l /\ i <= l + n) \/ i = l + n + 1
        BY <1>1
      <3> HIDE DEF p, q
      <3>5. QED BY <3>1, <3>2, <3>3, <3>4
    <2>4. Len(p) = Len(q) /\ Len(p) = l + n + 1
      BY <1>1, <1>6, <2>2
    <2>5. q \in Seq(S) BY <1>6
    <2> HIDE DEF p, q
    <2>6. p = q
      BY <2>2, <2>3, <2>4, <2>5, SameSequence
    <2>7. QED BY <1>4, <2>6 DEF p, q
  <1>8. from <= to => Tip(Run(r, from, to)) = to
    <2> SUFFICES ASSUME from <= to PROVE Tip(r \o a) = to
      BY <1>4
    <2>1. (r \o a)[l + n] = to /\ Len(r \o a) = l + n
      BY <1>5, <1>6
    <2>2. l + n # 0
      BY <1>1, <1>5
    <2>3. r \o a # <<>>
      BY <2>1, <2>2
    <2>4. QED BY <2>1, <2>3 DEF Tip
  <1>9. QED BY <1>3, <1>4, <1>6, <1>7, <1>8 DEF S

\* The connection is no part of what is rebuilt.
LEMMA UnconnectedFacts ==
    ASSUME NEW st, DOMAIN st = StoreFields
    PROVE  /\ DOMAIN Unconnected(st) = StoreFields
           /\ Unconnected(st).lastSeq = st.lastSeq
           /\ \A c : LET t == setConnection(st, c)
                     IN  /\ DOMAIN t = StoreFields
                         /\ t.lastSeq = st.lastSeq /\ t.events = st.events
                         /\ Unconnected(t) = Unconnected(st)
  BY DEF Unconnected, setConnection, StoreFields, emptyStore

\* Nothing was read yet.
LEMMA EmptyReplayed ==
    ASSUME NEW J, IsSeq(J)
    PROVE  Replayed(emptyStore, J, <<>>)
  <1>1. Rebuilt(J, <<>>) = emptyStore
    <2>1. <<>> \in Seq(Nat) /\ 0 \in Nat OBVIOUS
    <2>2. QED BY <2>1, RebuiltSteps
  <1>2. /\ Unconnected(emptyStore) = emptyStore /\ emptyStore.lastSeq = 0
        /\ emptyStore.events = <<>>
    BY DEF Unconnected, setConnection, emptyStore
  <1>3. IsSeq(emptyStore.events) /\ HeldSeqs(emptyStore) = <<>>
    BY <1>2 DEF IsSeq, HeldSeqs
  <1>4. QED BY <1>1, <1>2, <1>3 DEF Replayed, Tip, StoreFields

\* One more row is one more seq.
LEMMA RowHeld ==
    ASSUME NEW st, IsSeq(st.events), NEW row, NEW v,
           v.events = Append(st.events, row)
    PROVE  IsSeq(v.events) /\ HeldSeqs(v) = Append(HeldSeqs(st), row.seq)
  <1> DEFINE S == {st.events[i] : i \in DOMAIN st.events} \cup {row}
             l == Len(st.events)
  <1>1. st.events \in Seq(S) /\ row \in S
    BY DEF IsSeq
  <1> HIDE DEF S
  <1>2. /\ v.events \in Seq(S) /\ l \in Nat /\ Len(v.events) = l + 1
        /\ \A i \in 1 .. l : v.events[i] = st.events[i]
        /\ v.events[l + 1] = row
        /\ DOMAIN v.events = 1 .. l + 1 /\ DOMAIN st.events = 1 .. l
    BY <1>1, AppendFacts
  <1>3. IsSeq(v.events)
    BY Appended
  <1> DEFINE a == HeldSeqs(st)
             b == HeldSeqs(v)
             T == {st.events[i].seq : i \in 1 .. l} \cup {row.seq}
             c == Append(a, row.seq)
  <1>4. a = [i \in 1 .. l |-> st.events[i].seq]
        /\ b = [i \in 1 .. l + 1 |-> v.events[i].seq]
    BY <1>2 DEF HeldSeqs
  <1>5. a \in Seq(T) /\ Len(a) = l /\ row.seq \in T
    <2> HIDE DEF l
    <2>1. \A i \in 1 .. l : st.events[i].seq \in T OBVIOUS
    <2> HIDE DEF T, a
    <2>2. a \in Seq(T) /\ Len(a) = l BY <1>2, <1>4, <2>1
    <2>3. QED BY <2>2 DEF T
  <1>6. b \in Seq(T) /\ Len(b) = l + 1
    <2>1. ASSUME NEW i \in 1 .. l + 1 PROVE v.events[i].seq \in T
      <3>1. CASE i \in 1 .. l BY <1>2, <3>1
      <3>2. CASE i = l + 1 BY <1>2, <3>2
      <3>3. i \in 1 .. l \/ i = l + 1 BY <1>2
      <3> HIDE DEF T
      <3>4. QED BY <3>1, <3>2, <3>3
    <2> DEFINE m == l + 1
    <2>2. m \in Nat /\ b = [i \in 1 .. m |-> v.events[i].seq] BY <1>2, <1>4
    <2>3. \A i \in 1 .. m : v.events[i].seq \in T BY <2>1
    <2> HIDE DEF T, b, m
    <2>4. b \in [1 .. m -> T] BY <2>2, <2>3
    <2>5. b \in Seq(T) /\ Len(b) = m BY <2>2, <2>4, ListsElements
    <2>6. QED BY <2>5 DEF m
  <1> HIDE DEF T
  <1>7. /\ c \in Seq(T) /\ Len(c) = l + 1
        /\ \A i \in 1 .. l : c[i] = a[i] /\ c[l + 1] = row.seq
    BY <1>5, AppendFacts
  <1>8. ASSUME NEW i \in 1 .. l + 1 PROVE c[i] = b[i]
    <2>1. CASE i \in 1 .. l
      <3>1. c[i] = st.events[i].seq BY <1>4, <1>7, <2>1
      <3>2. b[i] = v.events[i].seq BY <1>4
      <3>3. QED BY <1>2, <2>1, <3>1, <3>2
    <2>2. CASE i = l + 1
      <3>1. c[l + 1] = row.seq BY <1>5, AppendFacts
      <3>2. b[l + 1] = v.events[l + 1].seq BY <1>4, <2>2
      <3>3. QED BY <1>2, <2>2, <3>1, <3>2
    <2>3. i \in 1 .. l \/ i = l + 1 BY <1>2
    <2> HIDE DEF a, b, c
    <2>4. QED BY <2>1, <2>2, <2>3
  <1> HIDE DEF a, b, c
  <1>9. b = c
    BY <1>6, <1>7, <1>8, SameSequence
  <1>10. QED BY <1>3, <1>9 DEF a, b, c

\* One event of the journal: one that was read before, or a later one.
LEMMA EventRead ==
    ASSUME NEW J, Numbered(J), NEW st, NEW r, Replayed(st, J, r),
           NEW k \in 1 .. Len(J)
    PROVE  LET v == applyDecoded(st, J[k])
           IN  /\ Tip(r) \in Nat
               /\ k <= Tip(r) => Replayed(v, J, r)
               /\ ~(k <= Tip(r)) => Replayed(v, J, Append(r, k))
  <1> DEFINE last == Len(J)
             n == st.lastSeq
             v == applyDecoded(st, J[k])
  <1>1. /\ last \in Nat /\ J[k].seq = k /\ n = Tip(r)
        /\ DOMAIN st = StoreFields /\ Unconnected(st) = Rebuilt(J, r)
        /\ r \in Seq(1 .. last)
    BY SeqPlaces DEF Numbered, Replayed
  <1> HIDE DEF last
  <1>2. r \in Seq(Nat) /\ n \in Nat
    <2>1. r \in Seq(Nat) BY <1>1
    <2>2. r # <<>> => r[Len(r)] \in Nat BY <2>1
    <2>3. QED BY <1>1, <2>1, <2>2 DEF Tip
  <1>3. CASE k <= n
    <2>1. J[k].seq < n + 1 BY <1>1, <1>2, <1>3
    <2>2. v = st BY <1>1, <2>1, AppliedShape
    <2>3. QED BY <1>1, <1>2, <1>3, <2>2
  <1>4. CASE ~(k <= n)
    <2> DEFINE q == Append(r, k)
    <2>1. ~(J[k].seq < n + 1) BY <1>1, <1>2, <1>4
    <2>2. /\ DOMAIN v = StoreFields /\ v.lastSeq = k
          /\ \E row : row.seq = k /\ v.events = Append(st.events, row)
      <3>1. /\ DOMAIN v = StoreFields /\ v.lastSeq = J[k].seq
            /\ \E row : row.seq = J[k].seq /\ v.events = Append(st.events, row)
        BY <1>1, <2>1, AppliedShape
      <3> HIDE DEF v
      <3>2. QED BY <1>1, <3>1
    <2>3. Unconnected(v) = applyDecoded(Unconnected(st), J[k])
      BY <1>1, ConnectionAside
    <2>4. Rebuilt(J, q) = applyDecoded(Rebuilt(J, r), J[k])
      BY <1>2, RebuiltSteps
    <2>5. Unconnected(v) = Rebuilt(J, q)
      BY <1>1, <2>3, <2>4
    <2> HIDE DEF v
    <2>6. IsSeq(v.events) /\ HeldSeqs(v) = q
      <3>1. IsSeq(st.events) /\ HeldSeqs(st) = r
        BY DEF Replayed
      <3>2. PICK row : row.seq = k /\ v.events = Append(st.events, row)
        BY <2>2
      <3>3. IsSeq(v.events) /\ HeldSeqs(v) = Append(HeldSeqs(st), row.seq)
        BY <3>1, <3>2, RowHeld
      <3>4. QED BY <3>1, <3>2, <3>3
    <2>7. k \in 1 .. last
      BY DEF last
    <2>8. /\ q \in Seq(1 .. last) /\ Len(q) = Len(r) + 1 /\ q[Len(r) + 1] = k
          /\ Len(r) \in Nat
      BY <1>1, <2>7, AppendFacts
    <2>9. Tip(q) = k
      <3>1. q # <<>> BY <2>8
      <3>2. QED BY <2>8, <3>1 DEF Tip
    <2>10. Replayed(v, J, q)
      BY <2>2, <2>5, <2>6, <2>8, <2>9 DEF Replayed, last
    <2>11. QED BY <1>1, <1>2, <1>4, <2>10 DEF v
  <1>5. QED BY <1>3, <1>4

\* Where the part of a batch begins that the store has not read yet.
Fresh(r, first) == IF first <= Tip(r) THEN Tip(r) + 1 ELSE first

\* applyBatch: whatever part of a batch is new is read, in order.
LEMMA BatchRead ==
    ASSUME NEW J, Numbered(J), NEW st, NEW r, Replayed(st, J, r),
           NEW to \in 1 .. Len(J), NEW first \in 1 .. to
    PROVE  LET v == applyBatch(st, SubSeq(J, first, to))
           IN  /\ Tip(r) \in Nat
               /\ to <= Tip(r) => Replayed(v, J, r)
               /\ ~(to <= Tip(r)) => Replayed(v, J, Run(r, Fresh(r, first), to))
  <1> DEFINE last == Len(J)
             raws == SubSeq(J, first, to)
             l == to - first + 1
             n == Tip(r)
             from == Fresh(r, first)
             At(i) == first + i - 1
             Now(i) == IF At(i) < from THEN r ELSE Run(r, from, At(i))
  <1>1. last \in Nat /\ n \in Nat /\ r \in Seq(Nat)
    <2>1. last \in Nat BY SeqPlaces DEF Numbered
    <2>2. n \in Nat BY EventRead
    <2>3. r \in Seq(Nat) BY <2>1 DEF Replayed
    <2>4. QED BY <2>1, <2>2, <2>3
  <1> HIDE DEF n
  <1>2. /\ from \in Nat /\ from >= first /\ from > n
        /\ from = first \/ from = n + 1
    BY <1>1 DEF Fresh, n
  <1>3. Len(raws) = l /\ \A i \in 1 .. l : raws[i] = J[At(i)]
    <2>1. \E S : J \in Seq(S)
      BY DEF Numbered, IsSeq
    <2>2. QED BY <1>1, <2>1
  <1>4. /\ l \in Nat /\ At(l) = to /\ At(0) = first - 1
        /\ \A i \in 1 .. l : At(i) \in 1 .. last
        /\ \A i \in 0 .. l : At(i) \in Nat
        /\ \A i \in 1 .. l : At(i) = At(i - 1) + 1
    BY <1>1
  <1> HIDE DEF raws, l, last, from
  <1>5. PICK F : Folds(F, st, raws, l) /\ applyBatch(st, raws) = F[l]
    BY <1>3, <1>4, BatchFolds
  <1>6. F[0] = st /\ \A i \in 1 .. l : F[i] = applyDecoded(F[i - 1], raws[i])
    BY <1>4, <1>5, FoldSteps
  <1> DEFINE Good(i) == Replayed(F[i], J, Now(i))
             Wrong == {i \in 0 .. l : ~Good(i)}
  <1>7. Wrong = {}
    <2>1. SUFFICES ASSUME Wrong # {} PROVE FALSE
      OBVIOUS
    <2>2. PICK i \in Wrong : \A k \in Wrong : i <= k
      <3>1. Wrong \subseteq Nat OBVIOUS
      <3> HIDE DEF Wrong
      <3>2. QED BY <2>1, <3>1, Least
    <2>3. Good(0)
      <3>1. Now(0) = r BY <1>2, <1>4
      <3>2. QED BY <1>6, <3>1
    <2>4. i \in 1 .. l
      BY <1>4, <2>3
    <2>5. i - 1 \in 0 .. l /\ i - 1 \notin Wrong
      <3>1. i - 1 \in 0 .. l /\ ~(i <= i - 1) BY <1>4, <2>4
      <3> HIDE DEF Wrong
      <3>2. QED BY <2>2, <3>1
    <2>6. Good(i - 1)
      BY <2>5
    <2> DEFINE k == At(i)
               j == At(i - 1)
               b == F[i - 1]
               p == Now(i - 1)
    <2>7. F[i] = applyDecoded(b, J[k]) /\ k \in 1 .. Len(J)
      BY <1>3, <1>4, <1>6, <2>4 DEF last
    <2>8. j \in Nat /\ k = j + 1 /\ k >= first
      <3>1. k >= first BY <2>4
      <3>2. QED BY <1>4, <2>4, <2>5, <3>1
    <2>9. Replayed(b, J, p)
      BY <2>6
    <2>10. /\ k <= Tip(p) => Replayed(F[i], J, p)
           /\ ~(k <= Tip(p)) => Replayed(F[i], J, Append(p, k))
      <3> HIDE DEF k, b, p
      <3>1. QED BY <2>7, <2>9, EventRead
    <2>11. CASE k < from
      <3>1. p = r /\ Now(i) = r
        BY <1>2, <2>8, <2>11
      <3>2. k <= n
        BY <1>1, <1>2, <2>8, <2>11
      <3>3. Replayed(F[i], J, r)
        BY <2>10, <3>1, <3>2 DEF n
      <3>4. QED BY <2>4, <3>1, <3>3
    <2>12. CASE k = from
      <3>1. p = r /\ Now(i) = Run(r, from, k) /\ from - 1 = j
        BY <1>2, <2>8, <2>12
      <3>2. Run(r, from, k) = Append(r, k)
        <4>1. /\ Run(r, from, from - 1) = r
              /\ Run(r, from, j + 1) = Append(Run(r, from, j), j + 1)
          <5> HIDE DEF j, k
          <5>1. from - 1 <= j BY <1>2, <2>8, <3>1
          <5>2. QED BY <1>1, <1>2, <2>8, <5>1, RunGrows
        <4>2. QED BY <2>8, <3>1, <4>1
      <3>3. ~(k <= Tip(p))
        BY <1>1, <1>2, <2>8, <2>12, <3>1 DEF n
      <3>4. QED BY <2>10, <3>1, <3>2, <3>3
    <2>13. CASE k > from
      <3>1. /\ p = Run(r, from, j) /\ Now(i) = Run(r, from, k)
            /\ from <= j /\ from - 1 <= j
        BY <1>2, <2>8, <2>13
      <3>2. Tip(p) = j /\ Run(r, from, k) = Append(p, k)
        <4> HIDE DEF j, k, p
        <4>1. /\ Tip(Run(r, from, j)) = j
              /\ Run(r, from, j + 1) = Append(Run(r, from, j), j + 1)
          BY <1>1, <1>2, <2>8, <3>1, RunGrows
        <4>2. QED BY <2>8, <3>1, <4>1
      <3>3. ~(k <= Tip(p))
        BY <2>8, <3>2
      <3>4. QED BY <2>10, <3>1, <3>2, <3>3
    <2>14. QED BY <1>2, <2>8, <2>11, <2>12, <2>13
  <1>8. Good(l)
    <2>1. l \in 0 .. l BY <1>4
    <2>2. QED BY <1>7, <2>1
  <1>9. CASE to <= n
    <2>1. Now(l) = r BY <1>1, <1>2, <1>4, <1>9
    <2>2. QED BY <1>1, <1>5, <1>8, <1>9, <2>1 DEF raws, n
  <1>10. CASE ~(to <= n)
    <2>1. ~(to < from)
      BY <1>1, <1>2, <1>10
    <2>2. Now(l) = Run(r, from, to) BY <1>4, <2>1
    <2>3. QED BY <1>1, <1>5, <1>8, <1>10, <2>2 DEF raws, n, from
  <1>11. QED BY <1>9, <1>10

\* The handlers that only read the store.
Held(w, v) == "store" \in DOMAIN w => "store" \in DOMAIN v /\ v.store = w.store

LEMMA ListenersRead ==
    ASSUME NEW w, NEW r
    PROVE  /\ \A from, method, about, kept :
                  Held(w, Send(w, from, method, about, kept))
           /\ \A force : Held(w, RefreshPanels(w, force))
           /\ Held(w, RefreshBadges(w)) /\ Held(w, RefreshList(w, r))
           /\ Held(w, ListChange(w, r)) /\ Held(w, PromptResume(w))
  <1>1. ASSUME NEW v, NEW from, NEW method, NEW about, NEW kept
        PROVE  Held(v, Send(v, from, method, about, kept))
    BY DEF Held, Send
  <1>2. ASSUME NEW force PROVE Held(w, RefreshPanels(w, force))
    <2> DEFINE t == Focus(w)
               v == [w EXCEPT !.panels.fetching = TRUE, !.panels.next = NoData(t),
                              !.panels.cold = FALSE, !.panels.missed = FALSE,
                              !.panels.failed = FALSE]
    <2>1. Held(w, v) BY DEF Held
    <2>2. Held(v, Send(v, "panels", "task/report", t, Null)) BY <1>1
    <2>3. Held(w, Send(v, "panels", "task/report", t, Null))
      <3> HIDE DEF v, t
      <3>1. QED BY <2>1, <2>2 DEF Held
    <2>4. QED BY <2>3 DEF Held, RefreshPanels
  <1>3. Held(w, RefreshBadges(w))
    <2> DEFINE t == Focus(w)
               v == [w EXCEPT !.badges.lastTaskId = t, !.badges.overtaken = FALSE,
                              !.badges.failed = FALSE]
    <2>1. Held(w, v) BY DEF Held
    <2>2. Held(v, Send(v, "badges", "ledger/changes", t, Null)) BY <1>1
    <2>3. Held(w, Send(v, "badges", "ledger/changes", t, Null))
      <3> HIDE DEF v, t
      <3>1. QED BY <2>1, <2>2 DEF Held
    <2>4. QED BY <2>3 DEF Held, RefreshBadges
  <1>4. ASSUME NEW u PROVE Held(u, RefreshList(u, r))
    <2> DEFINE v == [u EXCEPT !.lists[r].failed = FALSE, !.lists[r].skipped = FALSE]
    <2>1. Held(u, v) BY DEF Held
    <2>2. Held(v, Send(v, r, "model/list", Null, Null)) BY <1>1
    <2>3. Held(u, Send(v, r, "model/list", Null, Null))
      <3> HIDE DEF v
      <3>1. QED BY <2>1, <2>2 DEF Held
    <2>4. QED BY <2>3 DEF Held, RefreshList
  <1>5. Held(w, ListChange(w, r))
    <2> DEFINE latest == LastTerminal(w.store, r)
               v == [w EXCEPT !.lists[r].seen = latest]
    <2>1. Held(w, v) BY DEF Held
    <2>2. Held(w, RefreshList(v, r))
      <3> HIDE DEF v
      <3>1. QED BY <1>4, <2>1 DEF Held
    <2>3. QED BY <2>2 DEF Held, ListChange
  <1>6. Held(w, PromptResume(w))
    BY DEF Held, PromptResume
  <1>7. QED BY <1>1, <1>2, <1>3, <1>4, <1>5, <1>6

LEMMA ChangesRead ==
    ASSUME NEW w
    PROVE  /\ Held(w, StoreChanged(w)) /\ Held(w, FocusChanged(w))
           /\ Held(w, SupervisorChanged(w)) /\ Held(w, Open(w))
  <1>1. Held(w, StoreChanged(w))
    <2> DEFINE a == RefreshPanels(w, FALSE)
               b == PromptResume(a)
               c == ListChange(b, "marker")
               d == RefreshBadges(c)
               e == ListChange(d, "models")
               f == ListChange(e, "picker")
    <2>1. Held(w, a) /\ Held(a, b) /\ Held(b, c) /\ Held(c, d) /\ Held(d, e)
          /\ Held(e, f)
      BY ListenersRead
    <2> HIDE DEF a, b, c, d, e, f
    <2>2. Held(w, f) BY <2>1 DEF Held
    <2>3. QED BY <2>2 DEF StoreChanged, a, b, c, d, e, f
  <1>2. ASSUME NEW u PROVE Held(u, RefreshBadges(RefreshPanels(u, FALSE)))
    <2>1. /\ Held(u, RefreshPanels(u, FALSE))
          /\ Held(RefreshPanels(u, FALSE), RefreshBadges(RefreshPanels(u, FALSE)))
      BY ListenersRead
    <2>2. QED BY <2>1 DEF Held
  <1>3. Held(w, Open(w))
    <2> DEFINE v == [w EXCEPT !.conn = "connecting"]
               z == SupervisorChanged(v)
    <2>1. Held(w, v) BY DEF Held
    <2>2. Held(v, z) BY <1>2 DEF SupervisorChanged
    <2>3. Held(z, Send(z, "session", "session/open", Null, Null)) BY ListenersRead
    <2> HIDE DEF v, z
    <2>4. Held(w, Send(z, "session", "session/open", Null, Null))
      BY <2>1, <2>2, <2>3 DEF Held
    <2>5. QED BY <2>4 DEF Open, v, z
  <1>4. QED BY <1>1, <1>2, <1>3 DEF FocusChanged, SupervisorChanged

LEMMA AnswersRead ==
    ASSUME NEW w, NEW q
    PROVE  Held(w, Taken(w, q))
  <1>1. ASSUME NEW u, NEW from, NEW method, NEW about, NEW kept, Held(w, u)
        PROVE  Held(w, Send(u, from, method, about, kept))
    <2>1. Held(u, Send(u, from, method, about, kept)) BY ListenersRead
    <2>2. QED BY <1>1, <2>1 DEF Held
  <1>2. Held(w, PanelsTake(w, q))
    <2> DEFINE got  == IF q.method = "task/report"
                       THEN [w EXCEPT !.panels.next.report = q.answer.result]
                       ELSE [w EXCEPT !.panels.next.ownership =
                                          Or(q.answer.result, <<>>)]
               told == [got EXCEPT !.panels.failed = @ \/ ~q.answer.ok]
               asked == Send(told, "panels", "ledger/changes", q.about, Null)
               shown == FetchShown(told)
    <2>1. PanelsTake(w, q) \in {asked, shown} BY DEF PanelsTake
    <2>2. Held(w, got) BY DEF Held
    <2> HIDE DEF got
    <2>3. Held(w, told) BY <2>2 DEF Held
    <2> HIDE DEF told
    <2>4. Held(w, asked) BY <1>1, <2>3
    <2>5. Held(w, shown) BY <2>3 DEF Held, FetchShown
    <2> HIDE DEF asked, shown
    <2>6. QED BY <2>1, <2>4, <2>5
  <1>3. Held(w, BadgesTake(w, q))
    BY DEF Held, BadgesTake
  <1>4. ASSUME NEW r PROVE Held(w, ViewTakes(w, q, r))
    <2> DEFINE listed == [w EXCEPT
            !.lists[r].models = IF q.answer.ok THEN q.answer.result.models
                                ELSE Null,
            !.lists[r].at = IF q.answer.ok THEN q.answer.result.at ELSE @,
            !.lists[r].failed = ~q.answer.ok]
               asked == Send(listed, r, "model/recommend", Null, Null)
               bare == [listed EXCEPT !.lists[r].recommend = Null]
               advised == [w EXCEPT !.lists[r].recommend = q.answer.result]
    <2>1. ViewTakes(w, q, r) \in {asked, bare, advised}
      <3>1. CASE q.method = "model/list" /\ "hardware" \in w.caps
        BY <3>1 DEF ViewTakes
      <3>2. CASE q.method = "model/list" /\ "hardware" \notin w.caps
        BY <3>2 DEF ViewTakes
      <3>3. CASE q.method # "model/list"
        BY <3>3 DEF ViewTakes
      <3>4. QED BY <3>1, <3>2, <3>3
    <2>2. Held(w, listed) /\ Held(w, advised) BY DEF Held
    <2> HIDE DEF listed, advised
    <2>3. Held(w, asked) BY <1>1, <2>2
    <2>4. Held(w, bare) BY <2>2 DEF Held
    <2> HIDE DEF asked, bare
    <2>5. QED BY <2>1, <2>2, <2>3, <2>4
  <1>5. Held(w, MarkerTakes(w, q))
    <2> DEFINE v == [w EXCEPT !.lists["marker"].failed = ~q.answer.ok]
    <2>1. Held(w, v) BY DEF Held
    <2> HIDE DEF v
    <2>2. Held(w, Send(v, "marker", "doctor/run", Null, q.answer)) BY <1>1, <2>1
    <2>3. CASE q.method = "model/list" BY <2>2, <2>3 DEF MarkerTakes, v
    <2>4. CASE q.method # "model/list" BY <2>4 DEF MarkerTakes, Held
    <2>5. QED BY <2>3, <2>4
  <1>6. Held(w, RemovalTakes(w, q))
    BY ListenersRead DEF Held, RemovalTakes
  <1>7. Held(w, SessionTakes(w, q))
    <2> DEFINE broken == [w EXCEPT !.conn = "failed", !.caps = {}]
               open == [w EXCEPT !.conn = "ready", !.caps = scn.caps]
               z == SupervisorChanged(open)
    <2>1. SessionTakes(w, q) \in {SupervisorChanged(broken), z,
                                  RefreshList(z, "marker")}
      BY DEF SessionTakes
    <2>2. Held(w, broken) /\ Held(w, open) BY DEF Held
    <2> HIDE DEF broken, open
    <2>3. Held(broken, SupervisorChanged(broken)) /\ Held(open, z)
      BY ChangesRead
    <2> HIDE DEF z
    <2>4. Held(z, RefreshList(z, "marker"))
      BY ListenersRead
    <2>5. QED BY <2>1, <2>2, <2>3, <2>4 DEF Held
  <1>8. Held(w, DiscardTakes(w, q))
    BY <1>1 DEF Held, DiscardTakes
  <1>9. Held(w, CreateTakes(w, q))
    <2> DEFINE v == [w EXCEPT !.pinned = q.about]
    <2>1. Held(w, v) BY DEF Held
    <2>2. Held(v, FocusChanged(v)) BY ChangesRead
    <2> HIDE DEF v
    <2>3. Held(w, FocusChanged(v)) BY <2>1, <2>2 DEF Held
    <2>4. QED BY <2>3 DEF Held, CreateTakes, v
  <1>10. Held(w, w)
    BY DEF Held
  <1>11. QED
    BY <1>2, <1>3, <1>4, <1>5, <1>6, <1>7, <1>8, <1>9, <1>10 DEF Taken

\* core/connectionState sets the connection alone.
LEMMA ConnectedRead ==
    ASSUME NEW w, "store" \in DOMAIN w, NEW c
    PROVE  Connected(w, c).store = setConnection(w.store, c)
  <1> DEFINE v == [w EXCEPT !.store = setConnection(@, c)]
             told == StoreChanged(v)
             u == [told EXCEPT !.conn = c]
  <1>1. "store" \in DOMAIN v /\ v.store = setConnection(w.store, c)
    OBVIOUS
  <1>2. Connected(w, c) \in {told, SupervisorChanged(u)}
    BY DEF Connected
  <1>3. Held(v, told)
    BY ChangesRead
  <1> HIDE DEF v, told
  <1>4. Held(told, u)
    BY DEF Held
  <1>5. Held(u, SupervisorChanged(u))
    BY ChangesRead
  <1> HIDE DEF u
  <1>6. QED BY <1>1, <1>2, <1>3, <1>4, <1>5 DEF Held

-----------------------------------------------------------------------------
(***************************************************************************)
(* The window reads runs of the journal.                                   *)
(***************************************************************************)
ReadInv == Replayed(win.store, journal, HeldSeqs(win.store))

\* The window's step is one of RebuiltStore's, or none of its business.
Reads == ReadInv' /\ [Rebuilds!Next]_Rebuilds!vars

\* What the invariants say of the journal and the store.
LEMMA ReadFacts ==
    ASSUME IInv, SoundInv, ReadInv
    PROVE  /\ Numbered(journal) /\ Len(journal) \in Nat
           /\ "store" \in DOMAIN win
           /\ DOMAIN win.store = StoreFields
  <1>1. Numbered(journal) /\ Len(journal) \in Nat
    BY SeqPlaces DEF SoundInv, Told, Numbered
  <1>2. "store" \in DOMAIN win
    BY DEF IInv, Tight, Loose, Formed, Fields
  <1>3. QED BY <1>1, <1>2 DEF ReadInv, Replayed

\* A store with the same rows that is still a replay, and nothing was told.
LEMMA StoreStays ==
    ASSUME ReadInv, journal' = journal, NEW st, win'.store = st,
           Replayed(st, journal, HeldSeqs(win.store))
    PROVE  Reads
  <1>1. HeldSeqs(st) = HeldSeqs(win.store)
    BY DEF Replayed
  <1>2. Unconnected(st) = Unconnected(win.store)
    BY DEF ReadInv, Replayed
  <1>3. HeldSeqs(win.store)' = HeldSeqs(st)
        /\ Unconnected(win.store)' = Unconnected(st)
    BY DEF HeldSeqs, Unconnected, setConnection
  <1>4. ReadInv'
    <2>1. Replayed(st, journal, HeldSeqs(st)) BY <1>1
    <2>2. QED BY <2>1 DEF ReadInv
  <1>5. UNCHANGED Rebuilds!vars
    BY <1>1, <1>2, <1>3 DEF Rebuilds!vars
  <1>6. QED BY <1>4, <1>5 DEF Reads

\* A step that only reads the store.
LEMMA OnlyReads ==
    ASSUME SoundInv, IInv, ReadInv, journal' = journal, Held(win, win')
    PROVE  Reads
  <1>1. "store" \in DOMAIN win
    BY ReadFacts
  <1>2. win'.store = win.store
    BY <1>1 DEF Held
  <1>3. QED BY <1>2, StoreStays DEF ReadInv

\* Core tells one more event.
LEMMA TellsReads ==
    ASSUME SoundInv, IInv, ReadInv,
           NEW e, journal' = Append(journal, e), win' = win
    PROVE  Reads
  <1> DEFINE r == HeldSeqs(win.store)
             last == Len(journal)
  <1>1. Numbered(journal) /\ last \in Nat
    BY ReadFacts
  <1>2. IsSeq(journal)
    BY <1>1 DEF Numbered
  <1>3. Len(journal') = last + 1 /\ SubSeq(journal', 1, last) = journal
    <2> DEFINE S == {journal[i] : i \in DOMAIN journal} \cup {e}
    <2>1. journal \in Seq(S) /\ e \in S
      BY <1>2 DEF IsSeq
    <2> HIDE DEF S
    <2>2. QED BY <2>1
  <1>4. r \in Seq(1 .. last) /\ r \in Seq(1 .. last + 1)
    <2>1. r \in Seq(1 .. last)
      BY DEF ReadInv, Replayed
    <2>2. 1 .. last \subseteq 1 .. last + 1
      BY <1>1
    <2> HIDE DEF r, last
    <2>3. QED BY <2>1, <2>2, AmongMore
  <1>5. Rebuilt(journal', r) = Rebuilt(journal, r)
    BY <1>2, <1>4, RebuiltEarlier
  <1>6. Replayed(win.store, journal', r)
    <2> HIDE DEF last
    <2>1. QED BY <1>3, <1>4, <1>5 DEF ReadInv, Replayed
  <1>7. ReadInv'
    <2>1. HeldSeqs(win.store)' = r BY DEF HeldSeqs
    <2>2. QED BY <1>6, <2>1 DEF ReadInv
  <1>8. Rebuilds!Grow
    BY <1>3 DEF Rebuilds!Grow, HeldSeqs, Unconnected, setConnection
  <1>9. QED BY <1>7, <1>8 DEF Reads, Rebuilds!Next

\* A batch comes.
LEMMA DeliverReads ==
    ASSUME SoundInv, IInv, ReadInv,
           NEW to \in DOMAIN journal, NEW first \in 1 .. to, Deliver(first, to)
    PROVE  Reads
  <1> DEFINE r == HeldSeqs(win.store)
             last == Len(journal)
             st == applyBatch(win.store, SubSeq(journal, first, to))
             v == [win EXCEPT !.store = st]
             from == Fresh(r, first)
             q == Run(r, from, to)
  <1>1. /\ Numbered(journal) /\ last \in Nat /\ "store" \in DOMAIN win
        /\ to \in 1 .. last
    BY ReadFacts, SeqPlaces DEF Numbered
  <1>2. win' = StoreChanged(v) /\ journal' = journal
    BY DEF Deliver
  <1>3. Replayed(win.store, journal, r)
    BY DEF ReadInv
  <1>4. /\ Tip(r) \in Nat
        /\ to <= Tip(r) => Replayed(st, journal, r)
        /\ ~(to <= Tip(r)) => Replayed(st, journal, q)
    BY <1>1, <1>3, BatchRead
  <1> HIDE DEF st
  <1>5. win'.store = st
    <2>1. "store" \in DOMAIN v /\ v.store = st
      BY <1>1
    <2> HIDE DEF v
    <2>2. QED BY <1>2, <2>1, ChangesRead DEF Held
  <1>6. CASE to <= Tip(r)
    BY <1>2, <1>4, <1>5, <1>6, StoreStays
  <1>7. CASE ~(to <= Tip(r))
    <2>1. Replayed(st, journal, q)
      BY <1>4, <1>7
    <2>2. /\ HeldSeqs(st) = q
          /\ Unconnected(st) = Rebuilt(journal, q)
      BY <2>1 DEF Replayed
    <2>3. HeldSeqs(win.store)' = q /\ Unconnected(win.store)' = Rebuilt(journal, q)
      BY <1>5, <2>2 DEF HeldSeqs, Unconnected, setConnection
    <2>4. ReadInv'
      BY <1>2, <1>5, <2>1, <2>3 DEF ReadInv
    <2>5. Rebuilds!Upto = Tip(r)
      BY DEF Rebuilds!Upto, Tip
    <2>6. to \in Tip(r) + 1 .. last /\ from \in Tip(r) + 1 .. to
      BY <1>1, <1>4, <1>7 DEF Fresh
    <2>7. Rebuilds!Read(from, to)
      <3> HIDE DEF from, q, st
      <3>1. q = r \o [i \in 1 .. to - from + 1 |-> from + i - 1]
        BY DEF q, Run
      <3>2. Rebuilds!Rebuilt(q) = Rebuilt(journal, q)
        BY DEF Rebuilds!Rebuilt, Rebuilt, Picked
      <3>3. QED BY <1>2, <2>3, <3>1, <3>2 DEF Rebuilds!Read
    <2> HIDE DEF from
    <2>8. QED BY <2>4, <2>5, <2>6, <2>7 DEF Reads, Rebuilds!Next
  <1>8. QED BY <1>6, <1>7

\* core/connectionState: no part of what is rebuilt.
LEMMA ConnectionReads ==
    ASSUME SoundInv, IInv, ReadInv, NEW c, ConnectionState(c)
    PROVE  Reads
  <1> DEFINE st == setConnection(win.store, c)
  <1>1. "store" \in DOMAIN win /\ DOMAIN win.store = StoreFields
    BY ReadFacts
  <1>2. win' = Connected(win, c) /\ journal' = journal
    BY DEF ConnectionState
  <1>3. win'.store = st
    BY <1>1, <1>2, ConnectedRead
  <1>4. /\ DOMAIN st = StoreFields /\ st.lastSeq = win.store.lastSeq
        /\ st.events = win.store.events
        /\ Unconnected(st) = Unconnected(win.store)
    BY <1>1, UnconnectedFacts
  <1> HIDE DEF st
  <1>5. Replayed(st, journal, HeldSeqs(win.store))
    BY <1>4 DEF ReadInv, Replayed, HeldSeqs
  <1>6. QED BY <1>2, <1>3, <1>5, StoreStays

\* valyria.openWorkspace: everything is read again.
LEMMA ReopenReads ==
    ASSUME SoundInv, IInv, ReadInv, OpenWorkspace
    PROVE  Reads
  <1> DEFINE v == [win EXCEPT !.store = emptyStore]
             dropped == StoreChanged(v)
             unpinned == [dropped EXCEPT !.pinned = Null]
             cleared == IF dropped.pinned = Null THEN dropped
                        ELSE FocusChanged(unpinned)
             u == [cleared EXCEPT !.prompted = FALSE]
  <1>1. Numbered(journal) /\ "store" \in DOMAIN win
    BY ReadFacts
  <1>2. win' = Open(u) /\ journal' = journal
    BY DEF OpenWorkspace, Acts
  <1>3. "store" \in DOMAIN v /\ v.store = emptyStore
    BY <1>1
  <1> HIDE DEF v
  <1>4. Held(v, dropped)
    BY ChangesRead
  <1> HIDE DEF dropped
  <1>5. Held(dropped, unpinned)
    BY DEF Held
  <1> HIDE DEF unpinned
  <1>6. Held(v, cleared)
    <2>1. Held(unpinned, FocusChanged(unpinned))
      BY ChangesRead
    <2>2. QED BY <1>4, <1>5, <2>1 DEF Held
  <1> HIDE DEF cleared
  <1>7. Held(cleared, u)
    BY DEF Held
  <1> HIDE DEF u
  <1>8. Held(u, Open(u))
    BY ChangesRead
  <1>9. win'.store = emptyStore
    BY <1>2, <1>3, <1>6, <1>7, <1>8 DEF Held
  <1>10. Replayed(emptyStore, journal, <<>>)
    BY <1>1, EmptyReplayed DEF Numbered
  <1>11. /\ HeldSeqs(win.store)' = <<>>
         /\ Unconnected(win.store)' = Rebuilt(journal, <<>>)
    BY <1>9, <1>10 DEF Replayed, HeldSeqs, Unconnected, setConnection
  <1>12. ReadInv'
    BY <1>2, <1>9, <1>10, <1>11 DEF ReadInv
  <1>13. Rebuilds!Forget
    BY <1>2, <1>11 DEF Rebuilds!Forget, Rebuilds!Rebuilt, Rebuilt, Picked
  <1>14. QED BY <1>12, <1>13 DEF Reads, Rebuilds!Next

\* A step of Core's that answers, or of a window that takes an answer, is started
\* again or loses its host.
LEMMA AnswersHeld ==
    ASSUME Answer \/ Fail \/ Take \/ HostExits \/ Respawn
    PROVE  Held(win, win') /\ journal' = journal
  <1>1. CASE Answer
    BY <1>1 DEF Answer, Held
  <1>2. CASE Fail
    BY <1>2 DEF Fail, Held
  <1>3. CASE HostExits
    BY <1>3 DEF HostExits, Held
  <1>4. CASE Take
    <2>1. PICK i \in NextAnswered(win) :
              /\ win' = Taken([win EXCEPT !.sent = RemoveAt(@, i)], win.sent[i])
              /\ journal' = journal
      BY <1>4 DEF Take
    <2> DEFINE u == [win EXCEPT !.sent = RemoveAt(@, i)]
    <2>2. Held(win, u) BY DEF Held
    <2> HIDE DEF u
    <2>3. Held(u, Taken(u, win.sent[i])) BY AnswersRead
    <2>4. QED BY <2>1, <2>2, <2>3 DEF Held, u
  <1>5. CASE Respawn
    <2> DEFINE u == [win EXCEPT !.alive = TRUE]
    <2>1. win' = Open(u) /\ journal' = journal
      BY <1>5 DEF Respawn
    <2>2. Held(win, u) BY DEF Held
    <2> HIDE DEF u
    <2>3. Held(u, Open(u)) BY ChangesRead
    <2>4. QED BY <2>1, <2>2, <2>3 DEF Held
  <1>6. QED BY <1>1, <1>2, <1>3, <1>4, <1>5

\* What the user does, apart from opening the workspace.
LEMMA UserHeld ==
    ASSUME \/ \E t \in DOMAIN win.store.tasks : Pin(t)
           \/ \E t \in scn.creates : CreateTask(t)
           \/ OpenPanel \/ ClosePanel \/ RefreshSurface \/ RefreshModels
           \/ \E r \in {"models", "picker"} : ResolveView(r)
           \/ \E id : RemoveModel(id)
           \/ \E i \in DOMAIN win.dialogs : (\E choice : Pick(i, choice))
                                            \/ ConfirmDiscard(i)
    PROVE  Held(win, win') /\ journal' = journal
  <1>1. ASSUME NEW u, Held(win, u)
        PROVE  /\ \A from, method, about, kept :
                      Held(win, Send(u, from, method, about, kept))
               /\ \A force : Held(win, RefreshPanels(u, force))
               /\ \A r : Held(win, RefreshList(u, r))
               /\ Held(win, FocusChanged(u))
    <2>1. ASSUME NEW from, NEW method, NEW about, NEW kept
          PROVE  Held(win, Send(u, from, method, about, kept))
      <3>1. Held(u, Send(u, from, method, about, kept)) BY ListenersRead
      <3>2. QED BY <1>1, <3>1 DEF Held
    <2>2. ASSUME NEW force PROVE Held(win, RefreshPanels(u, force))
      <3>1. Held(u, RefreshPanels(u, force)) BY ListenersRead
      <3>2. QED BY <1>1, <3>1 DEF Held
    <2>3. ASSUME NEW r PROVE Held(win, RefreshList(u, r))
      <3>1. Held(u, RefreshList(u, r)) BY ListenersRead
      <3>2. QED BY <1>1, <3>1 DEF Held
    <2>4. Held(win, FocusChanged(u))
      <3>1. Held(u, FocusChanged(u)) BY ChangesRead
      <3>2. QED BY <1>1, <3>1 DEF Held
    <2>5. QED BY <2>1, <2>2, <2>3, <2>4
  <1>2. /\ Held(win, win)
        /\ \A t : Held(win, [win EXCEPT !.pinned = t])
        /\ \A b : Held(win, [win EXCEPT !.panels.open = b])
        /\ \A r : Held(win, [win EXCEPT !.lists[r].wired = TRUE])
        /\ \A i, stage : Held(win, [win EXCEPT !.dialogs[i].stage = stage])
    BY DEF Held
  <1>3. ASSUME NEW t, Pin(t) PROVE Held(win, win') /\ journal' = journal
    BY <1>1, <1>2, <1>3 DEF Pin, Acts
  <1>4. ASSUME NEW t, CreateTask(t) PROVE Held(win, win') /\ journal' = journal
    BY <1>1, <1>2, <1>4 DEF CreateTask, Acts
  <1>5. CASE OpenPanel BY <1>1, <1>2, <1>5 DEF OpenPanel, Acts
  <1>6. CASE ClosePanel BY <1>2, <1>6 DEF ClosePanel, Acts
  <1>7. CASE RefreshSurface BY <1>1, <1>2, <1>7 DEF RefreshSurface, Acts
  <1>8. CASE RefreshModels BY <1>1, <1>2, <1>8 DEF RefreshModels, Acts
  <1>9. ASSUME NEW r, ResolveView(r) PROVE Held(win, win') /\ journal' = journal
    BY <1>1, <1>2, <1>9 DEF ResolveView, Acts
  <1>10. ASSUME NEW id, RemoveModel(id) PROVE Held(win, win') /\ journal' = journal
    BY <1>1, <1>2, <1>10 DEF RemoveModel, Acts
  <1>11. ASSUME NEW i \in DOMAIN win.dialogs, NEW choice, Pick(i, choice)
         PROVE  Held(win, win') /\ journal' = journal
    <2> DEFINE t == win.dialogs[i].task
               Becomes(stage) == [win EXCEPT !.dialogs[i].stage = stage]
    <2>1. \A stage : Held(win, Becomes(stage)) BY <1>2
    <2>2. CASE choice = "Resume"
      <3>1. win' = Send(Becomes("resumed"), "prompt", "task/resume", t, Null)
            /\ journal' = journal
        BY <1>11, <2>2 DEF Pick, Acts
      <3> HIDE DEF t, Becomes
      <3>2. QED BY <1>1, <2>1, <3>1
    <2>3. CASE choice = "Inspect"
      <3> DEFINE u == [Becomes("closed") EXCEPT !.pinned = t]
      <3>1. win' = FocusChanged(u) /\ journal' = journal
        BY <1>11, <2>3 DEF Pick, Acts
      <3>2. Held(win, u) BY DEF Held
      <3> HIDE DEF u
      <3>3. QED BY <1>1, <3>1, <3>2
    <2>4. CASE choice \notin {"Resume", "Inspect"}
      <3>1. (\E stage : win' = Becomes(stage)) /\ journal' = journal
        BY <1>11, <2>4 DEF Pick, Acts
      <3> HIDE DEF Becomes
      <3>2. QED BY <2>1, <3>1
    <2>5. QED BY <2>2, <2>3, <2>4
  <1>12. ASSUME NEW i \in DOMAIN win.dialogs, ConfirmDiscard(i)
         PROVE  Held(win, win') /\ journal' = journal
    <2> DEFINE u == [win EXCEPT !.dialogs[i].stage = "discarding"]
    <2>1. /\ win' = Send(u, "discard", "task/cancel", win.dialogs[i].task, i)
          /\ journal' = journal
      BY <1>12 DEF ConfirmDiscard, Acts
    <2>2. Held(win, u) BY <1>2
    <2> HIDE DEF u
    <2>3. QED BY <1>1, <2>1, <2>2
  <1>13. QED
    BY <1>3, <1>4, <1>5, <1>6, <1>7, <1>8, <1>9, <1>10, <1>11, <1>12

\* Whatever happens, the window goes on reading runs of the journal.
LEMMA StepReads == IInv /\ SoundInv /\ ReadInv /\ [Next]_vars => Reads
  <1> SUFFICES ASSUME IInv, SoundInv, ReadInv, [Next]_vars PROVE Reads
    OBVIOUS
  <1>1. ASSUME NEW s \in DOMAIN scn.scripts, Emit(s) \/ Cancels(s) PROVE Reads
    <2>1. \E e : journal' = Append(journal, e)
      BY <1>1 DEF Emit, Cancels, Tells
    <2>2. win' = win
      BY <1>1 DEF Emit, Cancels
    <2>3. QED BY <2>1, <2>2, TellsReads
  <1>2. CASE Answer \/ Fail \/ Take \/ HostExits \/ Respawn
    BY <1>2, AnswersHeld, OnlyReads
  <1>3. CASE \E to \in DOMAIN journal : \E first \in 1 .. to : Deliver(first, to)
    BY <1>3, DeliverReads
  <1>4. CASE \E c \in {"ready", "degraded"} : ConnectionState(c)
    BY <1>4, ConnectionReads
  <1>5. CASE OpenWorkspace
    BY <1>5, ReopenReads
  <1>6. CASE \/ \E t \in DOMAIN win.store.tasks : Pin(t)
             \/ \E t \in scn.creates : CreateTask(t)
             \/ OpenPanel \/ ClosePanel \/ RefreshSurface \/ RefreshModels
             \/ \E r \in {"models", "picker"} : ResolveView(r)
             \/ \E id : RemoveModel(id)
             \/ \E i \in DOMAIN win.dialogs : (\E choice : Pick(i, choice))
                                              \/ ConfirmDiscard(i)
    BY <1>6, UserHeld, OnlyReads
  <1>7. CASE UNCHANGED vars
    <2>1. Held(win, win') /\ journal' = journal
      BY <1>7 DEF vars, Held
    <2>2. QED BY <2>1, OnlyReads
  <1>8. QED
    BY <1>1, <1>2, <1>3, <1>4, <1>5, <1>6, <1>7 DEF Next

LEMMA InitReads == Init => ReadInv /\ Rebuilds!Init
  <1> SUFFICES ASSUME Init PROVE ReadInv /\ Rebuilds!Init
    OBVIOUS
  <1>1. journal = <<>> /\ win = Open(WindowStart)
    BY DEF Init
  <1>2. "store" \in DOMAIN WindowStart /\ WindowStart.store = emptyStore
    BY DEF WindowStart
  <1>3. win.store = emptyStore
    BY <1>1, <1>2, ChangesRead DEF Held
  <1>4. IsSeq(journal)
    BY <1>1 DEF IsSeq
  <1>5. Replayed(emptyStore, journal, <<>>)
    BY <1>4, EmptyReplayed
  <1>6. /\ HeldSeqs(win.store) = <<>>
        /\ Unconnected(win.store) = Rebuilt(journal, <<>>)
    BY <1>3, <1>5 DEF Replayed
  <1>7. ReadInv
    BY <1>3, <1>5, <1>6 DEF ReadInv
  <1>8. Rebuilds!Init
    BY <1>1, <1>6 DEF Rebuilds!Init, Rebuilds!Rebuilt, Rebuilt, Picked
  <1>9. QED BY <1>7, <1>8

-----------------------------------------------------------------------------
(***************************************************************************)
(* The theorems.                                                           *)
(***************************************************************************)
\* Whatever the user answers, whichever request fails and whoever else resumes or
\* cancels the task: a discard never sets its task running, and when it went
\* through the task has been ended (maybePromptResume, cancel before resume).
THEOREM DiscardEnds == Spec => []DiscardEndsTask
  <1>1. IInv => DiscardEndsTask
    BY DEF IInv, CoreFormed, Tight, Loose, Discards, Ended, DiscardEndsTask
  <1>2. QED BY Inductive, <1>1, PTL

\* However far the focus moves while owners are being fetched, with no fetch under
\* way the badges are of the task they stand for, unless the last one failed or
\* they were cleared in between (FileOwnershipDecorations.maybeRefresh).
THEOREM BadgesAreOfFocus == Spec => []BadgesOfFocus
  <1>1. IInv => BadgesOfFocus
    <2> SUFFICES ASSUME IInv, ~Waiting(win, "badges") PROVE BadgesOfFocus
      BY DEF BadgesOfFocus
    <2>1. From(win, "badges") = {}
      BY DEF Waiting, From
    <2>2. QED BY <2>1 DEF IInv, Tight, Loose, Badged, AllOf, BadgesOfFocus
  <1>2. QED BY Inductive, <1>1, PTL

\* The report and the owners an open panel holds are of the task they are kept
\* for, and that is the focused task with its report unless the panel knows it
\* missed a change of focus, was asked for while not ready, or a request failed
\* (EditorPanelManager.maybeRefreshData).
THEOREM PanelDataIsOfFocus == Spec => []DataOfFocus
  BY Inductive, FocusData, PTL

\* The window's own state is of the types the views rely on: however batches
\* overlap, hosts die and workspaces are reopened, neither the store's cursor nor
\* what a reader took note of is ever beyond what Core has told, and the pinned
\* task is one Core tells of (store.ts, supervisor.ts, focus.ts).
THEOREM WindowTyped == Spec => []TypeOK
  <1>1. IInv /\ SoundInv => TypeOK
    BY DEF SoundInv, Told, Sound, Shell, Heard, Connections, ListTyped, TypeOK
  <1>2. QED BY BothInductive, <1>1, PTL

\* Whichever requests fail or are dropped and in whatever order lists, doctor and
\* recommendations are answered: once nothing a reader asked for is under way,
\* its list is no older than the last event it took note of, or it knows that it
\* failed or was skipped; the marker never is skipped (onStoreChange,
\* refreshRuntimeMarker).
THEOREM ListsKeepUp == Spec => []ListNotBehind
  <1>1. IInv /\ SoundInv => ListNotBehind
    <2> SUFFICES ASSUME SoundInv, NEW r \in Readers,
                        ~Waiting(win, r), ~win.lists[r].failed
                 PROVE  \/ r # "marker" /\ win.lists[r].skipped
                        \/ win.lists[r].at >= win.lists[r].seen
      BY DEF ListNotBehind
    <2>1. \A m : AskedFor(win, r, m) = {}
      BY DEF Waiting, AskedFor, From
    <2>2. ListFresh(win, r)
      BY DEF SoundInv, Sound
    <2>3. Current(win.lists[r], r, win.lists[r].at)
      BY <2>1, <2>2 DEF ListFresh
    <2>4. QED BY <2>3 DEF Current
  <1>2. QED BY BothInductive, <1>1, PTL

\* An open panel that missed no change of focus shows the focused task's report
\* and owners or none, and the workspace and the review show the same files with
\* the same owners (EditorPanelManager, workspaceModel, reviewModel).
THEOREM PanelsShowFocus == Spec => []PanelOfFocus
  <1>1. IInv /\ SoundInv => PanelOfFocus
    <2> SUFFICES ASSUME IInv, SoundInv PROVE PanelOfFocus
      OBVIOUS
    <2> DEFINE p == win.panels
               t == Focus(win)
               work == workspaceView(win)
               review == reviewView(win)
    <2>1. DataOfFocus
      BY FocusData
    <2>2. Heard(win.store, Len(journal), DOMAIN scn.scripts) /\ Len(journal) \in Nat
      BY SeqPlaces DEF SoundInv, Told, Sound, Shell
    <2>3. t # Null => t \in DOMAIN win.store.tasks
      BY <2>2, FocusKnown DEF Focus
    <2>4. /\ work.taskId = t /\ review.taskId = t
          /\ work.verified = p.data.report /\ review.verified = p.data.report
          /\ t = Null => DOMAIN review.files = {}
          /\ t # Null => review.files = work.files
      BY <2>3, PanelSurfaces
    <2>5. \A i \in DOMAIN review.files :
              \/ review.files[i].ownership = Null
              \/ \E path \in DOMAIN p.data.ownership :
                     review.files[i].ownership = p.data.ownership[path]
      BY PanelSurfaces
    <2>6. ASSUME p.open, ~p.fetching, ~p.missed
          PROVE  /\ {work.taskId, review.taskId} = {t}
                 /\ {work.verified, review.verified} \subseteq {t, Null}
                 /\ \A i \in DOMAIN review.files :
                        /\ review.files[i] = work.files[i]
                        /\ review.files[i].ownership \in {t, Null}
      <3>1. p.data.taskId = t /\ p.data.report \in {Null, t}
        BY <2>1, <2>6 DEF DataOfFocus
      <3>2. \A path \in DOMAIN p.data.ownership : p.data.ownership[path] = t
        BY <2>1, <3>1 DEF DataOfFocus
      <3> HIDE DEF work, review, t, p
      <3>3. QED BY <2>4, <2>5, <3>1, <3>2
    <2>7. QED BY <2>1, <2>6 DEF PanelOfFocus
  <1>2. QED BY BothInductive, <1>1, PTL

\* However the focus, the lists and the store came to be as they are: ticker and
\* chat call the task shown working or blocked alike and Home takes no new one
\* while it works, every surface answers the one ask that is shown and none offers
\* a new task beside it, the chat stops only what the workspace can cancel, and a
\* command that names no task goes to the task shown unless the pinned one is
\* still unknown to the store (models.ts, webviews/*/main.ts, dispatch.ts).
THEOREM OneTaskIsShown == Spec => []OneTaskShown
  <1>1. IInv /\ SoundInv => OneTaskShown
    <2> SUFFICES ASSUME SoundInv PROVE OneTaskShown
      OBVIOUS
    <2>1. /\ Len(journal) \in Nat
          /\ Heard(win.store, Len(journal), DOMAIN scn.scripts)
      BY SeqPlaces DEF SoundInv, Told, Sound, Shell
    <2>2. OneStory(Offers(win))
      BY <2>1, StoryTold
    <2>3. ASSUME NEW pin
          PROVE  SameTone(pin, chatModel(win.store, pin, win.conn), homeView(win))
      BY <2>1, ToneAndChat DEF SameTone, homeView
    <2>4. TargetIsShown
      BY DEF TargetIsShown, targetTask, Focus, resolveFocus
    <2>5. QED BY <2>2, <2>3, <2>4 DEF OneTaskShown
  <1>2. QED BY BothInductive, <1>1, PTL

\* However batches are cut, overlap or leave events out, hosts die, sessions are
\* opened afresh and connections come and go: what the window keeps of the journal
\* is what replaying the events it holds gives, its cursor and the gap on its
\* record included, and it reads later events only, in order, or starts again.
\* TaskWindow implements RebuiltStore (store.ts, replay).
THEOREM StoreRebuilt == Spec => StoreIsDisposable
  <1>1. Init => IInv /\ SoundInv /\ ReadInv /\ Rebuilds!Init
    BY InitInv, InitSound, InitReads
  <1>2. IInv /\ SoundInv /\ ReadInv /\ [Next]_vars =>
            (IInv /\ SoundInv /\ ReadInv)' /\ [Rebuilds!Next]_Rebuilds!vars
    BY StepInv, StepSound, StepReads DEF Reads
  <1>3. QED BY <1>1, <1>2, PTL DEF Spec, StoreIsDisposable, Rebuilds!Spec
=============================================================================
