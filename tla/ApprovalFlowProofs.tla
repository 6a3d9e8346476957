------------------------- MODULE ApprovalFlowProofs -------------------------
(***************************************************************************)
(* Proofs about ApprovalFlow, for any number of tasks, events, answers and *)
(* reopened sessions, whether or not asks can come in a form the window    *)
(* cannot read.                                                            *)
(*                                                                         *)
(* The heart is what a batch does to the projection: applyBatch is a       *)
(* recursive function, so its meaning is proved by taking the least batch  *)
(* for which it could go wrong (Least below).  The rest is about three     *)
(* copies of an ask's number that age on their way: on a card or a toast,  *)
(* in a click, in a request.                                               *)
(***************************************************************************)
EXTENDS ApprovalFlow, SequenceLemmas, WellFoundedInduction

-----------------------------------------------------------------------------
(***************************************************************************)
(* Numbers: the least of a set, the greatest of a bounded one, and the     *)
(* choice Latest makes.                                                    *)
(***************************************************************************)
\* A set of naturals has a least member.
LEMMA Least ==
    ASSUME NEW T, T \subseteq Nat, T # {}
    PROVE  \E n \in T : \A m \in T : n <= m
  <1>1. \E n \in T : \A m \in T : ~(<<m, n>> \in OpToRel(<, Nat))
    BY WFMin, NatLessThanWellFounded
  <1>2. PICK n \in T : \A m \in T : ~(<<m, n>> \in OpToRel(<, Nat))
    BY <1>1
  <1>3. \A m \in Nat : m < n => <<m, n>> \in OpToRel(<, Nat)
    BY <1>2, Zenon DEF OpToRel
  <1>4. \A m \in T : ~(m < n)
    BY <1>2, <1>3, Zenon
  <1>5. QED BY <1>4

\* A set of naturals with a bound has a greatest member.
LEMMA Greatest ==
    ASSUME NEW b \in Nat, NEW T, T \subseteq 0..b, T # {}
    PROVE  \E n \in T : \A m \in T : m <= n
  <1> DEFINE D == {d \in Nat : \E n \in T : d = b - n}
  <1>1. D # {} /\ D \subseteq Nat
    <2>1. PICK n \in T : TRUE OBVIOUS
    <2>2. b - n \in D BY <2>1
    <2>3. QED BY <2>2
  <1>2. PICK d \in D : \A e \in D : d <= e
    <2> HIDE DEF D
    <2>1. QED BY <1>1, Least
  <1>3. PICK n \in T : d = b - n
    BY <1>2
  <1>4. \A m \in T : m <= n
    <2>1. SUFFICES ASSUME NEW m \in T PROVE m <= n OBVIOUS
    <2>2. b - m \in D OBVIOUS
    <2>3. QED BY <2>2, <1>2, <1>3
  <1>5. QED BY <1>4

\* n is 0 and there is none, or n is the last of S.
IsLatest(n, S) == \/ n = 0 /\ S = {}
                  \/ n \in S /\ \A j \in S : j <= n

\* Latest finds it.
LEMMA LatestIs ==
    ASSUME NEW S, S \subseteq Nat \ {0}, NEW n, IsLatest(n, S)
    PROVE  Latest(S) = n
  <1>1. CASE S = {}
    BY <1>1 DEF Latest, IsLatest
  <1>2. CASE S # {}
    <2>1. n \in S /\ \A j \in S : j <= n
      BY <1>2 DEF IsLatest
    <2>2. \A i \in S : (\A j \in S : j <= i) => i = n
      BY <2>1
    <2>3. Latest(S) = CHOOSE i \in S : \A j \in S : j <= i
      BY <1>2 DEF Latest
    <2>4. QED BY <2>1, <2>2, <2>3
  <1>3. QED BY <1>1, <1>2

-----------------------------------------------------------------------------
(***************************************************************************)
(* The projection.                                                         *)
(***************************************************************************)
Stores == [lastSeq : 0..MaxEvents, state : [Tasks -> States],
           touched : [Tasks -> 0..MaxEvents],
           approvals : [Tasks -> 0..MaxEvents]]

AskKinds    == {"approval_requested"}
ChangeKinds == {"waiting", "working", "ended"}

\* The events of t among the first n, and the readable ones of some kinds.
Seen(n, t)        == {i \in 1..n : journal[i].task = t}
Says(n, t, kinds) == {i \in Seen(n, t) : journal[i].ok /\ journal[i].kind \in kinds}

\* s is what the first s.lastSeq events of the journal amount to.
Folded(s) ==
    /\ s \in Stores
    /\ s.lastSeq <= Len(journal)
    /\ \A t \in Tasks :
         /\ IsLatest(s.approvals[t], Says(s.lastSeq, t, AskKinds))
         /\ IsLatest(s.touched[t], Seen(s.lastSeq, t))
         /\ \A i \in Says(s.lastSeq, t, ChangeKinds) :
              IsLatest(i, Says(s.lastSeq, t, ChangeKinds)) =>
                s.state[t] = journal[i].kind

JournalType == journal \in Seq(Events) /\ Len(journal) <= MaxEvents

\* One more event is the last of its task, and of its kind if it is readable.
LEMMA OneMore ==
    ASSUME NEW n \in Nat, NEW t, NEW kinds, NEW m, IsLatest(m, Says(n, t, kinds)),
           NEW p, IsLatest(p, Seen(n, t))
    PROVE  /\ journal[n + 1].task = t => IsLatest(n + 1, Seen(n + 1, t))
           /\ journal[n + 1].task # t => IsLatest(p, Seen(n + 1, t))
           /\ n + 1 \in Says(n + 1, t, kinds) =>
                IsLatest(n + 1, Says(n + 1, t, kinds))
           /\ n + 1 \notin Says(n + 1, t, kinds) =>
                IsLatest(m, Says(n + 1, t, kinds))
           /\ n + 1 \in Says(n + 1, t, kinds) <=>
                /\ journal[n + 1].task = t
                /\ journal[n + 1].ok
                /\ journal[n + 1].kind \in kinds
  <1>1. Seen(n + 1, t) = Seen(n, t) \cup {i \in {n + 1} : journal[i].task = t}
    BY DEF Seen
  <1>2. Says(n + 1, t, kinds) = Says(n, t, kinds) \cup
          {i \in {n + 1} : journal[i].task = t /\ journal[i].ok /\ journal[i].kind \in kinds}
    BY <1>1 DEF Says
  <1>3. Seen(n, t) \subseteq 1..n /\ Says(n, t, kinds) \subseteq 1..n
    BY DEF Seen, Says
  <1>4. n + 1 \in Says(n + 1, t, kinds) <=>
           journal[n + 1].task = t /\ journal[n + 1].ok /\ journal[n + 1].kind \in kinds
    BY <1>2, <1>3
  <1>5. journal[n + 1].task = t => IsLatest(n + 1, Seen(n + 1, t))
    BY <1>1, <1>3 DEF IsLatest
  <1>6. journal[n + 1].task # t => Seen(n + 1, t) = Seen(n, t)
    BY <1>1
  <1>7. n + 1 \in Says(n + 1, t, kinds) => IsLatest(n + 1, Says(n + 1, t, kinds))
    BY <1>2, <1>3 DEF IsLatest
  <1>8. n + 1 \notin Says(n + 1, t, kinds) => Says(n + 1, t, kinds) = Says(n, t, kinds)
    BY <1>2
  <1>9. QED BY <1>4, <1>5, <1>6, <1>7, <1>8

\* A store that has the journal up to some event has it, one event on, up to
\* the next; an event it has already does nothing to it.
LEMMA FoldedStep ==
    ASSUME JournalType, NEW s, Folded(s), NEW seq \in 1..(s.lastSeq + 1),
           seq <= Len(journal)
    PROVE  /\ Folded(applyDecoded(s, seq))
           /\ applyDecoded(s, seq).lastSeq >= seq
           /\ applyDecoded(s, seq).lastSeq >= s.lastSeq
  <1> DEFINE e == journal[seq]
             z == applyDecoded(s, seq)
  <1>1. /\ s \in Stores /\ s.lastSeq \in Nat /\ s.lastSeq <= MaxEvents
        /\ s.state \in [Tasks -> States] /\ s.touched \in [Tasks -> 0..MaxEvents]
        /\ s.approvals \in [Tasks -> 0..MaxEvents]
    BY ApprovalConstants DEF Folded, Stores
  <1>2. /\ e \in Events /\ seq \in 1..MaxEvents /\ e.task \in Tasks
        /\ e.ok \in BOOLEAN /\ e.kind \in Kinds
    <2>1. seq \in 1..Len(journal) BY <1>1, ApprovalConstants DEF JournalType
    <2>2. e \in Events BY <2>1 DEF JournalType
    <2>3. seq \in 1..MaxEvents BY <2>1, ApprovalConstants DEF JournalType
    <2>4. e.task \in Tasks /\ e.ok \in BOOLEAN /\ e.kind \in Kinds
      <3> HIDE DEF e
      <3>1. QED BY <2>2 DEF Events
    <2>5. QED BY <2>2, <2>3, <2>4
  <1>3. CASE seq < s.lastSeq + 1
    <2>1. z = s BY <1>3 DEF applyDecoded
    <2>2. QED BY <2>1, <1>3, <1>1
  <1>4. CASE seq = s.lastSeq + 1
    <2>1. z = [lastSeq   |-> seq,
               state     |-> [s.state EXCEPT ![e.task] = advanceTask(@, e)],
               touched   |-> [s.touched EXCEPT ![e.task] = seq],
               approvals |-> IF e.ok /\ e.kind = "approval_requested"
                             THEN [s.approvals EXCEPT ![e.task] = seq]
                             ELSE s.approvals]
      BY <1>4, <1>1 DEF applyDecoded
    <2>2. advanceTask(s.state[e.task], e) \in States
      <3>1. s.state[e.task] \in States BY <1>1, <1>2
      <3>2. QED BY <3>1 DEF advanceTask, States
    <2> HIDE DEF z, e
    <2>3. z.lastSeq = seq BY <2>1
    <2>4. z \in Stores
      <3>1. [s.state EXCEPT ![e.task] = advanceTask(@, e)] \in [Tasks -> States]
        BY <1>1, <2>2
      <3>2. [s.touched EXCEPT ![e.task] = seq] \in [Tasks -> 0..MaxEvents]
        BY <1>1, <1>2
      <3>3. [s.approvals EXCEPT ![e.task] = seq] \in [Tasks -> 0..MaxEvents]
        BY <1>1, <1>2
      <3>4. seq \in 0..MaxEvents BY <1>2
      <3>5. QED BY <2>1, <3>1, <3>2, <3>3, <3>4, <1>1 DEF Stores
    <2>5. ASSUME NEW t \in Tasks
          PROVE  /\ IsLatest(z.approvals[t], Says(z.lastSeq, t, AskKinds))
                 /\ IsLatest(z.touched[t], Seen(z.lastSeq, t))
                 /\ \A i \in Says(z.lastSeq, t, ChangeKinds) :
                      IsLatest(i, Says(z.lastSeq, t, ChangeKinds)) =>
                        z.state[t] = journal[i].kind
      <3>1. z.touched[t] = IF t = e.task THEN seq ELSE s.touched[t]
        BY <2>1, <1>1, <1>2
      <3>2. z.approvals[t] = IF t = e.task /\ e.ok /\ e.kind \in AskKinds
                             THEN seq ELSE s.approvals[t]
        BY <2>1, <1>1, <1>2 DEF AskKinds
      <3>3. z.state[t] = IF t = e.task THEN advanceTask(s.state[t], e) ELSE s.state[t]
        BY <2>1, <1>1, <1>2
      <3>4. /\ IsLatest(s.approvals[t], Says(s.lastSeq, t, AskKinds))
            /\ IsLatest(s.touched[t], Seen(s.lastSeq, t))
            /\ \A i \in Says(s.lastSeq, t, ChangeKinds) :
                 IsLatest(i, Says(s.lastSeq, t, ChangeKinds)) =>
                   s.state[t] = journal[i].kind
        BY DEF Folded
      <3>5. s.lastSeq \in Nat /\ journal[s.lastSeq + 1] = e
        BY <1>1, <1>4 DEF e
      <3>6. IsLatest(z.touched[t], Seen(seq, t))
        BY <3>1, <3>4, <3>5, <1>4, OneMore
      <3>7. IsLatest(z.approvals[t], Says(seq, t, AskKinds))
        BY <3>2, <3>4, <3>5, <1>4, OneMore
      <3>8. ASSUME NEW i \in Says(seq, t, ChangeKinds),
                   IsLatest(i, Says(seq, t, ChangeKinds))
            PROVE  z.state[t] = journal[i].kind
        <4> DEFINE C == Says(seq, t, ChangeKinds)
        <4>1. CASE seq \in C
          <5>1. i = seq
            <6>1. \A j \in C : j <= seq /\ j \in Nat BY <1>2 DEF Says, Seen
            <6>2. seq <= i BY <3>8, <4>1, <6>1 DEF IsLatest
            <6>3. QED BY <6>1, <6>2, <1>2
          <5>2. e.task = t /\ e.ok /\ e.kind \in ChangeKinds
            BY <4>1 DEF Says, Seen, e
          <5>3. advanceTask(s.state[t], e) = e.kind
            BY <5>2 DEF advanceTask, ChangeKinds
          <5>4. QED BY <5>1, <5>2, <5>3, <3>3 DEF e
        <4>2. CASE seq \notin C
          <5>1. C = Says(s.lastSeq, t, ChangeKinds)
            BY <4>2, <1>4, <1>1 DEF Says, Seen
          <5>2. s.state[t] = journal[i].kind /\ s.state[t] \in ChangeKinds
            BY <5>1, <3>8, <3>4 DEF Says
          <5>3. ~(e.task = t /\ e.ok /\ e.kind \in ChangeKinds)
            BY <4>2, <1>2 DEF Says, Seen, e
          <5>4. e.task = t => advanceTask(s.state[t], e) = s.state[t]
            BY <5>2, <5>3 DEF advanceTask, ChangeKinds
          <5>5. QED BY <5>2, <5>4, <3>3
        <4>3. QED BY <4>1, <4>2
      <3>9. QED BY <3>6, <3>7, <3>8, <2>3
    <2>6. QED BY <2>3, <2>4, <2>5, <1>4, <1>1 DEF Folded, z
  <1>5. QED BY <1>3, <1>4, <1>1

\* F is the recursive function of applyBatch, for a batch behind event a.
Applies(F, s, a, last) ==
    F = [n \in a..last |-> IF n = a THEN s ELSE applyDecoded(F[n - 1], n)]

\* It exists: it does for one event, and
\* for the least batch without it, the batch one event shorter has it.
LEMMA BatchFunction ==
    ASSUME NEW s, NEW a \in Nat, NEW last \in Nat, a <= last
    PROVE  \E F : Applies(F, s, a, last)
  <1> USE DEF Applies
  <1> DEFINE Has(b) == \E F : Applies(F, s, a, b)
             Lacking == {b \in Nat : a <= b /\ ~Has(b)}
  <1>1. SUFFICES ASSUME Lacking # {} PROVE FALSE
    <2>1. last \notin Lacking BY <1>1
    <2>2. QED BY <2>1
  <1>2. PICK b \in Lacking : \A c \in Lacking : b <= c
    <2>1. Lacking \subseteq Nat OBVIOUS
    <2> HIDE DEF Lacking
    <2>2. QED BY <1>1, <2>1, Least
  <1>3. b # a
    <2>1. Has(a)
      <3> DEFINE F == [n \in a..a |-> s]
      <3>1. F = [n \in a..a |-> IF n = a THEN s ELSE applyDecoded(F[n - 1], n)]
        OBVIOUS
      <3>2. QED BY <3>1
    <2>2. QED BY <2>1
  <1>4. b - 1 \in Nat /\ a <= b - 1 /\ b - 1 \notin Lacking
    <2>1. b - 1 \in Nat /\ a <= b - 1 BY <1>3
    <2>2. ~(b <= b - 1) OBVIOUS
    <2> HIDE DEF Lacking
    <2>3. QED BY <2>1, <2>2, <1>2
  <1>5. PICK F : F = [n \in a..(b - 1) |-> IF n = a THEN s ELSE applyDecoded(F[n - 1], n)]
    <2>1. Has(b - 1) BY <1>4
    <2>2. QED BY <2>1
  <1>6. Has(b)
    <2> DEFINE G == [n \in a..b |-> IF n = b THEN applyDecoded(F[b - 1], b) ELSE F[n]]
               H == [n \in a..b |-> IF n = a THEN s ELSE applyDecoded(G[n - 1], n)]
    <2>1. ASSUME NEW n \in a..b PROVE G[n] = H[n]
      <3>1. CASE n = b
        <4>1. G[n - 1] = F[b - 1] BY <3>1, <1>4
        <4>2. QED BY <3>1, <4>1, <1>3
      <3>2. CASE n = a
        BY <3>2, <1>3, <1>4, <1>5
      <3>3. CASE n # a /\ n # b
        <4>1. n \in a..(b - 1) /\ n - 1 \in a..b /\ n - 1 # b BY <3>3
        <4>2. G[n] = F[n] /\ G[n - 1] = F[n - 1] BY <3>3, <4>1
        <4>3. F[n] = applyDecoded(F[n - 1], n) BY <1>5, <4>1, <3>3
        <4>4. H[n] = applyDecoded(G[n - 1], n) BY <3>3
        <4>5. QED BY <4>2, <4>3, <4>4
      <3>4. QED BY <3>1, <3>2, <3>3
    <2>2. G = H BY <2>1
    <2>3. QED BY <2>2
  <1>7. QED BY <1>6, <1>2

\* A batch that joins on to what the store has, or repeats some of it, leaves
\* the store with the journal up to the later of the two ends.
LEMMA FoldedBatch ==
    ASSUME JournalType, NEW s, Folded(s), NEW first \in 1..(s.lastSeq + 1),
           NEW last \in DOMAIN journal, first <= last
    PROVE  /\ Folded(applyBatch(s, first, last))
           /\ applyBatch(s, first, last).lastSeq >= s.lastSeq
  <1> DEFINE a == first - 1
             after == CHOOSE F : Applies(F, s, a, last)
  <1>1. /\ s.lastSeq \in Nat /\ a \in Nat /\ last \in Nat /\ a < last
        /\ last <= Len(journal) /\ Len(journal) \in Nat
    BY ApprovalConstants DEF Folded, Stores, JournalType
  <1>2. Applies(after, s, a, last)
    <2>1. a \in Nat /\ last \in Nat /\ a <= last BY <1>1
    <2> HIDE DEF a
    <2>2. \E F : Applies(F, s, a, last) BY <2>1, BatchFunction
    <2>3. QED BY <2>2
  <1>3. applyBatch(s, first, last) = after[last]
    BY DEF applyBatch, Applies
  <1> HIDE DEF after
  <1>4. after[a] = s
    BY <1>1, <1>2 DEF Applies
  <1>5. \A n \in a..last : n # a => after[n] = applyDecoded(after[n - 1], n)
    BY <1>1, <1>2 DEF Applies
  <1> HIDE DEF a
  <1> DEFINE Fine(n) == /\ Folded(after[n])
                        /\ after[n].lastSeq >= n
                        /\ after[n].lastSeq >= s.lastSeq
             Bad == {n \in a..last : ~Fine(n)}
  <1>6. Fine(a)
    <2>1. a <= s.lastSeq BY <1>1 DEF a
    <2>2. QED BY <1>4, <2>1, <1>1
  <1>7. \A n \in a..last : n # a /\ Fine(n - 1) => Fine(n)
    <2>1. SUFFICES ASSUME NEW n \in a..last, n # a, Fine(n - 1) PROVE Fine(n)
      OBVIOUS
    <2>2. n - 1 \in Nat /\ n \in Nat BY <2>1, <1>1
    <2>3. /\ Folded(after[n - 1]) /\ after[n - 1].lastSeq \in Nat
          /\ after[n - 1].lastSeq >= n - 1
      BY <2>1, ApprovalConstants DEF Folded, Stores
    <2>4. n \in 1..(after[n - 1].lastSeq + 1) /\ n <= Len(journal)
      BY <2>2, <2>3, <1>1
    <2>5. /\ Folded(after[n]) /\ after[n].lastSeq >= n
          /\ after[n].lastSeq >= after[n - 1].lastSeq
      <3>1. after[n] = applyDecoded(after[n - 1], n) BY <1>5, <2>1
      <3>2. QED BY <3>1, <2>3, <2>4, FoldedStep
    <2>6. after[n].lastSeq \in Nat
      BY <2>5, ApprovalConstants DEF Folded, Stores
    <2>7. after[n - 1].lastSeq >= s.lastSeq BY <2>1
    <2>8. QED BY <2>3, <2>5, <2>6, <2>7, <1>1
  <1>8. Bad = {}
    <2>1. SUFFICES ASSUME Bad # {} PROVE FALSE OBVIOUS
    <2>2. PICK n \in Bad : \A m \in Bad : n <= m
      <3>1. Bad \subseteq Nat BY <1>1
      <3> HIDE DEF Bad
      <3>2. QED BY <2>1, <3>1, Least
    <2>3. n # a BY <1>6
    <2>4. n - 1 \in a..last /\ n - 1 \notin Bad
      <3>1. n - 1 \in a..last BY <2>3, <1>1
      <3>2. ~(n <= n - 1) BY <1>1
      <3> HIDE DEF Bad
      <3>3. QED BY <3>1, <3>2, <2>2
    <2>5. Fine(n - 1) BY <2>4
    <2>6. QED BY <2>3, <2>5, <1>7
  <1>9. Fine(last)
    <2>1. last \in a..last BY <1>1
    <2>2. QED BY <2>1, <1>8
  <1>10. QED BY <1>9, <1>3

-----------------------------------------------------------------------------
(***************************************************************************)
(* The inductive invariant: the projection is that of a prefix; Core waits *)
(* on the last ask of a task; a request names the ask that was the newest  *)
(* readable one among the events its window had; and the asks that were    *)
(* answered in place of another are where the journal has them.            *)
(***************************************************************************)
PendingIsLastAsk ==
    \A t \in Tasks : pending[t] # 0 =>
        /\ pending[t] \in 1..Len(journal)
        /\ journal[pending[t]].task = t /\ journal[pending[t]].kind \in AskKinds
        /\ \A i \in 1..Len(journal) :
             journal[i].task = t /\ journal[i].kind \in AskKinds => i <= pending[t]

SeenWhenSent(r) ==
    /\ r.known <= Len(journal)
    /\ IsLatest(r.seq, Says(r.known, r.task, AskKinds))

RequestsSeen == \A i \in 1..Len(reqs) : SeenWhenSent(reqs[i])

MistakenInJournal == \A m \in mistaken : m.ask \in 1..Len(journal)

IInv == /\ TypeOK
        /\ Folded(store)
        /\ PendingIsLastAsk
        /\ RequestsSeen
        /\ MistakenInJournal
        /\ MistakenOnlyUnseen

LEMMA InitInv == Init => IInv
  <1> SUFFICES ASSUME Init PROVE IInv OBVIOUS
  <1>1. emptyStore \in Stores
    BY ApprovalConstants DEF emptyStore, Stores, States
  <1>2. TypeOK
    <2>1. journal \in Seq(Events) /\ clicks \in Seq(Seqs) /\ reqs \in Seq(Requests)
      BY DEF Init
    <2>2. Len(journal) <= MaxEvents
      BY ApprovalConstants DEF Init
    <2>3. QED BY <1>1, <2>1, <2>2, ApprovalConstants DEF Init, TypeOK, Stores
  <1>3. Folded(store)
    <2>1. store = emptyStore /\ store.lastSeq = 0 /\ Len(journal) = 0
      BY DEF Init, emptyStore
    <2>2. \A t : Seen(0, t) = {} BY DEF Seen
    <2>3. \A t, kinds : Says(0, t, kinds) = {} BY <2>2 DEF Says
    <2>4. \A t \in Tasks : store.approvals[t] = 0 /\ store.touched[t] = 0
      BY <2>1 DEF emptyStore
    <2>5. QED BY <1>1, <2>1, <2>2, <2>3, <2>4 DEF Folded, IsLatest
  <1>4. QED BY <1>2, <1>3 DEF Init, IInv, PendingIsLastAsk, RequestsSeen,
                              MistakenInJournal, MistakenOnlyUnseen

\* The most recent task is one of the tasks, so what the panels show is too,
\* and the card carries an ask of it.
LEMMA FocusIsATask ==
    ASSUME NEW s, s \in Stores, NEW explicit \in Tasks \cup {None}
    PROVE  /\ currentTask(s) \in Tasks \cup {None}
           /\ targetTask(s, explicit) \in Tasks \cup {None}
           /\ modelChatCard(s, explicit) \in Cards \cup {None}
           /\ \A t \in Tasks : pendingApprovalFor(s, t) \in 0..MaxEvents
  <1>0. /\ s.touched \in [Tasks -> 0..MaxEvents] /\ s.approvals \in [Tasks -> 0..MaxEvents]
        /\ MaxEvents \in Nat
    BY ApprovalConstants DEF Stores
  <1>1. currentTask(s) \in Tasks \cup {None}
    <2> DEFINE known == {t \in Tasks : s.state[t] # "absent"}
               T == {s.touched[t] : t \in known}
    <2>1. CASE known = {} BY <2>1 DEF currentTask
    <2>2. CASE known # {}
      <3>1. T \subseteq 0..MaxEvents /\ T # {} BY <1>0, <2>2
      <3>2. PICK n \in T : \A m \in T : m <= n
        <4> HIDE DEF T
        <4>1. QED BY <3>1, <1>0, Greatest
      <3>3. \E t \in known : \A u \in known : s.touched[u] <= s.touched[t]
        BY <3>2
      <3>4. (CHOOSE t \in known : \A u \in known : s.touched[u] <= s.touched[t]) \in known
        <4> HIDE DEF known
        <4>1. QED BY <3>3
      <3>5. QED BY <2>2, <3>4 DEF currentTask
    <2>3. QED BY <2>1, <2>2
  <1>2. \A t \in Tasks : pendingApprovalFor(s, t) \in 0..MaxEvents
    BY <1>0 DEF pendingApprovalFor
  <1>3. resolveFocus(s, explicit) \in Tasks \cup {None}
    BY <1>1 DEF resolveFocus
  <1>4. targetTask(s, explicit) \in Tasks \cup {None}
    BY <1>1 DEF targetTask
  <1>5. modelChatCard(s, explicit) \in Cards \cup {None}
    BY <1>0, <1>2, <1>3 DEF modelChatCard, Cards, Seqs
  <1>6. QED BY <1>1, <1>2, <1>4, <1>5

\* What is in the journal stays as it is when Core adds to it.
LEMMA JournalGrows ==
    ASSUME JournalType, NEW t, NEW kind \in Kinds, NEW ok \in BOOLEAN,
           t \in Tasks, Emit(t, kind, ok)
    PROVE  /\ JournalType'
           /\ Len(journal) \in Nat /\ Len(journal') = Len(journal) + 1
           /\ \A i \in 1..Len(journal) : journal'[i] = journal[i]
           /\ journal'[Len(journal')] = [task |-> t, kind |-> kind, ok |-> ok]
           /\ \A n \in 0..Len(journal) : \A u, kinds :
                /\ Seen(n, u)' = Seen(n, u)
                /\ Says(n, u, kinds)' = Says(n, u, kinds)
  <1>1. [task |-> t, kind |-> kind, ok |-> ok] \in Events
    BY DEF Events
  <1>2. /\ journal' = Append(journal, [task |-> t, kind |-> kind, ok |-> ok])
        /\ Len(journal) < MaxEvents /\ Len(journal) \in Nat
    BY DEF Emit, JournalType
  <1>3. /\ journal' \in Seq(Events) /\ Len(journal') = Len(journal) + 1
        /\ \A i \in 1..Len(journal) : journal'[i] = journal[i]
        /\ journal'[Len(journal')] = [task |-> t, kind |-> kind, ok |-> ok]
    BY <1>1, <1>2, AppendFacts DEF JournalType
  <1>4. JournalType'
    BY <1>2, <1>3, ApprovalConstants DEF JournalType
  <1>5. ASSUME NEW n \in 0..Len(journal), NEW u, NEW kinds
        PROVE  /\ Seen(n, u)' = Seen(n, u)
               /\ Says(n, u, kinds)' = Says(n, u, kinds)
    <2>1. \A i \in 1..n : journal'[i] = journal[i] BY <1>2, <1>3
    <2>2. Seen(n, u)' = Seen(n, u) BY <2>1 DEF Seen
    <2>3. \A i \in Seen(n, u) : journal'[i] = journal[i] BY <2>1 DEF Seen
    <2>4. QED BY <2>2, <2>3 DEF Says
  <1>6. QED BY <1>2, <1>3, <1>4, <1>5

\* Core's part of a step: one more event, and for an ask the number of it.
LEMMA CoreEmits ==
    ASSUME IInv, NEW t \in Tasks, NEW kind \in Kinds, NEW ok \in BOOLEAN,
           Emit(t, kind, ok), UNCHANGED store,
           pending' = [pending EXCEPT ![t] = IF kind \in AskKinds THEN Len(journal')
                                             ELSE IF kind = "waiting" \/ kind = "task_started"
                                             THEN pending[t] ELSE 0]
    PROVE  /\ JournalType' /\ Folded(store)' /\ PendingIsLastAsk'
           /\ pending' \in [Tasks -> 0..MaxEvents]
           /\ \A r \in Requests : SeenWhenSent(r) => SeenWhenSent(r)'
           /\ \A i \in 1..Len(journal) : i \in 1..Len(journal') /\ journal'[i] = journal[i]
  <1>1. JournalType /\ pending \in [Tasks -> 0..MaxEvents]
    BY DEF IInv, TypeOK, JournalType
  <1>2. /\ JournalType'
        /\ Len(journal) \in Nat /\ Len(journal') = Len(journal) + 1
        /\ \A i \in 1..Len(journal) : journal'[i] = journal[i]
        /\ journal'[Len(journal')] = [task |-> t, kind |-> kind, ok |-> ok]
        /\ \A n \in 0..Len(journal) : \A u, kinds :
             /\ Seen(n, u)' = Seen(n, u)
             /\ Says(n, u, kinds)' = Says(n, u, kinds)
    BY <1>1, JournalGrows
  <1>3. Folded(store)'
    <2>1. Folded(store) /\ store.lastSeq \in 0..Len(journal)
      BY <1>2 DEF IInv, Folded, Stores
    <2>2. store' = store /\ store' \in Stores
      BY <2>1 DEF Folded
    <2>3. store'.lastSeq <= Len(journal')
      BY <1>2, <2>1
    <2>4. \A u, kinds : /\ Seen(store.lastSeq, u)' = Seen(store.lastSeq, u)
                        /\ Says(store.lastSeq, u, kinds)' = Says(store.lastSeq, u, kinds)
      BY <1>2, <2>1, <2>2
    <2>5. \A u \in Tasks : \A i \in Says(store.lastSeq, u, ChangeKinds) :
             journal'[i] = journal[i]
      BY <1>2, <2>1 DEF Says, Seen
    <2>6. ASSUME NEW u \in Tasks
          PROVE  /\ IsLatest(store'.approvals[u], Says(store.lastSeq, u, AskKinds)')
                 /\ IsLatest(store'.touched[u], Seen(store.lastSeq, u)')
                 /\ \A i \in Says(store.lastSeq, u, ChangeKinds)' :
                      IsLatest(i, Says(store.lastSeq, u, ChangeKinds)') =>
                        store'.state[u] = journal'[i].kind
      BY <2>1, <2>2, <2>4, <2>5 DEF Folded
    <2>7. QED BY <2>2, <2>3, <2>6 DEF Folded
  <1>4. Len(journal') \in 1..MaxEvents
    BY <1>2 DEF JournalType
  <1>5. pending' \in [Tasks -> 0..MaxEvents]
    BY <1>1, <1>4, ApprovalConstants
  <1>6. PendingIsLastAsk'
    <2>1. SUFFICES ASSUME NEW u \in Tasks, pending'[u] # 0
                   PROVE  /\ pending'[u] \in 1..Len(journal')
                          /\ journal'[pending'[u]].task = u
                          /\ journal'[pending'[u]].kind \in AskKinds
                          /\ \A i \in 1..Len(journal') :
                               journal'[i].task = u /\ journal'[i].kind \in AskKinds =>
                                 i <= pending'[u]
      BY DEF PendingIsLastAsk
    <2>2. CASE u = t /\ kind \in AskKinds
      <3>1. pending'[u] = Len(journal') BY <1>1, <2>2
      <3>2. journal'[pending'[u]].task = u /\ journal'[pending'[u]].kind \in AskKinds
        BY <3>1, <1>2, <2>2
      <3>3. QED BY <3>1, <3>2, <1>2
    <2>3. CASE ~(u = t /\ kind \in AskKinds)
      <3>1. pending'[u] = pending[u] /\ pending[u] # 0
        BY <2>1, <2>3, <1>1
      <3>2. /\ pending[u] \in 1..Len(journal)
            /\ journal[pending[u]].task = u /\ journal[pending[u]].kind \in AskKinds
            /\ \A i \in 1..Len(journal) :
                 journal[i].task = u /\ journal[i].kind \in AskKinds => i <= pending[u]
        BY <3>1 DEF IInv, PendingIsLastAsk
      <3>3. ~(journal'[Len(journal')].task = u /\ journal'[Len(journal')].kind \in AskKinds)
        BY <1>2, <2>3
      <3>4. ASSUME NEW i \in 1..Len(journal'),
                   journal'[i].task = u, journal'[i].kind \in AskKinds
            PROVE  i <= pending'[u]
        <4>1. i # Len(journal') BY <3>3, <3>4
        <4>2. i \in 1..Len(journal) /\ journal'[i] = journal[i] BY <4>1, <1>2
        <4>3. QED BY <4>2, <3>1, <3>2, <3>4
      <3>5. QED BY <3>1, <3>2, <3>4, <1>2
    <2>4. QED BY <2>2, <2>3
  <1>7. ASSUME NEW r \in Requests, SeenWhenSent(r) PROVE SeenWhenSent(r)'
    <2>1. r.known \in 0..Len(journal)
      BY <1>7, <1>2 DEF SeenWhenSent, Requests
    <2>2. Says(r.known, r.task, AskKinds)' = Says(r.known, r.task, AskKinds)
      BY <1>2, <2>1
    <2>3. r.known <= Len(journal') BY <1>2, <2>1
    <2>4. QED BY <2>2, <2>3, <1>7 DEF SeenWhenSent
  <1>8. QED BY <1>2, <1>3, <1>5, <1>6, <1>7

\* One more event leaves what was sent and what was mistaken as it was.
LEMMA CoreOnly ==
    ASSUME IInv, NEW t \in Tasks, NEW kind \in Kinds, NEW ok \in BOOLEAN,
           Emit(t, kind, ok),
           pending' = [pending EXCEPT ![t] = IF kind \in AskKinds THEN Len(journal')
                                             ELSE IF kind = "waiting" \/ kind = "task_started"
                                             THEN pending[t] ELSE 0],
           UNCHANGED <<viewVars, clicks, reqs, mistaken, answers, resets>>
    PROVE  IInv'
  <1>1. /\ JournalType' /\ Folded(store)' /\ PendingIsLastAsk'
        /\ pending' \in [Tasks -> 0..MaxEvents]
        /\ \A r \in Requests : SeenWhenSent(r) => SeenWhenSent(r)'
        /\ \A i \in 1..Len(journal) : i \in 1..Len(journal') /\ journal'[i] = journal[i]
    BY CoreEmits DEF viewVars
  <1>2. TypeOK'
    BY <1>1 DEF IInv, TypeOK, JournalType, viewVars
  <1>3. RequestsSeen'
    <2>1. reqs' = reqs /\ reqs \in Seq(Requests) BY DEF IInv, TypeOK
    <2>2. \A i \in 1..Len(reqs) : SeenWhenSent(reqs[i])'
      BY <1>1, <2>1 DEF IInv, RequestsSeen
    <2>3. QED BY <2>1, <2>2 DEF RequestsSeen, SeenWhenSent
  <1>4. MistakenInJournal' /\ MistakenOnlyUnseen'
    BY <1>1 DEF IInv, MistakenInJournal, MistakenOnlyUnseen
  <1>5. QED BY <1>1, <1>2, <1>3, <1>4 DEF IInv

\* What the extension and the user do changes neither the journal nor what Core
\* waits for; it is enough that requests stay as they are or gain one that names
\* the newest ask the store has.
LEMMA WindowOnly ==
    ASSUME IInv, UNCHANGED <<coreVars, mistaken>>, TypeOK', Folded(store)',
           \A i \in 1..Len(reqs') : \/ i \in 1..Len(reqs) /\ reqs'[i] = reqs[i]
                                    \/ SeenWhenSent(reqs'[i])
    PROVE  IInv'
  <1>1. journal' = journal /\ pending' = pending /\ mistaken' = mistaken
    BY DEF coreVars
  <1>2. RequestsSeen'
    <2>1. \A i \in 1..Len(reqs') : SeenWhenSent(reqs'[i])
      BY DEF IInv, RequestsSeen
    <2>2. QED BY <2>1, <1>1 DEF RequestsSeen, SeenWhenSent, Says, Seen
  <1>3. PendingIsLastAsk'
    BY <1>1 DEF IInv, PendingIsLastAsk
  <1>4. MistakenInJournal' /\ MistakenOnlyUnseen'
    BY <1>1 DEF IInv, MistakenInJournal, MistakenOnlyUnseen
  <1>5. QED BY <1>2, <1>3, <1>4 DEF IInv

\* An answer is sent only with the newest ask the store has of its task.
LEMMA Sends ==
    ASSUME IInv, NEW t \in Tasks \cup {None}, NEW seq \in Seqs,
           resolveApproval(t, seq), UNCHANGED journal
    PROVE  /\ reqs' \in Seq(Requests)
           /\ \A i \in 1..Len(reqs') : \/ i \in 1..Len(reqs) /\ reqs'[i] = reqs[i]
                                       \/ SeenWhenSent(reqs'[i])
  <1>1. CASE t # None /\ approvalIsCurrent(store, t, seq)
    <2> DEFINE r == [task |-> t, seq |-> seq, known |-> store.lastSeq]
    <2>1. Folded(store) /\ t \in Tasks /\ store.lastSeq \in 0..MaxEvents
      BY <1>1 DEF IInv, Folded, Stores
    <2>2. r \in Requests
      BY <2>1 DEF Requests
    <2>3. SeenWhenSent(r)
      BY <2>1, <1>1 DEF SeenWhenSent, Folded, approvalIsCurrent
    <2>4. reqs' = Append(reqs, r) /\ reqs \in Seq(Requests)
      BY <1>1 DEF resolveApproval, IInv, TypeOK
    <2> HIDE DEF r
    <2>5. /\ reqs' \in Seq(Requests) /\ Len(reqs) \in Nat /\ Len(reqs') = Len(reqs) + 1
          /\ \A i \in 1..Len(reqs) : reqs'[i] = reqs[i]
          /\ reqs'[Len(reqs) + 1] = r
      BY <2>2, <2>4, AppendFacts
    <2>6. ASSUME NEW i \in 1..Len(reqs')
          PROVE  \/ i \in 1..Len(reqs) /\ reqs'[i] = reqs[i]
                 \/ SeenWhenSent(reqs'[i])
      <3>1. CASE i \in 1..Len(reqs) BY <3>1, <2>5
      <3>2. CASE i = Len(reqs) + 1 BY <3>2, <2>5, <2>3
      <3>3. QED BY <3>1, <3>2, <2>5
    <2>7. QED BY <2>5, <2>6
  <1>2. CASE ~(t # None /\ approvalIsCurrent(store, t, seq))
    BY <1>2 DEF resolveApproval, IInv, TypeOK
  <1>3. QED BY <1>1, <1>2

\* An answer Core serves in place of another: the ask it resolves came later
\* than the window had got, or could not be read.
LEMMA ServeStep ==
    ASSUME IInv, ServeRequest
    PROVE  IInv'
  <1> DEFINE r == Head(reqs)
  <1>1. reqs # <<>> /\ reqs' = Tail(reqs) /\ UNCHANGED <<viewVars, clicks, answers, resets>>
    BY DEF ServeRequest
  <1>2. /\ r \in Requests /\ reqs' \in Seq(Requests) /\ SeenWhenSent(r)
        /\ Len(reqs) \in Nat \ {0} /\ Len(reqs') = Len(reqs) - 1
        /\ \A i \in 1..Len(reqs') : i + 1 \in 1..Len(reqs) /\ reqs'[i] = reqs[i + 1]
    BY <1>1, TailFacts DEF IInv, TypeOK, RequestsSeen
  <1>3. \A i \in 1..Len(reqs') : reqs'[i] \in Requests /\ SeenWhenSent(reqs'[i])
    BY <1>2 DEF IInv, RequestsSeen
  <1>4. r.task \in Tasks /\ r.seq \in Seqs /\ r.known \in 0..MaxEvents
    BY <1>2 DEF Requests
  <1> HIDE DEF r
  <1>5. CASE pending[r.task] = 0 /\ UNCHANGED <<coreVars, mistaken>>
    <2>1. journal' = journal /\ pending' = pending /\ mistaken' = mistaken
      BY <1>5 DEF coreVars
    <2>2. TypeOK'
      BY <1>1, <1>2, <2>1 DEF IInv, TypeOK, viewVars
    <2>3. Folded(store)'
      BY <1>1, <2>1 DEF IInv, Folded, Says, Seen, viewVars
    <2>4. QED BY <1>3, <1>5, <2>2, <2>3, WindowOnly
  <1>6. CASE /\ Resolve(r.task)
             /\ mistaken' = IF pending[r.task] = r.seq THEN mistaken
                            ELSE mistaken \cup {[ask |-> pending[r.task], req |-> r]}
    <2> DEFINE p == pending[r.task]
    <2>1. PICK kind \in {"working", "ended"} : Emit(r.task, kind, TRUE)
      BY <1>6 DEF Resolve
    <2>2. p # 0 /\ pending' = [pending EXCEPT ![r.task] = 0]
      BY <1>6 DEF Resolve
    <2>3. kind \in Kinds /\ kind \notin AskKinds /\ kind # "waiting" /\ kind # "task_started"
      BY DEF Kinds, AskKinds
    <2>4. /\ JournalType' /\ Folded(store)' /\ PendingIsLastAsk'
          /\ pending' \in [Tasks -> 0..MaxEvents]
          /\ \A q \in Requests : SeenWhenSent(q) => SeenWhenSent(q)'
          /\ \A i \in 1..Len(journal) : i \in 1..Len(journal') /\ journal'[i] = journal[i]
      BY <1>1, <1>4, <2>1, <2>2, <2>3, CoreEmits DEF viewVars
    <2>5. /\ p \in 1..Len(journal) /\ p \in Seqs
          /\ journal[p].task = r.task /\ journal[p].kind \in AskKinds
          /\ \A i \in 1..Len(journal) :
               journal[i].task = r.task /\ journal[i].kind \in AskKinds => i <= p
          /\ Len(journal) \in Nat
      BY <1>4, <2>2, SMTT(30) DEF IInv, TypeOK, PendingIsLastAsk, Seqs
    <2>6. RequestsSeen'
      <3>1. \A i \in 1..Len(reqs') : \E q \in Requests : q = reqs'[i] /\ SeenWhenSent(q)
        BY <1>3
      <3>2. \A i \in 1..Len(reqs') : \E q \in Requests : q = reqs'[i] /\ SeenWhenSent(q)'
        BY <3>1, <2>4
      <3>3. QED BY <3>2 DEF RequestsSeen, SeenWhenSent, Says, Seen
    <2>7. p # r.seq => p > r.known \/ ~journal[p].ok
      <3>1. SUFFICES ASSUME p # r.seq, p <= r.known, journal[p].ok PROVE FALSE
        BY <1>4, <2>5
      <3>2. p \in Says(r.known, r.task, AskKinds)
        BY <1>4, <2>5, <3>1 DEF Says, Seen
      <3>3. r.seq \in Says(r.known, r.task, AskKinds) /\ p <= r.seq
        BY <1>2, <3>2 DEF SeenWhenSent, IsLatest
      <3>4. r.seq <= p
        <4>1. /\ r.seq \in 1..r.known /\ journal[r.seq].task = r.task
              /\ journal[r.seq].kind \in AskKinds
          BY <3>3 DEF Says, Seen
        <4>2. r.known \in Nat /\ r.known <= Len(journal)
          BY <1>2, <1>4 DEF SeenWhenSent
        <4>3. r.seq \in 1..Len(journal)
          BY <4>1, <4>2, <2>5
        <4>4. QED BY <4>1, <4>3, <2>5
      <3>5. QED BY <1>4, <2>5, <3>1, <3>3, <3>4 DEF Seqs
    <2>8. \A m \in mistaken' : m \in mistaken \/ (p # r.seq /\ m = [ask |-> p, req |-> r])
      BY <1>6
    <2> HIDE DEF p
    <2>9. /\ \A m \in mistaken' : m \in [ask : Seqs, req : Requests]
          /\ MistakenInJournal' /\ MistakenOnlyUnseen'
      <3>1. SUFFICES ASSUME NEW m \in mistaken'
                     PROVE  /\ m \in [ask : Seqs, req : Requests]
                            /\ m.ask \in 1..Len(journal')
                            /\ m.ask > m.req.known \/ ~journal'[m.ask].ok
        BY DEF MistakenInJournal, MistakenOnlyUnseen
      <3>2. CASE m \in mistaken
        BY <3>2, <2>4 DEF IInv, TypeOK, MistakenInJournal, MistakenOnlyUnseen
      <3>3. CASE p # r.seq /\ m = [ask |-> p, req |-> r]
        <4>1. m.ask = p /\ m.req = r BY <3>3
        <4>2. m \in [ask : Seqs, req : Requests] BY <3>3, <1>2, <2>5
        <4>3. QED BY <4>1, <4>2, <3>3, <2>4, <2>5, <2>7
      <3>4. QED BY <3>1, <3>2, <3>3, <2>8
    <2>10. TypeOK'
      BY <1>1, <1>2, <2>4, <2>9 DEF IInv, TypeOK, JournalType, viewVars
    <2>11. QED BY <2>4, <2>6, <2>9, <2>10 DEF IInv
  <1>7. QED BY <1>5, <1>6 DEF ServeRequest, r

\* One step of a task in Core, or a pin.
LEMMA TaskStepKeeps ==
    ASSUME IInv, NEW t \in Tasks, TaskStep(t)
    PROVE  IInv'
  <1>0. pending \in [Tasks -> 0..MaxEvents]
    BY DEF IInv, TypeOK
  <1>1. CASE StartTask(t)
    <2>1. "task_started" \in Kinds /\ "task_started" \notin AskKinds
      BY DEF Kinds, AskKinds
    <2>2. pending' = [pending EXCEPT ![t] = pending[t]]
      BY <1>0, <1>1 DEF StartTask
    <2>3. QED BY <1>1, <2>1, <2>2, CoreOnly DEF StartTask
  <1>2. CASE Ask(t)
    <2>1. PICK ok \in {TRUE, ~Undecodable} : Emit(t, "approval_requested", ok)
      BY <1>2 DEF Ask
    <2>2. ok \in BOOLEAN BY ApprovalConstants
    <2>3. "approval_requested" \in Kinds /\ "approval_requested" \in AskKinds
      BY DEF Kinds, AskKinds
    <2>4. pending' = [pending EXCEPT ![t] = Len(journal')]
          /\ UNCHANGED <<viewVars, clicks, reqs, mistaken, answers, resets>>
      BY <1>2 DEF Ask
    <2>5. QED BY <2>1, <2>2, <2>3, <2>4, CoreOnly
  <1>3. CASE Wait(t)
    <2>1. "waiting" \in Kinds /\ "waiting" \notin AskKinds
      BY DEF Kinds, AskKinds
    <2>2. pending' = [pending EXCEPT ![t] = pending[t]]
      BY <1>0, <1>3 DEF Wait
    <2>3. QED BY <1>3, <2>1, <2>2, CoreOnly DEF Wait
  <1>4. CASE OtherClient(t)
    <2>1. PICK kind \in {"working", "ended"} : Emit(t, kind, TRUE)
      BY <1>4 DEF OtherClient, Resolve
    <2>2. kind \in Kinds /\ kind \notin AskKinds /\ kind # "waiting" /\ kind # "task_started"
      BY DEF Kinds, AskKinds
    <2>3. pending' = [pending EXCEPT ![t] = 0]
          /\ UNCHANGED <<viewVars, clicks, reqs, mistaken, answers, resets>>
      BY <1>4 DEF OtherClient, Resolve
    <2>4. QED BY <2>1, <2>2, <2>3, CoreOnly
  <1>5. CASE Pin(t)
    <2>1. /\ pinned' = t /\ card' = modelChatCard(store, t)
          /\ UNCHANGED <<coreVars, store, toasts, lastApprovalSeq, clicks, reqs,
                         mistaken, answers, resets>>
      BY <1>5 DEF Pin
    <2>2. Folded(store) /\ store \in Stores BY DEF IInv, Folded
    <2>3. card' \in Cards \cup {None} BY <2>1, <2>2, FocusIsATask
    <2>4. TypeOK' BY <2>1, <2>3 DEF IInv, TypeOK, coreVars
    <2>5. Folded(store)' BY <2>1, <2>2 DEF Folded, Says, Seen, coreVars
    <2>6. QED BY <2>1, <2>4, <2>5, WindowOnly
  <1>6. QED BY <1>1, <1>2, <1>3, <1>4, <1>5 DEF TaskStep

\* A batch: the card and the toasts name asks the store has by then.
LEMMA IngestStep ==
    ASSUME IInv, IngestBatch
    PROVE  IInv'
  <1>1. UNCHANGED <<coreVars, pinned, clicks, reqs, mistaken, answers, resets>>
        /\ card' = modelChatCard(store', pinned) /\ Notify(store')
    BY DEF IngestBatch
  <1>2. JournalType /\ Folded(store) /\ store.lastSeq \in Nat /\ pinned \in Tasks \cup {None}
    BY ApprovalConstants DEF IInv, TypeOK, JournalType, Folded, Stores
  <1>3. PICK last \in DOMAIN journal, first \in {1, store.lastSeq + 1} :
          first <= last /\ store' = applyBatch(store, first, last)
    BY DEF IngestBatch
  <1>4. first \in 1..(store.lastSeq + 1)
    BY <1>2
  <1>5. Folded(store')
    BY <1>2, <1>3, <1>4, FoldedBatch
  <1>6. store' \in Stores
    BY <1>5 DEF Folded
  <1>7. /\ card' \in Cards \cup {None}
        /\ targetTask(store', pinned) \in Tasks \cup {None}
        /\ \A t \in Tasks : pendingApprovalFor(store', t) \in 0..MaxEvents
    BY <1>1, <1>2, <1>6, FocusIsATask
  <1>8. toasts' \subseteq Cards /\ lastApprovalSeq' \in 0..MaxEvents
    <2> DEFINE t == targetTask(store', pinned)
               seq == IF t = None THEN 0 ELSE pendingApprovalFor(store', t)
    <2>1. toasts \subseteq Cards /\ lastApprovalSeq \in 0..MaxEvents
      BY DEF IInv, TypeOK
    <2>2. \/ /\ seq \notin {0, lastApprovalSeq} /\ lastApprovalSeq' = seq
             /\ toasts' = toasts \cup {[task |-> t, seq |-> seq]}
          \/ UNCHANGED <<lastApprovalSeq, toasts>>
      BY <1>1 DEF Notify
    <2>3. seq # 0 => t \in Tasks /\ seq \in Seqs /\ seq \in 0..MaxEvents
      BY <1>7, ApprovalConstants DEF Seqs
    <2> HIDE DEF t, seq
    <2>4. seq # 0 => [task |-> t, seq |-> seq] \in Cards
      BY <2>3 DEF Cards
    <2>5. QED BY <2>1, <2>2, <2>3, <2>4
  <1>9. TypeOK'
    BY <1>1, <1>6, <1>7, <1>8 DEF IInv, TypeOK, Stores, coreVars
  <1>10. Folded(store)'
    BY <1>1, <1>5 DEF Folded, Says, Seen, coreVars
  <1>11. QED BY <1>1, <1>9, <1>10, WindowOnly

\* A session opened anew: the empty store is that of the empty prefix.
LEMMA ResetStep ==
    ASSUME IInv, Reset
    PROVE  IInv'
  <1>1. /\ store' = emptyStore /\ pinned' = None /\ card' = None /\ resets' = resets + 1
        /\ resets < MaxResets
        /\ UNCHANGED <<coreVars, toasts, lastApprovalSeq, clicks, reqs, mistaken, answers>>
    BY DEF Reset
  <1>2. emptyStore \in Stores
    BY ApprovalConstants DEF emptyStore, Stores, States
  <1>3. TypeOK'
    <2>1. resets' \in 0..MaxResets BY <1>1, ApprovalConstants DEF IInv, TypeOK
    <2>2. QED BY <1>1, <1>2, <2>1 DEF IInv, TypeOK, Stores, coreVars
  <1>4. Folded(store)'
    <2>1. store' \in Stores /\ store'.lastSeq = 0 BY <1>1, <1>2 DEF emptyStore
    <2>2. \A t \in Tasks : store'.approvals[t] = 0 /\ store'.touched[t] = 0
      BY <1>1 DEF emptyStore
    <2>3. \A t, kinds : Seen(0, t)' = {} /\ Says(0, t, kinds)' = {}
      BY DEF Seen, Says
    <2>4. Len(journal') \in Nat BY <1>1 DEF IInv, TypeOK, coreVars
    <2>5. QED BY <2>1, <2>2, <2>3, <2>4 DEF Folded, IsLatest
  <1>5. QED BY <1>1, <1>3, <1>4, WindowOnly

\* A click, and what becomes of it: the task is looked up when it arrives, the
\* ask it names is sent only as that task's newest.
LEMMA AnswerSteps ==
    ASSUME IInv, Click \/ DispatchClick \/ PickToast
    PROVE  IInv'
  <1>0. TypeOK /\ Folded(store) /\ store \in Stores
    BY DEF IInv, Folded
  <1>1. CASE Click
    <2>1. /\ card # None /\ answers < MaxAnswers /\ answers' = answers + 1
          /\ clicks' = Append(clicks, card.seq)
          /\ UNCHANGED <<coreVars, viewVars, reqs, mistaken, resets>>
      BY <1>1 DEF Click, Answer
    <2>2. card.seq \in Seqs /\ clicks \in Seq(Seqs)
      BY <1>0, <2>1 DEF TypeOK, Cards
    <2>3. clicks' \in Seq(Seqs) BY <2>1, <2>2, AppendFacts
    <2>4. answers' \in 0..MaxAnswers BY <1>0, <2>1, ApprovalConstants DEF TypeOK
    <2>5. TypeOK' BY <1>0, <2>1, <2>3, <2>4 DEF TypeOK, coreVars, viewVars
    <2>6. Folded(store)' BY <1>0, <2>1 DEF Folded, Says, Seen, coreVars, viewVars
    <2>7. QED BY <2>1, <2>5, <2>6, WindowOnly
  <1>2. CASE DispatchClick
    <2>1. /\ clicks # <<>> /\ clicks' = Tail(clicks)
          /\ resolveApproval(targetTask(store, pinned), Head(clicks))
          /\ UNCHANGED <<coreVars, viewVars, mistaken, answers, resets>>
      BY <1>2 DEF DispatchClick
    <2>2. Head(clicks) \in Seqs /\ clicks' \in Seq(Seqs)
      BY <1>0, <2>1, TailFacts DEF TypeOK
    <2>3. targetTask(store, pinned) \in Tasks \cup {None}
      BY <1>0, FocusIsATask DEF TypeOK
    <2>4. /\ reqs' \in Seq(Requests)
          /\ \A i \in 1..Len(reqs') : \/ i \in 1..Len(reqs) /\ reqs'[i] = reqs[i]
                                      \/ SeenWhenSent(reqs'[i])
      BY <2>1, <2>2, <2>3, Sends DEF coreVars
    <2>5. TypeOK' BY <1>0, <2>1, <2>2, <2>4 DEF TypeOK, coreVars, viewVars
    <2>6. Folded(store)' BY <1>0, <2>1 DEF Folded, Says, Seen, coreVars, viewVars
    <2>7. QED BY <2>1, <2>4, <2>5, <2>6, WindowOnly
  <1>3. CASE PickToast
    <2>1. PICK n \in toasts :
            /\ answers < MaxAnswers /\ answers' = answers + 1
            /\ toasts' = toasts \ {n} /\ resolveApproval(n.task, n.seq)
            /\ UNCHANGED <<coreVars, store, pinned, card, lastApprovalSeq, clicks,
                           mistaken, resets>>
      BY <1>3 DEF PickToast, Answer
    <2>2. n.task \in Tasks /\ n.seq \in Seqs
      BY <1>0 DEF TypeOK, Cards
    <2>3. /\ reqs' \in Seq(Requests)
          /\ \A i \in 1..Len(reqs') : \/ i \in 1..Len(reqs) /\ reqs'[i] = reqs[i]
                                      \/ SeenWhenSent(reqs'[i])
      BY <2>1, <2>2, Sends DEF coreVars
    <2>4. answers' \in 0..MaxAnswers BY <1>0, <2>1, ApprovalConstants DEF TypeOK
    <2>5. TypeOK' BY <1>0, <2>1, <2>3, <2>4 DEF TypeOK, coreVars
    <2>6. Folded(store)' BY <1>0, <2>1 DEF Folded, Says, Seen, coreVars
    <2>7. QED BY <2>1, <2>3, <2>5, <2>6, WindowOnly
  <1>4. QED BY <1>1, <1>2, <1>3

-----------------------------------------------------------------------------
\* The invariant holds, whatever Core, other clients and the user do.
THEOREM Inductive == Spec => []IInv
  <1>1. IInv /\ [Next]_vars => IInv'
    <2> SUFFICES ASSUME IInv, [Next]_vars PROVE IInv' OBVIOUS
    <2>1. CASE \E t \in Tasks : TaskStep(t) BY <2>1, TaskStepKeeps
    <2>2. CASE ServeRequest BY <2>2, ServeStep
    <2>3. CASE IngestBatch BY <2>3, IngestStep
    <2>4. CASE Reset BY <2>4, ResetStep
    <2>5. CASE Click \/ DispatchClick \/ PickToast BY <2>5, AnswerSteps
    <2>6. CASE UNCHANGED vars
      <3>1. UNCHANGED <<coreVars, viewVars, clicks, reqs, mistaken, answers, resets>>
        BY <2>6 DEF vars, coreVars, viewVars
      <3>2. TypeOK' BY <3>1 DEF IInv, TypeOK, coreVars, viewVars
      <3>3. Folded(store)' BY <3>1 DEF IInv, Folded, Says, Seen, coreVars, viewVars
      <3>4. QED BY <3>1, <3>2, <3>3, WindowOnly
    <2>7. QED BY <2>1, <2>2, <2>3, <2>4, <2>5, <2>6 DEF Next
  <1>2. QED BY InitInv, <1>1, PTL DEF Spec

\* Every variable keeps its type: what the card, the toasts, the clicks and the
\* requests name are events the journal can have.
THEOREM TypeCorrect == Spec => []TypeOK
  <1>1. IInv => TypeOK BY DEF IInv
  <1>2. QED BY <1>1, Inductive, PTL

\* applyBatch under the Store's seq rules: however the journal is cut into
\* batches and repeated, the projection is the one of the prefix it has reached.
THEOREM ProjectionIsOfPrefix == Spec => []ProjectionOfPrefix
  <1>1. IInv => ProjectionOfPrefix
    <2> SUFFICES ASSUME IInv, NEW t \in Tasks
                 PROVE  LET changes == Readable(t, {"waiting", "working", "ended"})
                        IN  /\ store.approvals[t] = Latest(Readable(t, {"approval_requested"}))
                            /\ store.touched[t] = Latest(Applied(t))
                            /\ changes # {} => store.state[t] = journal[Latest(changes)].kind
      BY DEF ProjectionOfPrefix
    <2> DEFINE C == Says(store.lastSeq, t, ChangeKinds)
    <2>1. /\ Applied(t) = Seen(store.lastSeq, t)
          /\ \A kinds : Readable(t, kinds) = Says(store.lastSeq, t, kinds)
      BY DEF Applied, Readable, Seen, Says
    <2>2. /\ IsLatest(store.approvals[t], Says(store.lastSeq, t, AskKinds))
          /\ IsLatest(store.touched[t], Seen(store.lastSeq, t))
          /\ \A i \in C : IsLatest(i, C) => store.state[t] = journal[i].kind
          /\ store.lastSeq \in Nat
      BY ApprovalConstants DEF IInv, Folded, Stores
    <2>3. /\ Seen(store.lastSeq, t) \subseteq Nat \ {0}
          /\ \A kinds : Says(store.lastSeq, t, kinds) \subseteq Nat \ {0}
          /\ C \subseteq 0..store.lastSeq
      BY <2>2 DEF Seen, Says
    <2>4. store.approvals[t] = Latest(Says(store.lastSeq, t, AskKinds))
      BY <2>2, <2>3, LatestIs
    <2>5. store.touched[t] = Latest(Seen(store.lastSeq, t))
      BY <2>2, <2>3, LatestIs
    <2>6. C # {} => store.state[t] = journal[Latest(C)].kind
      <3> SUFFICES ASSUME C # {} PROVE store.state[t] = journal[Latest(C)].kind OBVIOUS
      <3>1. C \subseteq Nat \ {0} BY <2>3
      <3>2. /\ C \subseteq 0..store.lastSeq
            /\ \A i \in C : IsLatest(i, C) => store.state[t] = journal[i].kind
        BY <2>2, <2>3
      <3> HIDE DEF C
      <3>3. PICK n \in C : \A m \in C : m <= n
        BY <3>2, <2>2, Greatest
      <3>4. IsLatest(n, C) BY <3>3 DEF IsLatest
      <3>5. Latest(C) = n BY <3>1, <3>4, LatestIs
      <3>6. QED BY <3>2, <3>4, <3>5
    <2>7. QED BY <2>1, <2>4, <2>5, <2>6 DEF AskKinds, ChangeKinds
  <1>2. QED BY <1>1, Inductive, PTL

\* approvalIsCurrent under the task that is looked up when the click arrives:
\* whatever the focus did meanwhile, an answer is sent to the task that asked.
THEOREM AnswersGoWhereAsked == Spec => []NeverAnotherTask
  <1>1. IInv => NeverAnotherTask
    <2> SUFFICES ASSUME IInv, NEW i \in DOMAIN reqs
                 PROVE  /\ journal[reqs[i].seq].kind = "approval_requested"
                        /\ journal[reqs[i].seq].task = reqs[i].task
      BY DEF NeverAnotherTask
    <2>1. reqs[i] \in Requests /\ SeenWhenSent(reqs[i])
      <3>1. reqs \in Seq(Requests) /\ i \in 1..Len(reqs)
        BY DEF IInv, TypeOK
      <3>2. SeenWhenSent(reqs[i])
        BY <3>1 DEF IInv, RequestsSeen
      <3>3. QED BY <3>1, <3>2
    <2>2. reqs[i].seq \in Says(reqs[i].known, reqs[i].task, AskKinds)
      BY <2>1 DEF SeenWhenSent, IsLatest, Requests, Seqs
    <2>3. QED BY <2>2 DEF Says, Seen, AskKinds
  <1>2. QED BY <1>1, Inductive, PTL

\* The guard of dispatch.ts: an answer Core takes for some other ask was sent
\* before that ask reached the store, or the ask could not be decoded.
THEOREM MistakesAreUnseen == Spec => []MistakenOnlyUnseen
  <1>1. IInv => MistakenOnlyUnseen BY DEF IInv
  <1>2. QED BY <1>1, Inductive, PTL
=============================================================================
