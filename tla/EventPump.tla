----------------------------- MODULE EventPump -----------------------------
(***************************************************************************)
(* The event pump of the bridge (crates/valyria-bridge/src/event_pump.rs): *)
(* pump_loop, collect and reconnect, together with what they talk to.      *)
(*                                                                         *)
(*   Core  --subscription-->  pump task  --bounded channel-->  consumer    *)
(*                                                                         *)
(* Core is external: it keeps a journal of events numbered 1, 2, ... and   *)
(* streams them in order to a subscriber.  It may drop a stream, go down   *)
(* and come back, any number of times up to MaxOutages.  The consumer is   *)
(* the receive side of the host's supervise task.                          *)
(***************************************************************************)
EXTENDS Naturals, Sequences, FiniteSets

CONSTANTS MaxSeq,      \* bound on the journal
          Scopes,      \* the sets of seqs a subscription may carry
          Starts,      \* the cursors (applied_through) a pump may start from
          MaxBatch,    \* MAX_BATCH
          ChanCap,     \* capacity of the mpsc channel
          Attempts,    \* RECONNECT_ATTEMPTS
          MaxOutages   \* bound on the streams Core drops

ASSUME PumpConstants ==
    /\ MaxSeq \in Nat
    /\ Scopes \subseteq SUBSET (1..MaxSeq)
    /\ Starts \subseteq 0..MaxSeq
    /\ MaxBatch \in Nat \ {0}
    /\ ChanCap \in Nat \ {0}
    /\ Attempts \in Nat \ {0}
    /\ MaxOutages \in Nat

VARIABLES journal,         \* Core: seqs 1..journal are committed
          up,              \* Core: accepts a subscription
          outages,         \* Core: streams dropped so far
          scope,           \* the seqs the subscription carries
          start,           \* the applied_through the pump was started with
          streamOpen, pos, \* the stream: alive, and the last seq it yielded
          pc,              \* where pump_loop is
          buf,             \* collect's `events`
          delivered_last,  \* pump_loop's cursor
          attempts,        \* reconnect's failed probes
          chan,            \* the channel
          applied,         \* the consumer's cursor
          received,        \* the seqs the consumer has been handed
          repeated         \* history: those it was handed more than once

coreVars     == <<journal, up, outages>>
streamVars   == <<streamOpen, pos>>
consumerVars == <<applied, received, repeated>>
vars == <<journal, up, outages, scope, start, streamOpen, pos, pc, buf,
          delivered_last, attempts, chan, applied, received, repeated>>

Seqs == 1..MaxSeq
Running == {"connect", "resubscribe", "announce", "collect", "window", "reconnect"}

\* PumpMessage.  `last` is the batch's last_seq, Reconnected's `from` and
\* Closed's `last_seq`: in each case the pump's cursor when it sent it.
Message(kind, last, seqs, gap) ==
    [kind |-> kind, last |-> last, seqs |-> seqs, gap |-> gap]
Messages == [kind : {"batch", "reconnected", "closed"}, last : 0..MaxSeq,
             seqs : SUBSET Seqs, gap : BOOLEAN]

TypeOK ==
    /\ journal \in 0..MaxSeq
    /\ up \in BOOLEAN
    /\ outages \in 0..MaxOutages
    /\ scope \in SUBSET Seqs
    /\ start \in 0..MaxSeq
    /\ streamOpen \in BOOLEAN
    /\ pos \in 0..MaxSeq
    /\ pc \in Running \cup {"closed", "aborted"}
    /\ buf \in SUBSET Seqs
    /\ delivered_last \in 0..MaxSeq
    /\ attempts \in 0..Attempts
    /\ chan \in Seq(Messages)
    /\ applied \in 0..MaxSeq
    /\ received \in SUBSET Seqs
    /\ repeated \in SUBSET Seqs

Init ==
    /\ scope \in Scopes
    /\ start \in Starts
    /\ journal \in start..MaxSeq
    /\ up = TRUE
    /\ outages = 0
    /\ streamOpen = FALSE
    /\ pos = 0
    /\ pc = "connect"
    /\ buf = {}
    /\ delivered_last = start
    /\ attempts = 0
    /\ chan = <<>>
    /\ applied = start
    /\ received = {}
    /\ repeated = {}

(***************************************************************************)
(* Core.                                                                   *)
(***************************************************************************)
CommitEvent ==
    /\ journal < MaxSeq
    /\ journal' = journal + 1
    /\ UNCHANGED <<up, outages, scope, start, streamVars, pc, buf,
                   delivered_last, attempts, chan, consumerVars>>

\* The stream drops: the daemon died (and stays down until it is back), or it
\* only lost this connection.  Events it had not yielded are lost with it.
DropStream ==
    /\ up
    /\ outages < MaxOutages
    /\ outages' = outages + 1
    /\ streamOpen' = FALSE
    /\ up' \in BOOLEAN
    /\ UNCHANGED <<journal, scope, start, pos, pc, buf, delivered_last,
                   attempts, chan, consumerVars>>

ComeBack ==
    /\ ~up
    /\ up' = TRUE
    /\ UNCHANGED <<journal, outages, scope, start, streamVars, pc, buf,
                   delivered_last, attempts, chan, consumerVars>>

\* stream.next(): the subscription's first event after the last one it yielded.
Yields(s) ==
    /\ streamOpen
    /\ s \in scope
    /\ pos < s /\ s <= journal
    /\ \A t \in scope : pos < t => s <= t

(***************************************************************************)
(* pump_loop.                                                              *)
(***************************************************************************)
\* Where Core starts a stream asked for `since`: past it (the cursor is
\* exclusive), or at it, which collect's filter allows for.
ReplayFrom(since) == {p \in 0..since : since <= p + 1}

\* Mutant: a re-subscription skips the backlog and carries live events only.
SubscribeLiveOnly ==
    /\ pc \in {"connect", "resubscribe"}
    /\ streamOpen' = up
    /\ pos' \in IF pc = "connect" THEN ReplayFrom(delivered_last) ELSE ReplayFrom(journal)
    /\ pc' = IF pc = "connect" THEN "collect" ELSE "announce"
    /\ UNCHANGED <<coreVars, scope, start, buf, delivered_last, attempts,
                   chan, consumerVars>>

\* subscribe_for_task(delivered_last).  With Core down the stream it returns
\* ends at once.  The first connection is not announced.
Subscribe ==
    /\ pc \in {"connect", "resubscribe"}
    /\ streamOpen' = up
    /\ pos' \in ReplayFrom(delivered_last)
    /\ pc' = IF pc = "connect" THEN "collect" ELSE "announce"
    /\ UNCHANGED <<coreVars, scope, start, buf, delivered_last, attempts,
                   chan, consumerVars>>

\* tx.send blocks while the channel is full.
Send(m) ==
    /\ Len(chan) < ChanCap
    /\ chan' = Append(chan, m)

Announce ==
    /\ pc = "announce"
    /\ Send(Message("reconnected", delivered_last, {}, FALSE))
    /\ pc' = "collect"
    /\ UNCHANGED <<coreVars, scope, start, streamVars, buf, delivered_last,
                   attempts, consumerVars>>

(***************************************************************************)
(* collect: one awaited event opens the window, more join it until the     *)
(* deadline, MAX_BATCH or the end of the stream.                           *)
(***************************************************************************)
PullFirst ==
    /\ pc = "collect"
    /\ \E s \in Seqs :
         /\ Yields(s)
         /\ pos' = s
         /\ buf' = {s}
    /\ pc' = "window"
    /\ UNCHANGED <<coreVars, scope, start, streamOpen, delivered_last,
                   attempts, chan, consumerVars>>

PullMore ==
    /\ pc = "window"
    /\ Cardinality(buf) < MaxBatch
    /\ \E s \in Seqs :
         /\ Yields(s)
         /\ pos' = s
         /\ buf' = buf \cup {s}
    /\ UNCHANGED <<coreVars, scope, start, streamOpen, pc, delivered_last,
                   attempts, chan, consumerVars>>

\* Mutant: no filter on what an inclusive replay repeats.
KeepAll(events, min_wanted) == events

\* retain(seq >= min_wanted), sorted and without duplicates: a set.
Retain(events, min_wanted) == {s \in events : min_wanted <= s}

\* collect returns Idle: nothing in the window was new.
CloseWindowIdle ==
    /\ pc = "window"
    /\ Retain(buf, delivered_last + 1) = {}
    /\ buf' = {}
    /\ pc' = "collect"
    /\ UNCHANGED <<coreVars, scope, start, streamVars, delivered_last,
                   attempts, chan, consumerVars>>

\* Mutant: the batch is sent but the cursor stays.
CloseWindowCursorKept ==
    /\ pc = "window"
    /\ LET kept == Retain(buf, delivered_last + 1)
       IN \E last_seq \in kept :
            /\ \A s \in kept : s <= last_seq
            /\ Send(Message("batch", last_seq, kept, delivered_last + 1 \notin kept))
    /\ buf' = {}
    /\ pc' = "collect"
    /\ UNCHANGED <<coreVars, scope, start, streamVars, delivered_last, attempts,
                   consumerVars>>

\* collect returns Events: pump_loop moves its cursor and sends the batch.
\* first_seq differs from delivered_last + 1 exactly when that seq is not in
\* the batch.
CloseWindow ==
    /\ pc = "window"
    /\ LET kept == Retain(buf, delivered_last + 1)
       IN \E last_seq \in kept :
            /\ \A s \in kept : s <= last_seq
            /\ Send(Message("batch", last_seq, kept, delivered_last + 1 \notin kept))
            /\ delivered_last' = last_seq
    /\ buf' = {}
    /\ pc' = "collect"
    /\ UNCHANGED <<coreVars, scope, start, streamVars, attempts, consumerVars>>

(***************************************************************************)
(* reconnect.                                                              *)
(***************************************************************************)
StreamEnded ==
    /\ pc = "collect"
    /\ ~streamOpen
    /\ pc' = "reconnect"
    /\ attempts' = 0
    /\ UNCHANGED <<coreVars, scope, start, streamVars, buf, delivered_last,
                   chan, consumerVars>>

\* Mutant: a failed probe is not counted, so the pump never gives up.
ProbeUncounted ==
    /\ pc = "reconnect"
    /\ attempts < Attempts
    /\ IF up THEN pc' = "resubscribe" ELSE UNCHANGED pc
    /\ UNCHANGED <<coreVars, scope, start, streamVars, buf, attempts, delivered_last,
                   chan, consumerVars>>

\* Mutant: one probe too many.
ProbeOnceMore ==
    /\ pc = "reconnect"
    /\ attempts <= Attempts
    /\ IF up THEN pc' = "resubscribe" /\ UNCHANGED attempts
             ELSE UNCHANGED pc /\ attempts' = attempts + 1
    /\ UNCHANGED <<coreVars, scope, start, streamVars, buf, delivered_last,
                   chan, consumerVars>>

\* One probe subscription: it yields or stays quiet (Core is back), or it is
\* closed again.
Probe ==
    /\ pc = "reconnect"
    /\ attempts < Attempts
    /\ \/ /\ up
          /\ pc' = "resubscribe"
          /\ UNCHANGED attempts
       \/ /\ ~up
          /\ attempts' = attempts + 1
          /\ UNCHANGED pc
    /\ UNCHANGED <<coreVars, scope, start, streamVars, buf, delivered_last,
                   chan, consumerVars>>

\* Mutant: the closing message names the journal's end, not the pump's cursor.
GiveUpAtJournal ==
    /\ pc = "reconnect"
    /\ attempts = Attempts
    /\ Send(Message("closed", journal, {}, FALSE))
    /\ pc' = "closed"
    /\ UNCHANGED <<coreVars, scope, start, streamVars, buf, delivered_last,
                   attempts, consumerVars>>

\* Every attempt failed: tell the owner where the stream stopped, and end.
GiveUp ==
    /\ pc = "reconnect"
    /\ attempts = Attempts
    /\ Send(Message("closed", delivered_last, {}, FALSE))
    /\ pc' = "closed"
    /\ UNCHANGED <<coreVars, scope, start, streamVars, buf, delivered_last,
                   attempts, consumerVars>>

(***************************************************************************)
(* The owner.                                                              *)
(***************************************************************************)
Larger(a, b) == IF a < b THEN b ELSE a

\* supervise's recv: a batch and a Closed raise its last_seq, a Reconnected
\* does not touch it.
Recv ==
    /\ chan # <<>>
    /\ LET m == Head(chan)
       IN /\ applied' = IF m.kind = "reconnected" THEN applied
                                                   ELSE Larger(applied, m.last)
          /\ received' = received \cup m.seqs
          /\ repeated' = repeated \cup (received \cap m.seqs)
    /\ chan' = Tail(chan)
    /\ UNCHANGED <<coreVars, scope, start, streamVars, pc, buf,
                   delivered_last, attempts>>

\* Dropping the pump aborts its task; what is in the channel goes with it.
Abort ==
    /\ pc # "aborted"
    /\ pc' = "aborted"
    /\ chan' = <<>>
    /\ UNCHANGED <<coreVars, scope, start, streamVars, buf, delivered_last,
                   attempts, consumerVars>>

PumpStep ==
    \/ Subscribe
    \/ Announce
    \/ PullFirst
    \/ PullMore
    \/ CloseWindowIdle
    \/ CloseWindow
    \/ StreamEnded
    \/ Probe
    \/ GiveUp

Next ==
    \/ CommitEvent
    \/ DropStream
    \/ ComeBack
    \/ PumpStep
    \/ Recv
    \/ Abort

Spec == Init /\ [][Next]_vars

\* tokio keeps polling the pump task and the consumer keeps receiving.  Core
\* owes nothing: it need not commit, and need not come back.
FairSpec == Spec /\ WF_vars(PumpStep) /\ WF_vars(Recv)

(***************************************************************************)
(* Correctness.                                                            *)
(***************************************************************************)
\* The events of the subscription past lo, up to hi.
Between(lo, hi) == {s \in scope : lo < s /\ s <= hi}

\* The cursor the consumer will have when it has taken the first i messages.
CursorAfter(i) == IF i = 0 THEN applied ELSE chan[i].last

\* The consumer's cursor tells the truth: it has been handed exactly the events
\* between where it started and where it stands, and each message still in the
\* channel continues where the one before it stops.  Overlapping replays,
\* dropped streams and reconnects lose nothing (pump_loop's delivered_last),
\* and nothing is handed over twice.
DeliveredExactly ==
    /\ received = Between(start, applied)
    /\ repeated = {}
    /\ \A i \in 1..Len(chan) :
         /\ CursorAfter(i - 1) <= chan[i].last
         /\ chan[i].seqs = Between(CursorAfter(i - 1), chan[i].last)

\* A consumer of the whole stream is never told of a hole: whatever Core
\* dropped, gap_before stays false (the claim tests/soak.rs makes of a quiet
\* Core, here with outages at every point).
FullStreamHasNoGap ==
    scope = Seqs => \A i \in 1..Len(chan) : ~chan[i].gap

\* Closed is the pump's last word and carries the cursor its owner holds when
\* it reads it, so a restart from the owner's last_seq resumes in place.
ClosedCursorExact ==
    \A i \in 1..Len(chan) :
        chan[i].kind = "closed" => /\ i = Len(chan)
                                   /\ chan[i].last = CursorAfter(i - 1)

\* Every committed event of the subscription reaches the consumer, unless the
\* pump has told its owner that Core is gone, or the owner dropped it.
EventuallyDelivered ==
    \A s \in Seqs :
        (s \in scope /\ start < s /\ s <= journal)
            ~> (s \in received \/ pc \in {"closed", "aborted"})

\* The pump keeps OrderedDelivery's promise.
OD == INSTANCE OrderedDelivery
        WITH MaxSeq <- MaxSeq, Scopes <- Scopes, Starts <- Starts,
             journal <- journal, scope <- scope, applied <- applied,
             received <- received, repeated <- repeated
ImplementsOrderedDelivery == OD!ODSpec
=============================================================================
