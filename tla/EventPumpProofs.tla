-------------------------- MODULE EventPumpProofs --------------------------
(***************************************************************************)
(* EventPump's invariants and its refinement of OrderedDelivery, for every *)
(* journal length, subscription, batch size, channel capacity and number   *)
(* of outages.                                                             *)
(***************************************************************************)
EXTENDS EventPump, SequenceLemmas

\* What the pump's position in the stream says about its cursor: between two
\* batches everything the stream has yielded is behind the cursor, and inside a
\* window the buffer's new events are all those up to the stream's position.
StreamInv ==
    /\ pos <= journal
    /\ pc \in {"announce", "collect"} /\ streamOpen => pos <= delivered_last
    /\ pc = "window" => /\ pos \in buf
                        /\ Retain(buf, delivered_last + 1)
                               = Between(delivered_last, pos)

\* The pump's cursor is the consumer's plus what is under way in the channel.
CursorInv ==
    /\ start <= applied
    /\ delivered_last <= journal
    /\ pc # "aborted" => CursorAfter(Len(chan)) = delivered_last

MessageInv ==
    \A i \in 1..Len(chan) :
        /\ chan[i].last <= journal
        /\ chan[i].kind = "batch" => chan[i].last \in chan[i].seqs
        /\ chan[i].kind # "batch" => chan[i].last = CursorAfter(i - 1)
        /\ chan[i].kind = "closed" => pc = "closed" /\ i = Len(chan)

IInv ==
    /\ TypeOK
    /\ StreamInv
    /\ CursorInv
    /\ MessageInv
    /\ DeliveredExactly
    /\ FullStreamHasNoGap

-----------------------------------------------------------------------------
\* Every variable keeps its type: in particular a batch carries only seqs of the
\* journal and the failed probes never exceed RECONNECT_ATTEMPTS.
LEMMA TypeStep == TypeOK /\ [Next]_vars => TypeOK'
  <1> SUFFICES ASSUME TypeOK, [Next]_vars PROVE TypeOK'
    OBVIOUS
  <1> USE PumpConstants DEF TypeOK, coreVars, streamVars, consumerVars, Seqs, Running
  <1>1. CASE CommitEvent BY <1>1 DEF CommitEvent
  <1>2. CASE DropStream
    <2>1. outages' \in 0..MaxOutages BY <1>2, SMT DEF DropStream
    <2>2. up' \in BOOLEAN /\ streamOpen' \in BOOLEAN BY <1>2, Zenon DEF DropStream
    <2>3. UNCHANGED <<journal, scope, start, pos, pc, buf, delivered_last,
                      attempts, chan, applied, received, repeated>>
      BY <1>2 DEF DropStream
    <2>4. QED BY <2>1, <2>2, <2>3, Zenon
  <1>3. CASE ComeBack BY <1>3 DEF ComeBack
  <1>4. CASE Subscribe BY <1>4 DEF Subscribe, ReplayFrom
  <1>5. CASE Announce BY <1>5 DEF Announce, Send, Message, Messages
  <1>6. CASE PullFirst BY <1>6 DEF PullFirst, Yields
  <1>7. CASE PullMore BY <1>7 DEF PullMore, Yields
  <1>8. CASE CloseWindowIdle BY <1>8 DEF CloseWindowIdle
  <1>9. CASE CloseWindow
    <2> DEFINE kept == Retain(buf, delivered_last + 1)
    <2>1. PICK last_seq \in kept :
             /\ Send(Message("batch", last_seq, kept, delivered_last + 1 \notin kept))
             /\ delivered_last' = last_seq
      BY <1>9 DEF CloseWindow
    <2>2. kept \in SUBSET Seqs
      BY DEF Retain
    <2>3. Message("batch", last_seq, kept, delivered_last + 1 \notin kept) \in Messages
      <3> DEFINE gap == delivered_last + 1 \notin kept
      <3>1. gap \in BOOLEAN OBVIOUS
      <3>2. last_seq \in 0..MaxSeq BY <2>2
      <3> HIDE DEF gap, kept
      <3>3. QED BY <2>2, <3>1, <3>2 DEF Message, Messages, gap
    <2>4. chan' \in Seq(Messages)
      BY <2>1, <2>3 DEF Send
    <2>5. QED BY <1>9, <2>1, <2>2, <2>4 DEF CloseWindow
  <1>10. CASE StreamEnded BY <1>10 DEF StreamEnded
  <1>11. CASE Probe BY <1>11 DEF Probe
  <1>12. CASE GiveUp BY <1>12 DEF GiveUp, Send, Message, Messages
  <1>13. CASE Recv
    <2>1. Head(chan) \in Messages /\ Tail(chan) \in Seq(Messages)
      BY <1>13 DEF Recv
    <2>2. QED BY <1>13, <2>1 DEF Recv, Messages, Larger
  <1>14. CASE Abort BY <1>14 DEF Abort
  <1>15. CASE UNCHANGED vars BY <1>15 DEF vars
  <1>16. QED
    BY <1>1, <1>2, <1>3, <1>4, <1>5, <1>6, <1>7, <1>8, <1>9, <1>10, <1>11,
       <1>12, <1>13, <1>14, <1>15 DEF Next, PumpStep

\* A pump as start_scoped leaves it is well typed.
LEMMA TypeInit == Init => TypeOK
  <1> SUFFICES ASSUME Init PROVE TypeOK
    OBVIOUS
  <1>1. start \in 0..MaxSeq /\ scope \in SUBSET Seqs
    BY PumpConstants DEF Init, Seqs
  <1>2. journal \in 0..MaxSeq
    BY <1>1, PumpConstants DEF Init
  <1>3. up \in BOOLEAN /\ streamOpen \in BOOLEAN
    BY DEF Init
  <1>4. outages \in 0..MaxOutages /\ attempts \in 0..Attempts /\ pos \in 0..MaxSeq
    BY PumpConstants DEF Init
  <1>5. chan \in Seq(Messages)
    BY DEF Init
  <1>6. QED
    BY <1>1, <1>2, <1>3, <1>4, <1>5, Zenon DEF Init, TypeOK, Running

\* Every variable of the pump keeps its type through every run of pump_loop,
\* whatever the journal, the batch limit, the channel and the attempts allowed.
THEOREM TypeCorrect == Spec => []TypeOK
  <1>1. QED BY TypeInit, TypeStep, PTL DEF Spec

-----------------------------------------------------------------------------
\* Seqs are numbers, and nothing lies between a cursor and itself.
LEMMA SeqFacts ==
    ASSUME TypeOK
    PROVE  /\ \A s \in Seqs : s \in Nat /\ 1 <= s
           /\ scope \subseteq Seqs /\ buf \subseteq Seqs
           /\ journal \in Nat /\ pos \in Nat /\ delivered_last \in Nat
           /\ start \in Nat /\ applied \in Nat
           /\ \A m \in Messages : m.last \in Nat
           /\ \A n \in Nat : Between(n, n) = {}
  <1>1. \A s \in Seqs : s \in Nat /\ 1 <= s
    BY PumpConstants DEF Seqs
  <1>2. scope \subseteq Seqs /\ buf \subseteq Seqs
    BY DEF TypeOK
  <1>3. /\ journal \in Nat /\ pos \in Nat /\ delivered_last \in Nat
        /\ start \in Nat /\ applied \in Nat
    BY PumpConstants DEF TypeOK
  <1>4. \A m \in Messages : m.last \in Nat
    BY PumpConstants DEF Messages
  <1>5. \A n \in Nat : Between(n, n) = {}
    BY <1>1, <1>2 DEF Between
  <1>6. QED BY <1>1, <1>2, <1>3, <1>4, <1>5

\* The inductive invariant holds of a pump that has just been started.
LEMMA InvInit == Init => IInv
  <1> SUFFICES ASSUME Init PROVE IInv
    OBVIOUS
  <1> USE PumpConstants DEF Init
  <1>1. TypeOK BY TypeInit
  <1>2. Len(chan) = 0 OBVIOUS
  <1>3. StreamInv BY <1>1 DEF StreamInv, TypeOK
  <1>4. CursorInv BY <1>1, <1>2 DEF CursorInv, CursorAfter, TypeOK
  <1>5. MessageInv BY <1>2 DEF MessageInv
  <1>6. DeliveredExactly
    <2>1. Between(start, start) = {} BY <1>1, SeqFacts
    <2>2. QED BY <1>2, <2>1 DEF DeliveredExactly
  <1>7. FullStreamHasNoGap BY <1>2 DEF FullStreamHasNoGap
  <1>8. QED BY <1>1, <1>3, <1>4, <1>5, <1>6, <1>7 DEF IInv

\* The conjuncts about the channel and the consumer hold as long as neither is
\* touched, the journal does not shrink and a closed pump stays closed.
LEMMA ChannelKept ==
    ASSUME TypeOK, TypeOK', MessageInv, DeliveredExactly, FullStreamHasNoGap,
           UNCHANGED <<scope, start, chan, applied, received, repeated>>,
           journal <= journal',
           pc = "closed" => pc' = "closed" \/ chan' = <<>>
    PROVE  MessageInv' /\ DeliveredExactly' /\ FullStreamHasNoGap'
  <1>1. ASSUME NEW i \in 1..Len(chan)
        PROVE  /\ chan[i].last <= journal'
               /\ chan[i].kind = "closed" => pc' = "closed"
    <2>1. chan[i] \in Messages /\ chan # <<>>
      BY SMTT(30) DEF TypeOK
    <2>2. chan[i].last <= journal /\ (chan[i].kind = "closed" => pc = "closed")
      BY DEF MessageInv
    <2>3. chan[i].last \in Nat /\ journal \in Nat /\ journal' \in Nat
      <3>1. chan[i].last \in 0..MaxSeq BY <2>1, Zenon DEF Messages
      <3>2. journal \in 0..MaxSeq /\ journal' \in 0..MaxSeq BY Zenon DEF TypeOK
      <3>3. QED BY <3>1, <3>2
    <2>4. QED BY <2>1, <2>2, <2>3
  <1>2. MessageInv'
    BY <1>1 DEF MessageInv, CursorAfter
  <1>3. DeliveredExactly'
    BY DEF DeliveredExactly, CursorAfter, Between
  <1>4. FullStreamHasNoGap'
    BY DEF FullStreamHasNoGap
  <1>5. QED BY <1>2, <1>3, <1>4

\* Sending a message that continues the chain keeps those conjuncts.
LEMMA ChannelSent ==
    ASSUME TypeOK, TypeOK', CursorInv, MessageInv, DeliveredExactly,
           FullStreamHasNoGap, pc # "aborted", pc # "closed",
           UNCHANGED <<journal, scope, start, applied, received, repeated>>,
           NEW m \in Messages,
           chan' = Append(chan, m),
           delivered_last <= m.last, m.last <= journal,
           m.seqs = Between(delivered_last, m.last),
           m.kind = "batch" => m.last \in m.seqs,
           m.kind # "batch" => m.last = delivered_last,
           m.kind = "closed" => pc' = "closed",
           scope = Seqs => ~m.gap
    PROVE  /\ MessageInv' /\ DeliveredExactly' /\ FullStreamHasNoGap'
           /\ CursorAfter(Len(chan))' = m.last
  <1>1. /\ Len(chan) \in Nat
        /\ Len(chan') = Len(chan) + 1
        /\ \A i \in 1..Len(chan) : chan'[i] = chan[i] /\ chan[i] \in Messages
        /\ chan'[Len(chan) + 1] = m
    BY AppendFacts, SMTT(30) DEF TypeOK
  <1>2. CursorAfter(Len(chan)) = delivered_last
    BY DEF CursorInv
  <1>3. \A i \in 0..Len(chan) : CursorAfter(i)' = CursorAfter(i)
    BY <1>1 DEF CursorAfter
  <1>4. \A i \in 1..Len(chan') : i \in 1..Len(chan) \/ i = Len(chan) + 1
    BY <1>1
  <1>5. MessageInv'
    BY <1>1, <1>2, <1>3, <1>4 DEF MessageInv
  <1>6. DeliveredExactly'
    BY <1>1, <1>2, <1>3, <1>4 DEF DeliveredExactly, Between
  <1>7. FullStreamHasNoGap'
    BY <1>1, <1>4 DEF FullStreamHasNoGap
  <1>8. CursorAfter(Len(chan))' = m.last
    BY <1>1 DEF CursorAfter
  <1>9. QED BY <1>5, <1>6, <1>7, <1>8

-----------------------------------------------------------------------------
\* No step breaks the inductive invariant.
LEMMA InvStep == IInv /\ [Next]_vars => IInv'
  <1> SUFFICES ASSUME IInv, [Next]_vars PROVE IInv'
    OBVIOUS
  <1> USE DEF coreVars, streamVars, consumerVars
  <1>0. TypeOK'
    BY TypeStep DEF IInv
  <1>a. /\ TypeOK /\ StreamInv /\ CursorInv
        /\ MessageInv /\ DeliveredExactly /\ FullStreamHasNoGap
    BY DEF IInv
  <1>1. CASE CommitEvent
    <2>1. journal' = journal + 1 /\ journal \in Nat
      BY <1>1, <1>a DEF CommitEvent, TypeOK
    <2>2. StreamInv'
      BY <1>1, <1>a, <1>0, <2>1 DEF CommitEvent, StreamInv, Retain, Between, TypeOK
    <2>3. CursorInv'
      BY <1>1, <1>a, <2>1 DEF CommitEvent, CursorInv, CursorAfter, TypeOK
    <2>4. MessageInv' /\ DeliveredExactly' /\ FullStreamHasNoGap'
      BY <1>0, <1>1, <1>a, <2>1, ChannelKept DEF CommitEvent, TypeOK
    <2>5. QED BY <1>0, <2>2, <2>3, <2>4 DEF IInv
  <1>2. CASE DropStream
    <2>1. StreamInv'
      BY <1>2, <1>a DEF DropStream, StreamInv, Retain, Between
    <2>2. CursorInv'
      BY <1>2, <1>a DEF DropStream, CursorInv, CursorAfter
    <2>3. MessageInv' /\ DeliveredExactly' /\ FullStreamHasNoGap'
      BY <1>0, <1>2, <1>a, ChannelKept DEF DropStream, TypeOK
    <2>4. QED BY <1>0, <2>1, <2>2, <2>3 DEF IInv
  <1>3. CASE ComeBack
    <2>1. StreamInv'
      BY <1>3, <1>a DEF ComeBack, StreamInv, Retain, Between
    <2>2. CursorInv'
      BY <1>3, <1>a DEF ComeBack, CursorInv, CursorAfter
    <2>3. MessageInv' /\ DeliveredExactly' /\ FullStreamHasNoGap'
      BY <1>0, <1>3, <1>a, ChannelKept DEF ComeBack, TypeOK
    <2>4. QED BY <1>0, <2>1, <2>2, <2>3 DEF IInv
  <1>4. CASE Subscribe
    <2>1. pos' <= delivered_last /\ pos' <= journal
      BY <1>4, <1>a DEF Subscribe, ReplayFrom, CursorInv, TypeOK
    <2>2. StreamInv'
      BY <1>4, <1>a, <2>1 DEF Subscribe, StreamInv
    <2>3. CursorInv'
      BY <1>4, <1>a DEF Subscribe, CursorInv, CursorAfter
    <2>4. MessageInv' /\ DeliveredExactly' /\ FullStreamHasNoGap'
      BY <1>0, <1>4, <1>a, ChannelKept DEF Subscribe, TypeOK
    <2>5. QED BY <1>0, <2>2, <2>3, <2>4 DEF IInv
  <1>5. CASE Announce
    <2> DEFINE m == Message("reconnected", delivered_last, {}, FALSE)
    <2>1. m \in Messages /\ m.last = delivered_last /\ m.seqs = {} /\ ~m.gap
          /\ m.kind = "reconnected"
      BY <1>a DEF Message, Messages, TypeOK
    <2>2. {} = Between(delivered_last, delivered_last)
      BY <1>a, SeqFacts
    <2>3. chan' = Append(chan, m) /\ pc = "announce"
          /\ UNCHANGED <<journal, scope, start, applied, received, repeated>>
      BY <1>5 DEF Announce, Send
    <2>4. delivered_last <= delivered_last /\ delivered_last <= journal
      BY <1>a DEF TypeOK, CursorInv
    <2> HIDE DEF m
    <2>5. /\ MessageInv' /\ DeliveredExactly' /\ FullStreamHasNoGap'
          /\ CursorAfter(Len(chan))' = delivered_last
      BY <1>0, <1>a, <2>1, <2>2, <2>3, <2>4, ChannelSent
    <2>6. StreamInv'
      BY <1>5, <1>a DEF Announce, StreamInv
    <2>7. CursorInv'
      BY <1>5, <1>a, <2>5 DEF Announce, CursorInv
    <2>8. QED BY <1>0, <2>5, <2>6, <2>7 DEF IInv
  <1>6. CASE PullFirst
    <2>1. PICK s \in Seqs : Yields(s) /\ pos' = s /\ buf' = {s}
      BY <1>6 DEF PullFirst
    <2>2. pos <= delivered_last
      BY <1>6, <1>a, <2>1 DEF PullFirst, StreamInv, Yields
    <2>3. Retain({s}, delivered_last + 1) = Between(delivered_last, s)
      BY <1>a, <2>1, <2>2, SeqFacts DEF Retain, Between, Yields
    <2>4. StreamInv'
      BY <1>6, <2>1, <2>3 DEF PullFirst, StreamInv, Yields, Retain, Between
    <2>5. CursorInv'
      BY <1>6, <1>a DEF PullFirst, CursorInv, CursorAfter
    <2>6. MessageInv' /\ DeliveredExactly' /\ FullStreamHasNoGap'
      BY <1>0, <1>6, <1>a, ChannelKept DEF PullFirst, TypeOK
    <2>7. QED BY <1>0, <2>4, <2>5, <2>6 DEF IInv
  <1>7. CASE PullMore
    <2>1. PICK s \in Seqs : Yields(s) /\ pos' = s /\ buf' = buf \cup {s}
      BY <1>7 DEF PullMore
    <2>2. Retain(buf, delivered_last + 1) = Between(delivered_last, pos)
      BY <1>7, <1>a DEF PullMore, StreamInv
    <2>3. Retain(buf \cup {s}, delivered_last + 1) = Between(delivered_last, s)
      BY <1>a, <2>1, <2>2, SeqFacts DEF Retain, Between, Yields
    <2>4. StreamInv'
      BY <1>7, <2>1, <2>3 DEF PullMore, StreamInv, Yields, Retain, Between
    <2>5. CursorInv'
      BY <1>7, <1>a DEF PullMore, CursorInv, CursorAfter
    <2>6. MessageInv' /\ DeliveredExactly' /\ FullStreamHasNoGap'
      BY <1>0, <1>7, <1>a, ChannelKept, SMTT(30) DEF PullMore, TypeOK
    <2>7. QED BY <1>0, <2>4, <2>5, <2>6 DEF IInv
  <1>8. CASE CloseWindowIdle
    <2>1. pos \in buf /\ pos \in Nat /\ delivered_last \in Nat
      BY <1>8, <1>a DEF CloseWindowIdle, StreamInv, TypeOK
    <2>2. pos <= delivered_last
      BY <1>8, <2>1 DEF CloseWindowIdle, Retain
    <2>3. StreamInv'
      BY <1>8, <1>a, <2>2 DEF CloseWindowIdle, StreamInv
    <2>4. CursorInv'
      BY <1>8, <1>a DEF CloseWindowIdle, CursorInv, CursorAfter
    <2>5. MessageInv' /\ DeliveredExactly' /\ FullStreamHasNoGap'
      BY <1>0, <1>8, <1>a, ChannelKept DEF CloseWindowIdle, TypeOK
    <2>6. QED BY <1>0, <2>3, <2>4, <2>5 DEF IInv
  <1>9. CASE CloseWindow
    <2> DEFINE kept == Retain(buf, delivered_last + 1)
               gap  == delivered_last + 1 \notin kept
    <2>1. PICK last_seq \in kept :
             /\ \A s \in kept : s <= last_seq
             /\ Send(Message("batch", last_seq, kept, gap))
             /\ delivered_last' = last_seq
      BY <1>9 DEF CloseWindow
    <2>2. /\ pos \in buf /\ kept = Between(delivered_last, pos)
          /\ pos \in Nat /\ pos <= journal /\ delivered_last \in Nat
      BY <1>9, <1>a DEF CloseWindow, StreamInv, TypeOK
    <2>3. /\ kept \in SUBSET Seqs /\ last_seq \in 0..MaxSeq
          /\ delivered_last < last_seq /\ last_seq <= pos
      BY <1>a, <2>2, SeqFacts, PumpConstants DEF Between, Seqs
    <2>4. pos <= last_seq /\ last_seq <= journal
      <3>1. CASE pos <= delivered_last BY <2>2, <2>3, <3>1, <1>a DEF TypeOK
      <3>2. CASE ~(pos <= delivered_last)
        <4>1. pos \in kept BY <2>2, <3>2 DEF Retain
        <4>2. QED BY <2>1, <2>2, <2>3, <4>1, <1>a DEF TypeOK
      <3>3. QED BY <3>1, <3>2
    <2>5. kept = Between(delivered_last, last_seq)
      BY <2>2, <2>3, <2>4 DEF Between
    <2>6. scope = Seqs => ~gap
      BY <2>3, <2>5, <2>2, PumpConstants DEF Between, Seqs
    <2>7. gap \in BOOLEAN OBVIOUS
    <2> DEFINE m == Message("batch", last_seq, kept, gap)
    <2> HIDE DEF kept, gap
    <2>8. m \in Messages /\ m.last = last_seq /\ m.seqs = kept /\ m.gap = gap
          /\ m.kind = "batch"
      BY <2>3, <2>7 DEF Message, Messages
    <2>9. chan' = Append(chan, m) /\ pc = "window"
          /\ UNCHANGED <<journal, scope, start, applied, received, repeated>>
      BY <1>9, <2>1 DEF CloseWindow, Send
    <2>10. delivered_last <= last_seq
      BY <2>2, <2>3
    <2> HIDE DEF m
    <2>11. /\ MessageInv' /\ DeliveredExactly' /\ FullStreamHasNoGap'
           /\ CursorAfter(Len(chan))' = last_seq
      BY <1>0, <1>a, <2>1, <2>4, <2>5, <2>6, <2>8, <2>9, <2>10, ChannelSent
    <2>12. StreamInv'
      BY <1>9, <1>a, <2>1, <2>4 DEF CloseWindow, StreamInv
    <2>13. CursorInv'
      BY <1>9, <1>a, <2>1, <2>4, <2>11 DEF CloseWindow, CursorInv
    <2>14. QED BY <1>0, <2>11, <2>12, <2>13 DEF IInv
  <1>10. CASE StreamEnded
    <2>1. StreamInv'
      BY <1>10, <1>a DEF StreamEnded, StreamInv
    <2>2. CursorInv'
      BY <1>10, <1>a DEF StreamEnded, CursorInv, CursorAfter
    <2>3. MessageInv' /\ DeliveredExactly' /\ FullStreamHasNoGap'
      BY <1>0, <1>10, <1>a, ChannelKept DEF StreamEnded, TypeOK
    <2>4. QED BY <1>0, <2>1, <2>2, <2>3 DEF IInv
  <1>11. CASE Probe
    <2>1. StreamInv'
      BY <1>11, <1>a DEF Probe, StreamInv
    <2>2. CursorInv'
      BY <1>11, <1>a DEF Probe, CursorInv, CursorAfter
    <2>3. MessageInv' /\ DeliveredExactly' /\ FullStreamHasNoGap'
      BY <1>0, <1>11, <1>a, ChannelKept DEF Probe, TypeOK
    <2>4. QED BY <1>0, <2>1, <2>2, <2>3 DEF IInv
  <1>12. CASE GiveUp
    <2> DEFINE m == Message("closed", delivered_last, {}, FALSE)
    <2>1. m \in Messages /\ m.last = delivered_last /\ m.seqs = {} /\ ~m.gap
          /\ m.kind = "closed"
      BY <1>a DEF Message, Messages, TypeOK
    <2>2. {} = Between(delivered_last, delivered_last)
      BY <1>a, SeqFacts
    <2>3. chan' = Append(chan, m) /\ pc = "reconnect" /\ pc' = "closed"
          /\ UNCHANGED <<journal, scope, start, applied, received, repeated>>
      BY <1>12 DEF GiveUp, Send
    <2>4. delivered_last <= delivered_last /\ delivered_last <= journal
      BY <1>a DEF TypeOK, CursorInv
    <2> HIDE DEF m
    <2>5. /\ MessageInv' /\ DeliveredExactly' /\ FullStreamHasNoGap'
          /\ CursorAfter(Len(chan))' = delivered_last
      BY <1>0, <1>a, <2>1, <2>2, <2>3, <2>4, ChannelSent
    <2>6. StreamInv'
      BY <1>12, <1>a DEF GiveUp, StreamInv
    <2>7. CursorInv'
      BY <1>12, <1>a, <2>5 DEF GiveUp, CursorInv
    <2>8. QED BY <1>0, <2>5, <2>6, <2>7 DEF IInv
  <1>13. CASE Recv
    <2>1. /\ chan # <<>> /\ chan' = Tail(chan)
          /\ applied' = IF chan[1].kind = "reconnected" THEN applied
                        ELSE Larger(applied, chan[1].last)
          /\ received' = received \cup chan[1].seqs
          /\ repeated' = repeated \cup (received \cap chan[1].seqs)
          /\ UNCHANGED <<journal, scope, start, streamOpen, pos, pc, buf, delivered_last>>
      BY <1>13, <1>a DEF Recv, TypeOK
    <2>2. /\ Len(chan) \in Nat \ {0} /\ Len(chan') = Len(chan) - 1
          /\ \A i \in 1..Len(chan) - 1 : chan'[i] = chan[i + 1]
          /\ \A i \in 1..Len(chan) : chan[i] \in Messages
      BY <2>1, <1>a, TailFacts DEF TypeOK
    <2>3. /\ applied <= chan[1].last
          /\ chan[1].seqs = Between(applied, chan[1].last)
          /\ chan[1].kind # "batch" => chan[1].last = applied
      BY <2>2, <1>a DEF DeliveredExactly, MessageInv, CursorAfter
    <2>4. applied' = chan[1].last
      BY <2>1, <2>2, <2>3, <1>a DEF Larger, TypeOK, Messages
    <2>5. \A i \in 0..Len(chan) - 1 : CursorAfter(i)' = CursorAfter(i + 1)
      BY <2>1, <2>2, <2>4 DEF CursorAfter
    <2>6. StreamInv'
      BY <2>1, <1>a DEF StreamInv, Between
    <2>7. CursorInv'
      <3>1. start <= chan[1].last
        BY <2>2, <2>3, <1>a DEF CursorInv, TypeOK, Messages
      <3>2. CursorAfter(Len(chan))' = CursorAfter(Len(chan))
        BY <2>2, <2>5
      <3>3. QED BY <2>1, <2>4, <3>1, <3>2, <1>a DEF CursorInv
    <2>8. MessageInv'
      <3>1. ASSUME NEW i \in 1..Len(chan)
            PROVE  /\ chan[i].last <= journal
                   /\ chan[i].kind = "batch" => chan[i].last \in chan[i].seqs
                   /\ chan[i].kind # "batch" => chan[i].last = CursorAfter(i - 1)
                   /\ chan[i].kind = "closed" => pc = "closed" /\ i = Len(chan)
        BY <1>a DEF MessageInv
      <3>2. ASSUME NEW i \in 1..Len(chan')
            PROVE  /\ chan'[i].last <= journal'
                   /\ chan'[i].kind = "batch" => chan'[i].last \in chan'[i].seqs
                   /\ chan'[i].kind # "batch" => chan'[i].last = CursorAfter(i - 1)'
                   /\ chan'[i].kind = "closed" => pc' = "closed" /\ i = Len(chan')
        <4>1. /\ i \in 1..Len(chan) - 1 /\ i - 1 \in 0..Len(chan) - 1
              /\ i + 1 \in 1..Len(chan) /\ (i + 1) - 1 = i /\ (i - 1) + 1 = i
              /\ i + 1 = Len(chan) => i = Len(chan')
          BY <2>2
        <4>2. chan'[i] = chan[i + 1]
          BY <2>2, <4>1
        <4>3. CursorAfter(i - 1)' = CursorAfter(i)
          BY <2>5, <4>1
        <4>4. journal' = journal /\ pc' = pc
          BY <2>1, <1>13 DEF Recv
        <4>5. /\ chan[i + 1].last <= journal
              /\ chan[i + 1].kind = "batch" => chan[i + 1].last \in chan[i + 1].seqs
              /\ chan[i + 1].kind # "batch" => chan[i + 1].last = CursorAfter((i + 1) - 1)
              /\ chan[i + 1].kind = "closed" => pc = "closed" /\ i + 1 = Len(chan)
          BY <3>1, <4>1
        <4>6. QED BY <4>1, <4>2, <4>3, <4>4, <4>5
      <3>3. QED BY <3>2 DEF MessageInv
    <2>9. DeliveredExactly'
      <3>1. received' = Between(start, applied')
        <4>1. /\ received = Between(start, applied) /\ start <= applied
              /\ chan[1] \in Messages
          BY <2>2, <1>a DEF DeliveredExactly, CursorInv
        <4>2. Between(start, applied) \cup Between(applied, chan[1].last)
                  = Between(start, chan[1].last)
          BY <4>1, <2>3, <1>a, SeqFacts DEF Between
        <4>3. QED BY <2>1, <2>3, <2>4, <4>1, <4>2 DEF Between
      <3>2. ASSUME NEW i \in 1..Len(chan')
            PROVE  /\ CursorAfter(i - 1)' <= chan'[i].last
                   /\ chan'[i].seqs = Between(CursorAfter(i - 1)', chan'[i].last)
        <4>1. i + 1 \in 1..Len(chan) /\ i - 1 \in 0..Len(chan) - 1 /\ (i - 1) + 1 = (i + 1) - 1
          BY <2>2
        <4>2. chan'[i] = chan[i + 1] /\ CursorAfter(i - 1)' = CursorAfter((i + 1) - 1)
          BY <2>2, <2>5, <4>1
        <4>3. QED BY <4>1, <4>2, <1>a DEF DeliveredExactly
      <3>3. repeated' = {}
        <4>1. received \cap chan[1].seqs = {}
          BY <2>3, <1>a, SeqFacts DEF DeliveredExactly, Between
        <4>2. QED BY <2>1, <4>1, <1>a DEF DeliveredExactly
      <3>4. QED BY <3>1, <3>2, <3>3, <2>1 DEF DeliveredExactly, Between
    <2>10. FullStreamHasNoGap'
      BY <2>1, <2>2, <1>a DEF FullStreamHasNoGap
    <2>11. QED BY <1>0, <2>6, <2>7, <2>8, <2>9, <2>10 DEF IInv
  <1>14. CASE Abort
    <2>1. Len(chan') = 0 /\ pc' = "aborted"
      BY <1>14 DEF Abort
    <2>2. StreamInv'
      BY <1>14, <1>a DEF Abort, StreamInv
    <2>3. CursorInv'
      BY <1>14, <1>a DEF Abort, CursorInv
    <2>4. MessageInv' /\ DeliveredExactly' /\ FullStreamHasNoGap'
      BY <1>14, <1>a, <2>1 DEF Abort, MessageInv, DeliveredExactly, Between, FullStreamHasNoGap
    <2>5. QED BY <1>0, <2>2, <2>3, <2>4 DEF IInv
  <1>15. CASE UNCHANGED vars
    BY <1>0, <1>15, <1>a DEF vars, IInv, StreamInv, CursorInv, MessageInv, DeliveredExactly,
       FullStreamHasNoGap, CursorAfter, Between, Retain
  <1>16. QED
    BY <1>1, <1>2, <1>3, <1>4, <1>5, <1>6, <1>7, <1>8, <1>9, <1>10, <1>11,
       <1>12, <1>13, <1>14, <1>15 DEF Next, PumpStep

\* The inductive invariant holds at every moment of every run.
LEMMA Invariance == Spec => []IInv
  <1>1. QED BY InvInit, InvStep, PTL DEF Spec

-----------------------------------------------------------------------------
\* At every moment the consumer holds exactly the events between where it
\* started and its cursor, and the channel continues from there: pump_loop
\* loses, repeats and reorders nothing across windows, overlapping replays,
\* dropped streams and reconnects.
THEOREM DeliveredExactlyAlways == Spec => []DeliveredExactly
  <1>1. IInv => DeliveredExactly BY DEF IInv
  <1>2. QED BY Invariance, <1>1, PTL

\* A consumer of the whole stream never sees gap_before set.
THEOREM NoGapAlways == Spec => []FullStreamHasNoGap
  <1>1. IInv => FullStreamHasNoGap BY DEF IInv
  <1>2. QED BY Invariance, <1>1, PTL

\* Closed is the last message and names the cursor its owner holds on reading it.
THEOREM ClosedCursorExactAlways == Spec => []ClosedCursorExact
  <1>1. IInv => ClosedCursorExact
    BY DEF IInv, MessageInv, ClosedCursorExact
  <1>2. QED BY Invariance, <1>1, PTL

-----------------------------------------------------------------------------
\* A message taken from the channel is a delivery up to the new cursor, or, for
\* Reconnected and Closed, changes nothing the consumer holds.
LEMMA RecvDelivers ==
    ASSUME IInv, Recv
    PROVE  (\E to \in 1..MaxSeq : OD!Deliver(to)) \/ UNCHANGED OD!odVars
  <1> DEFINE m == chan[1]
  <1>1. /\ TypeOK /\ chan # <<>>
        /\ applied' = IF m.kind = "reconnected" THEN applied ELSE Larger(applied, m.last)
        /\ received' = received \cup m.seqs
        /\ repeated' = repeated \cup (received \cap m.seqs)
        /\ UNCHANGED <<journal, scope>>
    BY DEF IInv, Recv, TypeOK, coreVars
  <1>2. Len(chan) \in Nat \ {0} /\ m \in Messages
    BY <1>1, TailFacts DEF TypeOK
  <1>3. /\ applied <= m.last /\ m.last <= journal
        /\ m.seqs = Between(applied, m.last)
        /\ m.kind = "batch" => m.last \in m.seqs
        /\ m.kind # "batch" => m.last = applied
    BY <1>2 DEF IInv, DeliveredExactly, MessageInv, CursorAfter
  <1>4. /\ applied \in Nat /\ m.last \in Nat /\ journal \in Nat
        /\ \A s \in scope : s \in Nat
    BY <1>1, <1>2, SeqFacts
  <1>5. applied' = m.last
    BY <1>1, <1>3, <1>4 DEF Larger
  <1>6. repeated' = repeated
    <2>1. received = Between(start, applied)
      BY DEF IInv, DeliveredExactly
    <2>2. received \cap m.seqs = {}
      BY <1>3, <1>4, <2>1 DEF Between
    <2>3. QED BY <1>1, <2>2
  <1>7. CASE m.kind = "batch"
    <2>1. m.last \in OD!Events(applied, journal)
      BY <1>3, <1>4, <1>7 DEF Between, OD!Events
    <2>2. received' = received \cup OD!Events(applied, m.last)
      BY <1>1, <1>3 DEF Between, OD!Events
    <2>3. OD!Deliver(m.last)
      BY <1>1, <1>5, <1>6, <2>1, <2>2 DEF OD!Deliver
    <2>4. m.last \in 1..MaxSeq
      BY <2>1, <1>1 DEF OD!Events, TypeOK, Seqs
    <2>5. QED BY <2>3, <2>4
  <1>8. CASE m.kind # "batch"
    <2>1. applied' = applied /\ m.seqs = {}
      BY <1>1, <1>3, <1>4, <1>5, <1>8, SeqFacts
    <2>2. QED BY <1>1, <1>6, <2>1 DEF OD!odVars
  <1>9. QED BY <1>7, <1>8

\* The pump keeps the promise of OrderedDelivery: with the same journal, scope,
\* applied, received and repeated, a receive is a Deliver and every other step stutters
\* or commits an event.
THEOREM PumpImplementsOrderedDelivery == Spec => ImplementsOrderedDelivery
  <1>1. Init => OD!ODInit
    BY DEF Init, OD!ODInit
  <1>2. IInv /\ [Next]_vars => [OD!ODNext]_(OD!odVars)
    <2> SUFFICES ASSUME IInv, [Next]_vars PROVE [OD!ODNext]_(OD!odVars)
      OBVIOUS
    <2>1. CASE CommitEvent
      BY <2>1 DEF CommitEvent, OD!ODNext, OD!Commit, consumerVars
    <2>2. CASE Recv
      BY <2>2, RecvDelivers DEF OD!ODNext
    <2>3. CASE DropStream \/ ComeBack \/ PumpStep \/ Abort \/ UNCHANGED vars
      BY <2>3 DEF DropStream, ComeBack, PumpStep, Abort, Subscribe, Announce, PullFirst,
         PullMore, CloseWindowIdle, CloseWindow, StreamEnded, Probe, GiveUp, vars,
         coreVars, consumerVars, OD!odVars
    <2>4. QED BY <2>1, <2>2, <2>3 DEF Next
  <1>3. QED
    BY <1>1, <1>2, Invariance, PTL DEF Spec, ImplementsOrderedDelivery, OD!ODSpec
=============================================================================
