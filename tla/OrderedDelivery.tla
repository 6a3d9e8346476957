-------------------------- MODULE OrderedDelivery --------------------------
(***************************************************************************)
(* What an event pump promises its consumer, with no socket, window,       *)
(* channel or retry in sight: the events of one subscription arrive in     *)
(* journal order, none skipped, none twice, in runs whose last seq is the  *)
(* consumer's new resume cursor.                                           *)
(***************************************************************************)
EXTENDS Naturals

CONSTANTS MaxSeq,   \* bound on the journal: seqs are 1..MaxSeq
          Scopes,   \* the sets of seqs a subscription may be entitled to
          Starts    \* the cursors a consumer may resume from

VARIABLES journal,  \* Core's journal holds the seqs 1..journal
          scope,    \* the seqs this subscription carries (all, or one task's)
          applied,  \* the consumer's cursor
          received, \* the seqs the consumer has been handed
          repeated  \* those it was handed more than once

odVars == <<journal, scope, applied, received, repeated>>

\* The events of this subscription past lo, up to and including hi.
Events(lo, hi) == {s \in scope : lo < s /\ s <= hi}

ODInit ==
    /\ scope \in Scopes
    /\ applied \in Starts
    /\ journal \in applied..MaxSeq
    /\ received = {}
    /\ repeated = {}

Commit ==
    /\ journal < MaxSeq
    /\ journal' = journal + 1
    /\ UNCHANGED <<scope, applied, received, repeated>>

\* The consumer gets everything it lacks up to `to`, and `to` becomes its cursor.
Deliver(to) ==
    /\ to \in Events(applied, journal)
    /\ received' = received \cup Events(applied, to)
    /\ applied' = to
    /\ UNCHANGED <<journal, scope, repeated>>

ODNext == Commit \/ \E to \in 1..MaxSeq : Deliver(to)

ODSpec == ODInit /\ [][ODNext]_odVars
=============================================================================
