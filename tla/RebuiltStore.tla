----------------------------- MODULE RebuiltStore -----------------------------
(***************************************************************************)
(* What store.ts promises of the projection, with no window in sight: the  *)
(* store is disposable, replaying the events it holds rebuilds it.  The    *)
(* journal only grows.  Runs of its events are read in order, none twice;  *)
(* a run may leave out what comes before it, and opening a session afresh  *)
(* forgets them all.  JournalReading says what such a store shows.         *)
(***************************************************************************)
EXTENDS Integers, Sequences

CONSTANT replay(_)  \* the store that some events leave, read from nothing

VARIABLES journal,  \* Core's events, the one with seq n at n
          held,     \* the seqs of the events that were read, in order
          store     \* what the window keeps, but for its connection

vars == <<journal, held, store>>

\* The store that reading the events of these seqs anew gives.
Rebuilt(seqs) == replay([i \in 1 .. Len(seqs) |-> journal[seqs[i]]])

Upto == IF held = <<>> THEN 0 ELSE held[Len(held)]

Init == journal = <<>> /\ held = <<>> /\ store = Rebuilt(<<>>)

Grow == /\ SubSeq(journal', 1, Len(journal)) = journal
        /\ UNCHANGED <<held, store>>

Read(from, to) ==
    /\ held' = held \o [i \in 1 .. to - from + 1 |-> from + i - 1]
    /\ store' = Rebuilt(held')
    /\ UNCHANGED journal

Forget == /\ held' = <<>>
          /\ store' = Rebuilt(<<>>)
          /\ UNCHANGED journal

Next == \/ Grow
        \/ \E to \in Upto + 1 .. Len(journal) : \E from \in Upto + 1 .. to :
               Read(from, to)
        \/ Forget

Spec == Init /\ [][Next]_vars
=============================================================================
