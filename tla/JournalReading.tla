---------------------------- MODULE JournalReading ----------------------------
(***************************************************************************)
(* What the projection promises, without folding anything: what a window   *)
(* shows is a reading of the events it holds, whatever the batches they    *)
(* came in and however often one came.  Each fact is read off the events   *)
(* directly: the last one that says it wins.  The journal only grows; runs *)
(* of it are read in order, none twice, and what a run leaves out is seen  *)
(* to be missing, until a session is opened afresh.                        *)
(***************************************************************************)
EXTENDS Projection

VARIABLES journal,  \* Core's events, the one with seq n at n
          held,     \* the seqs of the events that were read, in order
          shown     \* what the window makes of them

vars == <<journal, held, shown>>

Events(seqs) == [i \in DOMAIN seqs |-> decodeEvent(journal[seqs[i]])]
Upto == IF held = <<>> THEN 0 ELSE Last(held)

Latest(S) == CHOOSE i \in S : \A j \in S : j <= i
Earliest(S) == CHOOSE i \in S : \A j \in S : i <= j

\* The last of the things said, v[i] by the event i; none when there is none.
LastSaid(v, none) ==
    LET said == {i \in DOMAIN v : v[i] # Null}
    IN  IF said = {} THEN none ELSE v[Latest(said)]

\* The state an event puts its task in, Null when it does not.
Entered(e) ==
    CASE ~e.ok -> Null
      [] e.ok /\ e.kind = "task_completed" -> "completed"
      [] e.ok /\ e.kind = "task_failed" -> "failed"
      [] e.ok /\ e.kind = "state_changed" /\ Field(e, "to") # Null ->
             IF Field(e, "to") \in TaskStates THEN Field(e, "to") ELSE "unknown"
      [] OTHER -> Null

TaskReading(es, t) ==
    LET mine  == {i \in DOMAIN es : es[i].taskId = t}
        good(kinds) == {i \in mine : es[i].ok /\ es[i].kind \in kinds}
        state == LastSaid([i \in mine |-> Entered(es[i])], "unknown")
        asks  == good({"approval_requested"})
        path(i) == IF es[i].ok THEN TouchedPath(es[i]) ELSE Null
        touching(p) == {i \in mine : path(i) = p}
        paths == {path(i) : i \in mine} \ {Null}
        change(i) == IF es[i].kind = "file_changed" THEN Field(es[i], "change")
                     ELSE Null
        tests == good(DOMAIN TestOutcome)
        command(i) == Or(Field(es[i], "command"), "(unnamed run)")
        run(c) == Latest({i \in tests : command(i) = c})
    IN  [state |-> state,
         terminal |-> \E i \in mine : Entered(es[i]) \in TERMINAL_STATES,
         objective |-> LastSaid([i \in good({"task_started"}) |->
                                    Field(es[i], "objective")], Null),
         ask |-> IF state = "waiting_for_permission" /\ asks # {}
                 THEN es[Latest(asks)].seq ELSE Null,
         files |-> {<<p, es[Earliest(touching(p))].seq,
                      LastSaid([i \in touching(p) |-> change(i)], Null)>> :
                       p \in paths},
         tests |-> {<<c, es[run(c)].kind>> : c \in {command(i) : i \in tests}}]

InstallStatus ==
    [model_install_progress |-> "running",
     model_install_completed |-> "completed", model_install_failed |-> "failed"]

EngineStatus ==
    [engine_install_progress |-> "running",
     engine_install_completed |-> "completed",
     engine_install_failed |-> "failed"]

\* How an install stands, and the bytes last told: a completed model tells its
\* size.
InstallReading(es, status, key, id) ==
    LET mine == {i \in DOMAIN es : /\ es[i].ok
                                   /\ es[i].kind \in DOMAIN status
                                   /\ Field(es[i], key) = id}
        got(i) == IF es[i].kind = "model_install_completed"
                  THEN Field(es[i], "size_bytes")
                  ELSE Field(es[i], "downloaded_bytes")
    IN  <<status[es[Latest(mine)].kind], LastSaid([i \in mine |-> got(i)], 0)>>

ServerReading(es, role) ==
    LET mine == {i \in DOMAIN es : /\ es[i].ok
                                   /\ es[i].kind \in DOMAIN ServerState
                                   /\ Field(es[i], "role") = role}
        last == es[Latest(mine)]
    IN  <<ServerState[last.kind],
          LastSaid([i \in mine |-> Field(es[i], "id")], "")>>

\* Everything the events of these seqs say, and whether some are missing.
Reading(seqs) ==
    LET es == Events(seqs)
        tasks == {es[i].taskId : i \in DOMAIN es} \ {Null}
        named(kinds, f) == {Field(es[i], f) : i \in
            {j \in DOMAIN es : es[j].ok /\ es[j].kind \in kinds}} \ {Null}
        ofTask == {i \in DOMAIN es : es[i].taskId # Null}
    IN  [tasks |-> [t \in tasks |-> TaskReading(es, t)],
         current |-> IF ofTask = {} THEN Null ELSE es[Latest(ofTask)].taskId,
         installs |-> [id \in named(DOMAIN InstallStatus, "id") |->
                          InstallReading(es, InstallStatus, "id", id)],
         engines |-> [c \in named(DOMAIN EngineStatus, "component") |->
                         InstallReading(es, EngineStatus, "component", c)],
         servers |-> [r \in named(DOMAIN ServerState, "role") |->
                         ServerReading(es, r)],
         missing |-> \E i \in DOMAIN seqs : seqs[i] # i]

Init == /\ journal = <<>>
        /\ held = <<>>
        /\ shown = Reading(<<>>)

Grow == /\ IsPrefix(journal, journal')
        /\ UNCHANGED <<held, shown>>

Read(from, to) ==
    /\ held' = held \o [i \in 1 .. to - from + 1 |-> from + i - 1]
    /\ shown' = Reading(held')
    /\ UNCHANGED journal

Forget == /\ held' = <<>>
          /\ shown' = Reading(<<>>)
          /\ UNCHANGED journal

Next == \/ Grow
        \/ \E to \in Upto + 1 .. Len(journal) : \E from \in Upto + 1 .. to :
               Read(from, to)
        \/ Forget

Spec == Init /\ [][Next]_vars
=============================================================================
