----------------------------- MODULE MCTaskWindow -----------------------------
EXTENDS TaskWindow

Ev(task, kind, payload) ==
    [valid |-> TRUE, kind |-> kind, taskId |-> task, payload |-> payload]

Call(task, kind, tool, call, fields) ==
    Ev(task, kind, [tool |-> tool, call |-> call,
                    input |-> [program |-> call]] @@ fields)

Id(n) == [tool_invocation_id |-> n]
Blob(call) == [rendered |-> [marked |-> TRUE, exit_code |-> 0,
                             stdout |-> call, stderr |-> ""]]

\* t1 tells everything the rails fold; t2 ends beside it.
Work ==
    [scripts |->
        [t1 |-> <<Ev("t1", "no_such_kind", Null),
                  Ev("t1", "task_started", [objective |-> "o"]),
                  Ev("t1", "file_changed", [path |-> "a", change |-> "write"]),
                  Ev("t1", "tool_started", [tool |-> "edit_file",
                                            input |-> [path |-> "a"]]),
                  Ev("t1", "test_started", [command |-> "c"]),
                  Ev("t1", "test_failed", [command |-> "c", summary |-> Null]),
                  Ev("t1", "state_changed", [to |-> "cancelled"])>>,
         t2 |-> <<Ev("t2", "task_failed", [reason |-> Null])>>],
     uses |-> {"holes"}, caps |-> {}, creates |-> {}]

\* t1 asks, asks again, asks in a way nobody can read, and goes on.
Asks ==
    [scripts |->
        [t1 |-> <<Ev("t1", "state_changed", [to |-> "waiting_for_permission"]),
                  Ev(Null, "engine_install_progress",
                     [component |-> "llama", downloaded_bytes |-> 1]),
                  Ev("t1", "approval_requested", [request_id |-> "r1"]),
                  Ev("t1", "approval_requested", [request_id |-> "r2",
                                                   risk |-> "network"]),
                  Ev("t1", "approval_requested", [request_id |-> Bad]),
                  Ev("t1", "state_changed", [to |-> "no such state"]),
                  Ev("t1", "model_completed", [text |-> "thoughts"])>>,
         t2 |-> <<Ev("t2", "state_changed", [to |-> "paused"])>>],
     uses |-> {"holes"}, creates |-> {},
     caps |-> {"model_inference", "approval_scope"}]

\* Two overlapping calls with ids; calls without, one after the other, the
\* last of them no command and the one before it never ending.
Commands ==
    [scripts |->
        [t1 |-> <<Call("t1", "tool_started", "bash", "a", Id("1")),
                  Call("t1", "tool_started", "run_command", "b", Id("2")),
                  Call("t1", "tool_completed", "run_command", "b",
                       Id("2") @@ [stdout |-> "b"]),
                  Call("t1", "tool_completed", "bash", "a",
                       Id("1") @@ [stdout |-> "a", exit_code |-> Null])>>,
         t2 |-> <<Call("t2", "tool_started", "sh", "c", <<>>),
                  Call("t2", "tool_completed", "sh", "c", Blob("c")),
                  Call("t2", "tool_started", "sh", "d", <<>>),
                  Call("t2", "tool_started", "read_file", "e", <<>>),
                  Call("t2", "tool_completed", "read_file", "e",
                       [rendered |-> [marked |-> FALSE]])>>],
     uses |-> {}, caps |-> {}, creates |-> {}]

TwoTasks ==
    [t1 |-> <<Ev("t1", "file_changed", [path |-> "a"]),
              Ev("t1", "task_completed", <<>>)>>,
     t2 |-> <<Ev("t2", "file_changed", [path |-> "b"])>>]

Panels ==
    [scripts |-> TwoTasks, caps |-> {"ledger"}, creates |-> {"t2"},
     uses |-> {"panels", "pins", "connection"}]

PanelsAgain ==
    [scripts |-> TwoTasks, caps |-> {"ledger"}, creates |-> {},
     uses |-> {"panels", "reopen", "holes", "exits"}]

Badges ==
    [scripts |-> TwoTasks, caps |-> {"ledger"}, creates |-> {},
     uses |-> {"badges", "connection", "reopen", "holes", "exits"}]

ModelCaps == {"hardware", "model_manage", "model_inference"}

Models ==
    [scripts |->
        [m1 |-> <<Ev(Null, "model_install_progress",
                     [id |-> "m1", total_bytes |-> 2]),
                  Ev(Null, "model_install_completed",
                     [id |-> "m1", size_bytes |-> 2]),
                  Ev(Null, "model_server_starting",
                     [role |-> "primary_coder", id |-> "m1"]),
                  Ev(Null, "model_server_ready",
                     [role |-> "primary_coder", id |-> "m1", port |-> 1])>>],
     uses |-> {"models"}, caps |-> ModelCaps, creates |-> {}]

Manager == [Models EXCEPT !.uses = {"models", "connection"}]

\* The server of the active model fails.
Failing ==
    [scripts |->
        [m1 |-> <<Ev(Null, "model_install_completed",
                     [id |-> "m1", size_bytes |-> 2]),
                  Ev(Null, "model_server_ready",
                     [role |-> "primary_coder", id |-> "m1", port |-> 1]),
                  Ev(Null, "model_server_failed",
                     [role |-> "primary_coder", id |-> "m1"])>>],
     uses |-> {"models", "holes"}, creates |-> {}, caps |-> ModelCaps]

Picker  == [Models EXCEPT !.uses = {"picker", "exits", "connection", "holes"}]
Marker  == [Models EXCEPT !.uses = {"marker", "failures", "connection"}]

Resume ==
    [scripts |-> [t1 |-> <<Ev("t1", "state_changed", [to |-> "paused"])>>,
                  t2 |-> <<Ev("t2", "task_completed", <<>>)>>],
     uses |-> {"resume", "reopen", "holes", "failures", "exits"}, caps |-> {},
     creates |-> {}]

MCScenarios == {Work, Asks, Commands, Panels, PanelsAgain, Badges, Manager,
                Failing, Picker, Marker, Resume}
=============================================================================
