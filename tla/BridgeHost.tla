----------------------------- MODULE BridgeHost -----------------------------
(***************************************************************************)
(* The life of the bridge-host child process of one window, as the         *)
(* extension keeps it: extension/src/bridge/host.ts (start, stop, restart, *)
(* the exit handler and its respawn timer), the client over the process's  *)
(* pipes (bridge/client.ts), and extension.ts, which attaches the event    *)
(* handlers to a client and opens the session through it.                  *)
(*                                                                         *)
(* Everything here runs on one JavaScript thread: an action is one turn of *)
(* its event loop, or something a process does on its own.                 *)
(***************************************************************************)
EXTENDS Naturals, FiniteSets

CONSTANTS MaxRespawns,  \* RESPAWN_BACKOFF_MS.length
          MaxCrashes,   \* bound on the unexpected exits
          MaxRestarts   \* bound on the uses of "Restart Bridge Host"

ASSUME HostConstants ==
    MaxRespawns \in Nat /\ MaxCrashes \in Nat /\ MaxRestarts \in Nat

\* Every start follows activation, an unexpected exit, a restart, or the exit
\* of a process that a restart or a deactivation ended.  A client is named by
\* its process.
Procs == 1..2 + MaxCrashes + 2 * MaxRestarts
None  == 0

VARIABLES process,          \* the processes: what the OS and node know of them
          termed,           \* those sent SIGTERM
          started,          \* how many there have been
          proc, client,     \* BridgeHost.proc, BridgeHost._client
          closed,           \* the clients that are closed
          pending,          \* the clients a session/open waits on
          asked,            \* the clients a session/open was ever sent through
          wired,            \* the client wireClient attached its handlers to
          intentionalStop, respawns,
          respawnTimer,     \* the timer that field holds is pending
          lostTimers,       \* pending timers it no longer holds
          deactivated,      \* the extension was deactivated
          crashes, restarts,
          sinceHealthy,     \* history: starts since a session or a restart
          gaveUp            \* history: the exit handler or the timer gave up

osVars     == <<process, termed, started>>
clientVars == <<closed, pending, asked, wired>>
timerVars  == <<intentionalStop, respawns, respawnTimer, lostTimers>>
vars == <<process, termed, started, proc, client, closed, pending, asked, wired,
          intentionalStop, respawns, respawnTimer, lostTimers, deactivated,
          crashes, restarts, sinceHealthy, gaveUp>>

TypeOK ==
    /\ process \in [Procs -> {"unborn", "running", "exited", "gone"}]
    /\ termed \subseteq Procs
    /\ started \in Procs
    /\ proc \in Procs \cup {None} /\ client \in Procs \cup {None}
    /\ closed \subseteq Procs /\ pending \subseteq Procs /\ asked \subseteq Procs
    /\ wired \in Procs
    /\ intentionalStop \in BOOLEAN
    /\ respawns \in 0..MaxRespawns
    /\ respawnTimer \in BOOLEAN
    /\ lostTimers \in Nat
    /\ deactivated \in BOOLEAN
    /\ crashes \in 0..MaxCrashes /\ restarts \in 0..MaxRestarts
    /\ sinceHealthy \in Nat
    /\ gaveUp \in BOOLEAN

\* activate: the host is started and wired, and a folder is open: the session
\* is asked for.
Init ==
    /\ process = [p \in Procs |-> IF p = 1 THEN "running" ELSE "unborn"]
    /\ termed = {}
    /\ started = 1
    /\ proc = 1 /\ client = 1
    /\ closed = {} /\ pending = {1} /\ asked = {1} /\ wired = 1
    /\ intentionalStop = FALSE
    /\ respawns = 0
    /\ respawnTimer = FALSE
    /\ lostTimers = 0
    /\ deactivated = FALSE
    /\ crashes = 0 /\ restarts = 0
    /\ sinceHealthy = 1
    /\ gaveUp = FALSE

(***************************************************************************)
(* The process and its pipes.                                              *)
(***************************************************************************)
\* It dies on its own.
Crash(p) ==
    /\ process[p] = "running"
    /\ crashes < MaxCrashes
    /\ crashes' = crashes + 1
    /\ process' = [process EXCEPT ![p] = "exited"]
    /\ UNCHANGED <<termed, started, proc, client, clientVars, timerVars,
                   deactivated, restarts, sinceHealthy, gaveUp>>

\* It obeys a SIGTERM.
Terminate(p) ==
    /\ process[p] = "running" /\ p \in termed
    /\ process' = [process EXCEPT ![p] = "exited"]
    /\ UNCHANGED <<termed, started, proc, client, clientVars, timerVars,
                   deactivated, crashes, restarts, sinceHealthy, gaveUp>>

\* Closing a client rejects what is pending on it and drops its handlers.
Close(c) == closed' = closed \cup {c} /\ pending' = pending \ {c}

\* stdout's "close" event, before or after the "exit" event.
StdoutCloses(p) ==
    /\ process[p] \in {"exited", "gone"} /\ p \notin closed
    /\ Close(p)
    /\ UNCHANGED <<osVars, proc, client, asked, wired, timerVars, deactivated,
                   crashes, restarts, sinceHealthy, gaveUp>>

(***************************************************************************)
(* The session, asked for through the current client.                      *)
(***************************************************************************)
Usable(c) == c # None /\ c \notin closed

\* valyria.reconnect: reopen.
Reconnect ==
    /\ ~deactivated
    /\ Usable(client) /\ client \notin pending
    /\ pending' = pending \cup {client}
    /\ asked' = asked \cup {client}
    /\ UNCHANGED <<osVars, proc, client, closed, wired, timerVars, deactivated,
                   crashes, restarts, sinceHealthy, gaveUp>>

\* session/open succeeds: markHealthy.
Opened(p) ==
    /\ p \in pending /\ process[p] = "running"
    /\ pending' = pending \ {p}
    /\ respawns' = 0
    /\ sinceHealthy' = 0
    /\ UNCHANGED <<osVars, proc, client, closed, asked, wired, intentionalStop,
                   respawnTimer, lostTimers, deactivated, crashes, restarts, gaveUp>>

OpenFails(p) ==
    /\ p \in pending /\ process[p] = "running"
    /\ pending' = pending \ {p}
    /\ UNCHANGED <<osVars, proc, client, closed, asked, wired, timerVars,
                   deactivated, crashes, restarts, sinceHealthy, gaveUp>>

(***************************************************************************)
(* BridgeHost.                                                             *)
(***************************************************************************)
\* start, when no process runs: this.proc and this._client are the new one.
StartNew(terminated) ==
    /\ started' = started + 1
    /\ process' = [process EXCEPT ![started + 1] = "running"]
    /\ termed' = termed \cup terminated
    /\ proc' = started + 1
    /\ client' = started + 1
    /\ intentionalStop' = FALSE

\* setTimeout; a timer that was pending is no longer in the field.
SetTimer ==
    /\ respawnTimer' = TRUE
    /\ lostTimers' = IF respawnTimer THEN lostTimers + 1 ELSE lostTimers

\* Mutant: one respawn more than there are delays.
OnProcExitOneMore(p) ==
    /\ process[p] = "exited"
    /\ process' = [process EXCEPT ![p] = "gone"]
    /\ IF client = None THEN UNCHANGED <<closed, pending>> ELSE Close(client)
    /\ proc' = None /\ client' = None
    /\ IF ~intentionalStop /\ respawns <= MaxRespawns
       THEN respawns' = respawns + 1 /\ SetTimer
       ELSE UNCHANGED <<respawns, respawnTimer, lostTimers>>
    /\ gaveUp' = (gaveUp \/ (~intentionalStop /\ respawns > MaxRespawns))
    /\ UNCHANGED <<termed, started, asked, wired, intentionalStop, deactivated,
                   crashes, restarts, sinceHealthy>>

\* The "exit" event of any process this window ever started: it closes and
\* forgets the CURRENT client and process.
OnProcExit(p) ==
    /\ process[p] = "exited"
    /\ process' = [process EXCEPT ![p] = "gone"]
    /\ IF client = None THEN UNCHANGED <<closed, pending>> ELSE Close(client)
    /\ proc' = None /\ client' = None
    /\ IF ~intentionalStop /\ respawns < MaxRespawns
       THEN respawns' = respawns + 1 /\ SetTimer
       ELSE UNCHANGED <<respawns, respawnTimer, lostTimers>>
    /\ gaveUp' = (gaveUp \/ (~intentionalStop /\ respawns = MaxRespawns))
    /\ UNCHANGED <<termed, started, asked, wired, intentionalStop, deactivated,
                   crashes, restarts, sinceHealthy>>

TakeTimer ==
    \/ respawnTimer /\ respawnTimer' = FALSE /\ UNCHANGED lostTimers
    \/ lostTimers > 0 /\ lostTimers' = lostTimers - 1 /\ UNCHANGED respawnTimer

\* Mutant: the session is reopened, the handlers stay where they were.
RespawnUnwired ==
    /\ TakeTimer
    /\ IF proc = None
       THEN StartNew({}) /\ sinceHealthy' = sinceHealthy + 1
       ELSE UNCHANGED <<osVars, proc, client, intentionalStop, sinceHealthy>>
    /\ asked' = asked \cup {client'}
    /\ pending' = pending \cup ({client'} \ closed)
    /\ UNCHANGED <<closed, wired, respawns, deactivated, crashes, restarts, gaveUp>>

\* Mutant: a start counts as healthy.
RespawnHealthy ==
    /\ TakeTimer
    /\ IF proc = None
       THEN StartNew({}) /\ sinceHealthy' = sinceHealthy + 1
       ELSE UNCHANGED <<osVars, proc, client, intentionalStop, sinceHealthy>>
    /\ respawns' = 0
    /\ wired' = client'
    /\ asked' = asked \cup {client'}
    /\ pending' = pending \cup ({client'} \ closed)
    /\ UNCHANGED <<closed, deactivated, crashes, restarts, gaveUp>>

\* The timer's callback: start, which does nothing when a process runs, then
\* onRespawn, if anyone still listens: wireClient(host.client) and reopen.
Respawn ==
    /\ TakeTimer
    /\ IF proc = None
       THEN StartNew({}) /\ sinceHealthy' = sinceHealthy + 1
       ELSE UNCHANGED <<osVars, proc, client, intentionalStop, sinceHealthy>>
    /\ IF deactivated
       THEN UNCHANGED <<wired, asked, pending>>
       ELSE /\ wired' = client'
            /\ asked' = asked \cup {client'}
            /\ pending' = pending \cup ({client'} \ closed)
    /\ UNCHANGED <<closed, respawns, deactivated, crashes, restarts, gaveUp>>

\* start throws (no binary): logged, and that was that.
RespawnFails ==
    /\ TakeTimer
    /\ proc = None
    /\ intentionalStop' = FALSE
    /\ gaveUp' = TRUE
    /\ UNCHANGED <<osVars, proc, client, clientVars, respawns, deactivated,
                   crashes, restarts, sinceHealthy>>

\* stop: SIGTERM the process, close the client, clear the timer the field holds.
Stopped == IF proc = None THEN {} ELSE {proc}

\* restart: stop, then start; the handlers and the session stay as they are.
Restart ==
    /\ ~deactivated
    /\ restarts < MaxRestarts
    /\ restarts' = restarts + 1
    /\ IF client = None THEN UNCHANGED <<closed, pending>> ELSE Close(client)
    /\ StartNew(Stopped)
    /\ respawns' = 0
    /\ sinceHealthy' = 1
    /\ respawnTimer' = FALSE
    /\ UNCHANGED <<asked, wired, lostTimers, deactivated, crashes, gaveUp>>

\* Mutant: the respawn timer is left running.
DeactivateTimerKept ==
    /\ ~deactivated
    /\ deactivated' = TRUE
    /\ intentionalStop' = TRUE
    /\ IF client = None THEN UNCHANGED <<closed, pending>> ELSE Close(client)
    /\ termed' = termed \cup Stopped
    /\ proc' = None /\ client' = None
    /\ UNCHANGED <<process, started, asked, wired, respawns, respawnTimer, lostTimers,
                   crashes, restarts, sinceHealthy, gaveUp>>

\* dispose, when the extension is deactivated: stop.
Deactivate ==
    /\ ~deactivated
    /\ deactivated' = TRUE
    /\ intentionalStop' = TRUE
    /\ respawnTimer' = FALSE
    /\ IF client = None THEN UNCHANGED <<closed, pending>> ELSE Close(client)
    /\ termed' = termed \cup Stopped
    /\ proc' = None /\ client' = None
    /\ UNCHANGED <<process, started, asked, wired, respawns, lostTimers,
                   crashes, restarts, sinceHealthy, gaveUp>>

EventLoop == Respawn \/ RespawnFails \/ (\E p \in Procs : OnProcExit(p) \/ StdoutCloses(p))

Next ==
    \/ EventLoop
    \/ \E p \in Procs : Crash(p) \/ Terminate(p) \/ Opened(p) \/ OpenFails(p)
    \/ Reconnect
    \/ Restart
    \/ Deactivate

Spec == Init /\ [][Next]_vars

\* The event loop turns and timers go off.
FairSpec == Spec /\ WF_vars(EventLoop)

(***************************************************************************)
(* Correctness.                                                            *)
(***************************************************************************)
Running == {p \in Procs : process[p] = "running" /\ p \notin termed}

\* One host per extension activation.
OneHost == Cardinality(Running) <= 1

\* As long as nobody restarts the host by hand, a session is only ever opened
\* through a client whose events reach the store.
AskedIsWired ==
    restarts = 0 => \A c \in asked : c \in closed \/ c = wired

\* A host that keeps dying before it opens a session is not respawned for ever:
\* MaxRespawns times after the first start, and no more.
CrashLoopStops == restarts = 0 => sinceHealthy <= MaxRespawns + 1

\* A window that was closed starts no host.
NoneAfterDeactivate == restarts = 0 /\ deactivated => proc = None

\* However hosts die, the window ends up with a running host, its events wired
\* and its session asked for, unless the respawns were used up or could not
\* start, or the window closed.
Attached == /\ proc # None /\ process[proc] = "running"
            /\ wired = proc /\ proc \in asked \ closed
Recovers == <>[](Attached \/ gaveUp \/ deactivated \/ restarts > 0)
=============================================================================
