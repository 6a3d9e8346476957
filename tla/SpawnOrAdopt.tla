---------------------------- MODULE SpawnOrAdopt ----------------------------
(***************************************************************************)
(* The session supervisor (crates/valyria-bridge/src/supervisor.rs): how   *)
(* bridge hosts find, adopt, start and stop the Core daemon of ONE         *)
(* workspace through the files of its run directory, with no lock between  *)
(* them.  A host here is one caller of spawn_or_adopt: the main loop of a  *)
(* window's bridge host, or a supervise task of one that lost its daemon.  *)
(*                                                                         *)
(* Daemons are external: `valyria serve` loads the token file it is given, *)
(* binds the socket path and answers whoever presents that token.          *)
(***************************************************************************)
EXTENDS Naturals, FiniteSets

CONSTANTS Hosts,
          Builds,      \* the protocol majors the hosts and their sidecars may speak
          Modes,       \* autonomy levels
          Unknown,     \* the level shown for a daemon that recorded none
          MaxDaemons,  \* bound on the daemons ever started
          Rebind       \* may Core replace a socket file that is in its way?

ASSUME SupervisorConstants ==
    /\ IsFiniteSet(Hosts)
    /\ Builds \subseteq [Hosts -> Nat]
    /\ Unknown \notin Modes
    /\ MaxDaemons \in Nat
    /\ Rebind \in BOOLEAN

\* Daemons are numbered as they are started; a daemon's number also stands for
\* its pid and for the token generated for it.  0 is no daemon, no file.
Daemons == 1..MaxDaemons
None    == 0
Files   == 0..MaxDaemons

VARIABLES major,    \* major[h]: what h's build speaks
          sock,     \* run/<id>/sock: who bound it
          pidFile,  \* run/<id>/pid
          token,    \* run/<id>/auth.token
          meta,     \* run/<id>/meta.json: its permission_mode, or None
          daemon,   \* the daemon processes
          spawned,  \* how many there have been
          host,     \* where each host is in spawn_or_adopt, and its locals
          session,  \* the Session each host holds
          calm      \* history: see Calm below

runDir == <<sock, pidFile, token, meta>>
vars   == <<major, sock, pidFile, token, meta, daemon, spawned, host, session, calm>>

Levels == Modes \cup {None, Unknown}
Pcs == {"idle", "unlink", "sock", "pid", "token", "hello", "meta", "clear",
        "write", "spawn", "poll", "record"}

NoDaemon  == [state |-> "unborn", major |-> 0, mode |-> None, needs |-> None]
Idle      == [pc |-> "idle", mode |-> None, token |-> None, child |-> None,
              server |-> None]
NoSession == [open |-> FALSE, child |-> None, server |-> None, mode |-> Unknown]

TypeOK ==
    /\ major \in Builds
    /\ sock \in Files /\ pidFile \in Files /\ token \in Files
    /\ meta \in Modes \cup {None}
    /\ daemon \in [Daemons -> [state : {"unborn", "booting", "serving", "dead"},
                               major : Nat, mode : Modes \cup {None}, needs : Files]]
    /\ spawned \in Files
    /\ host \in [Hosts -> [pc : Pcs, mode : Modes \cup {None}, token : Files,
                           child : Files, server : Files]]
    /\ session \in [Hosts -> [open : BOOLEAN, child : Files, server : Files,
                              mode : Modes \cup {Unknown}]]
    /\ calm \in BOOLEAN

\* No host and no daemon runs.  The run directory is new, or holds what an
\* earlier daemon, now dead, left in it: its files, or after a shutdown at most
\* its meta.json.
Init ==
    /\ major \in Builds
    /\ spawned \in {0, 1} \cap Files
    /\ token \in 0..spawned
    /\ sock \in 0..token /\ pidFile \in 0..token
    /\ meta \in IF spawned = 0 THEN {None} ELSE Modes \cup {None}
    /\ pidFile # None => meta # None
    /\ daemon = [d \in Daemons |-> IF d <= spawned THEN [NoDaemon EXCEPT !.state = "dead"]
                                                   ELSE NoDaemon]
    /\ host = [h \in Hosts |-> Idle]
    /\ session = [h \in Hosts |-> NoSession]
    /\ calm = TRUE

Alive(d)   == d # None /\ daemon[d].state \in {"booting", "serving"}
Opening(h) == host[h].pc # "idle"
AloneOpening(h) == \A g \in Hosts \ {h} : ~Opening(g)
MayStart == spawned + Cardinality({h \in Hosts : Opening(h)}) < MaxDaemons

At(h, pc)   == host[h].pc = pc
GoTo(h, pc) == host' = [host EXCEPT ![h].pc = pc]

\* A `hello` on the socket path is answered: a daemon serves there, and the
\* token presented is the one it was started with.
Answers(tok) == /\ sock # None
                /\ daemon[sock].state = "serving"
                /\ daemon[sock].needs = tok
SameMajor(h) == daemon[sock].major = major[h]

(***************************************************************************)
(* spawn_or_adopt, first half: try_adopt.                                  *)
(***************************************************************************)
Open(h, m) ==
    /\ At(h, "idle") /\ MayStart
    /\ host' = [host EXCEPT ![h] = [Idle EXCEPT !.pc = "sock", !.mode = m]]
    /\ calm' = (calm /\ AloneOpening(h))
    /\ UNCHANGED <<major, runDir, daemon, spawned, session>>

CheckSocket(h) ==
    /\ At(h, "sock")
    /\ GoTo(h, IF sock = None THEN "clear" ELSE "pid")
    /\ UNCHANGED <<major, runDir, daemon, spawned, session, calm>>

\* read_pid, pid_is_alive: no pid file is no objection, and a dead daemon's pid
\* may belong to some other process by now.
CheckPid(h) ==
    /\ At(h, "pid")
    /\ \/ GoTo(h, "token")
       \/ pidFile # None /\ ~Alive(pidFile) /\ GoTo(h, "clear")
    /\ UNCHANGED <<major, runDir, daemon, spawned, session, calm>>

\* Mutant: the handshake of an adoption carries no token.
ReadNoToken(h) ==
    /\ At(h, "token")
    /\ GoTo(h, "hello")
    /\ UNCHANGED <<major, runDir, daemon, spawned, session, calm>>

ReadToken(h) ==
    /\ At(h, "token")
    /\ host' = [host EXCEPT ![h].pc = "hello", ![h].token = token]
    /\ UNCHANGED <<major, runDir, daemon, spawned, session, calm>>

\* negotiate.  A ProtocolMismatch is a miss like any other error.
Hello(h) ==
    /\ At(h, "hello")
    /\ IF Answers(host[h].token) /\ SameMajor(h)
       THEN host' = [host EXCEPT ![h].pc = "meta", ![h].server = sock]
       ELSE GoTo(h, "clear")
    /\ calm' = (calm /\ (Answers(host[h].token) => SameMajor(h)))
    /\ UNCHANGED <<major, runDir, daemon, spawned, session>>

\* Mutant: a missing permission_mode is taken for a value.
AdoptRawMeta(h) ==
    /\ At(h, "meta")
    /\ session' = [session EXCEPT ![h] = [open |-> TRUE, child |-> None,
                                          server |-> host[h].server, mode |-> meta]]
    /\ host' = [host EXCEPT ![h] = Idle]
    /\ UNCHANGED <<major, runDir, daemon, spawned, calm>>

\* The adopted Session, with the mode meta.json names.
Adopt(h) ==
    /\ At(h, "meta")
    /\ session' = [session EXCEPT ![h] =
                     [open |-> TRUE, child |-> None, server |-> host[h].server,
                      mode |-> IF meta = None THEN Unknown ELSE meta]]
    /\ host' = [host EXCEPT ![h] = Idle]
    /\ UNCHANGED <<major, runDir, daemon, spawned, calm>>

(***************************************************************************)
(* spawn_or_adopt, second half: nothing to adopt.                          *)
(***************************************************************************)
ClearSocket(h) ==
    /\ At(h, "clear")
    /\ sock' = None
    /\ GoTo(h, "write")
    /\ UNCHANGED <<major, pidFile, token, meta, daemon, spawned, session, calm>>

\* Mutant: a token file that is already there is kept.
WriteTokenIfAbsent(h) ==
    /\ At(h, "write")
    /\ spawned' = spawned + 1
    /\ token' = IF token = None THEN spawned' ELSE token
    /\ host' = [host EXCEPT ![h].pc = "spawn", ![h].token = spawned', ![h].child = spawned']
    /\ UNCHANGED <<major, sock, pidFile, meta, daemon, session, calm>>

\* generate_auth_token, write_token_file.
WriteToken(h) ==
    /\ At(h, "write")
    /\ spawned' = spawned + 1
    /\ token' = spawned'
    /\ host' = [host EXCEPT ![h].pc = "spawn", ![h].token = spawned', ![h].child = spawned']
    /\ UNCHANGED <<major, sock, pidFile, meta, daemon, session, calm>>

Spawn(h) ==
    /\ At(h, "spawn")
    /\ daemon' = [daemon EXCEPT ![host[h].child] =
                    [state |-> "booting", major |-> major[h], mode |-> host[h].mode,
                     needs |-> None]]
    /\ GoTo(h, "poll")
    /\ UNCHANGED <<major, runDir, spawned, session, calm>>

\* An error goes back to the caller: the Session it held, if any, stays.
Fails(h) == host' = [host EXCEPT ![h] = Idle]

SpawnFails(h) ==
    /\ At(h, "spawn")
    /\ Fails(h)
    /\ UNCHANGED <<major, runDir, daemon, spawned, session, calm>>

PollOk(h) ==
    /\ At(h, "poll")
    /\ Answers(host[h].token) /\ SameMajor(h)
    /\ host' = [host EXCEPT ![h].pc = "record", ![h].server = sock]
    /\ UNCHANGED <<major, runDir, daemon, spawned, session, calm>>

\* The child is dropped, which does not kill it.
PollMismatch(h) ==
    /\ At(h, "poll")
    /\ Answers(host[h].token) /\ ~SameMajor(h)
    /\ Fails(h)
    /\ calm' = (calm /\ ~Alive(host[h].child))
    /\ UNCHANGED <<major, runDir, daemon, spawned, session>>

\* StartupTimeout.  The child, if it is merely slow, comes up later all the same.
PollTimeout(h) ==
    /\ At(h, "poll")
    /\ ~Answers(host[h].token)
    /\ Fails(h)
    /\ calm' = (calm /\ ~Alive(host[h].child))
    /\ UNCHANGED <<major, runDir, daemon, spawned, session>>

\* Mutant: no pid file.
RecordMetaOnly(h) ==
    /\ At(h, "record")
    /\ meta' = host[h].mode
    /\ session' = [session EXCEPT ![h] =
                     [open |-> TRUE, child |-> host[h].child, server |-> host[h].server,
                      mode |-> host[h].mode]]
    /\ host' = [host EXCEPT ![h] = Idle]
    /\ UNCHANGED <<major, sock, pidFile, token, daemon, spawned, calm>>

\* Mutant: an existing meta.json is not rewritten.
RecordPidOnly(h) ==
    /\ At(h, "record")
    /\ pidFile' = host[h].child
    /\ meta' = IF meta = None THEN host[h].mode ELSE meta
    /\ session' = [session EXCEPT ![h] =
                     [open |-> TRUE, child |-> host[h].child, server |-> host[h].server,
                      mode |-> host[h].mode]]
    /\ host' = [host EXCEPT ![h] = Idle]
    /\ UNCHANGED <<major, sock, token, daemon, spawned, calm>>

\* write_pid_and_meta, and the spawned Session.
Record(h) ==
    /\ At(h, "record")
    /\ pidFile' = host[h].child
    /\ meta' = host[h].mode
    /\ session' = [session EXCEPT ![h] =
                     [open |-> TRUE, child |-> host[h].child, server |-> host[h].server,
                      mode |-> host[h].mode]]
    /\ host' = [host EXCEPT ![h] = Idle]
    /\ UNCHANGED <<major, sock, token, daemon, spawned, calm>>

(***************************************************************************)
(* shutdown_daemon, as session_restart calls it: only the host that holds  *)
(* the child may, and goes on to spawn_or_adopt under the new mode m.      *)
(***************************************************************************)
Shutdown(h, m) ==
    /\ At(h, "idle") /\ MayStart
    /\ session[h].child # None
    /\ LET child == session[h].child
       IN /\ daemon' = [daemon EXCEPT ![child].state = "dead"]
          /\ calm' = (calm /\ AloneOpening(h) /\ (Alive(child) \/ sock \in {None, child}))
    /\ session' = [session EXCEPT ![h] = NoSession]
    /\ host' = [host EXCEPT ![h] = [Idle EXCEPT !.pc = "unlink", !.mode = m]]
    /\ UNCHANGED <<major, runDir, spawned>>

\* It removes sock, pid and auth.token, whoever wrote them; meta.json stays.
Unlink(h) ==
    /\ At(h, "unlink")
    /\ sock' = None /\ pidFile' = None /\ token' = None
    /\ GoTo(h, "sock")
    /\ UNCHANGED <<major, meta, daemon, spawned, session, calm>>

\* The window closes or its bridge host dies, at any point.  A daemon it
\* spawned lives on (kill_on_drop is off).
CloseWindow(h) ==
    /\ Opening(h) \/ session[h].open
    /\ host' = [host EXCEPT ![h] = Idle]
    /\ session' = [session EXCEPT ![h] = NoSession]
    /\ calm' = (calm /\ ~(host[h].pc \in {"poll", "record"} /\ Alive(host[h].child)))
    /\ UNCHANGED <<major, runDir, daemon, spawned>>

(***************************************************************************)
(* A daemon.                                                               *)
(***************************************************************************)
LoadToken(d) ==
    /\ daemon[d].state = "booting" /\ daemon[d].needs = None
    /\ IF token = None THEN daemon' = [daemon EXCEPT ![d].state = "dead"]
                       ELSE daemon' = [daemon EXCEPT ![d].needs = token]
    /\ UNCHANGED <<major, runDir, spawned, host, session, calm>>

\* A path that is taken: the bind fails and the daemon exits, or, with Rebind,
\* Core replaces what is there.
Bind(d) ==
    /\ daemon[d].state = "booting" /\ daemon[d].needs # None
    /\ \/ /\ sock = None \/ Rebind
          /\ daemon' = [daemon EXCEPT ![d].state = "serving"]
          /\ sock' = d
       \/ /\ sock # None
          /\ daemon' = [daemon EXCEPT ![d].state = "dead"]
          /\ UNCHANGED sock
    /\ UNCHANGED <<major, pidFile, token, meta, spawned, host, session, calm>>

\* It exits, cleanly (its socket file goes) or not.
Die(d) ==
    /\ Alive(d)
    /\ daemon' = [daemon EXCEPT ![d].state = "dead"]
    /\ \/ UNCHANGED sock
       \/ sock = d /\ sock' = None
    /\ UNCHANGED <<major, pidFile, token, meta, spawned, host, session, calm>>

HostStep(h) ==
    \/ CheckSocket(h)
    \/ CheckPid(h)
    \/ ReadToken(h)
    \/ Hello(h)
    \/ Adopt(h)
    \/ ClearSocket(h)
    \/ WriteToken(h)
    \/ Spawn(h)
    \/ SpawnFails(h)
    \/ PollOk(h)
    \/ PollMismatch(h)
    \/ PollTimeout(h)
    \/ Record(h)
    \/ Unlink(h)

Next ==
    \/ \E h \in Hosts :
         \/ HostStep(h)
         \/ CloseWindow(h)
         \/ \E m \in Modes : Open(h, m) \/ Shutdown(h, m)
    \/ \E d \in Daemons : LoadToken(d) \/ Bind(d) \/ Die(d)

Spec == Init /\ [][Next]_vars

(***************************************************************************)
(* Correctness.                                                            *)
(***************************************************************************)
\* calm: so far no two opens have overlapped, no child was left behind while
\* it was starting up, no live daemon was passed over for its version, and no
\* host shut down a daemon that had been replaced already.

\* One Core daemon per workspace: no two of them serve it at a time.
Serving == {d \in Daemons : daemon[d].state = "serving"}
OneDaemon == Cardinality(Serving) <= 1

\* Whatever an earlier life left in the run directory, and however windows and
\* daemons have come and gone since: at most one daemon, the one starting up
\* included.
OneDaemonWhileCalm == calm => Cardinality({d \in Daemons : Alive(d)}) <= 1

\* A Session shows the autonomy level its daemon runs under, or Unknown.
ModeRight(s) == Alive(s.server) /\ s.mode # Unknown => s.mode = daemon[s.server].mode
ModeShownWhileCalm == calm => \A h \in Hosts : session[h].open => ModeRight(session[h])

\* An adopted one reads it back from meta.json.
AdoptedModeShown ==
    \A h \in Hosts : session[h].open /\ session[h].child = None => ModeRight(session[h])

\* The daemon outlives the UI and is found again: when no host is in the
\* middle of an open, a daemon that serves can be adopted by the next one.
Adoptable(d) == /\ sock = d
                /\ token = daemon[d].needs
                /\ pidFile \in {None, d}
AdoptableWhileCalm ==
    calm /\ (\A h \in Hosts : ~Opening(h)) =>
        \A d \in Daemons : daemon[d].state = "serving" => Adoptable(d)

\* A child that came up answers the host that waits for it.
ChildAnswersWhileCalm ==
    calm => \A h \in Hosts :
        At(h, "poll") /\ daemon[host[h].child].state = "serving" => Answers(host[h].token)
=============================================================================
