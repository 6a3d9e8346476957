------------------------- MODULE SpawnOrAdoptProofs -------------------------
(***************************************************************************)
(* Proofs about SpawnOrAdopt, for any number of windows and daemons, any   *)
(* mix of builds and whatever an earlier life left in the run directory.   *)
(*                                                                         *)
(* Nothing serialises the hosts, and with two of them opening at once, or  *)
(* a child left behind while it starts up, hardly anything holds (the runs *)
(* SpawnOrAdoptRace and SpawnOrAdoptMode).  What is proved is that these   *)
(* are the only ways to get there: calm is the history variable that says  *)
(* none of them has happened yet.                                          *)
(***************************************************************************)
EXTENDS SpawnOrAdopt, FiniteSetTheorems, TLAPS

-----------------------------------------------------------------------------
(***************************************************************************)
(* The inductive invariant.  Two parts hold always: an open has a mode,    *)
(* and the opens that are still to start a daemon fit into the bound.  The *)
(* rest holds while it is calm: who is at which place of spawn_or_adopt    *)
(* determines which daemon may be alive, and what the run directory says   *)
(* of it.                                                                  *)
(***************************************************************************)
Looking  == {"sock", "pid", "token", "hello", "meta"}
Clearing == {"unlink", "clear", "write", "spawn"}
Waiting  == {"poll", "record"}
Early    == (Looking \cup Clearing) \ {"spawn"}

Shape == \A h \in Hosts : Opening(h) => host[h].mode \in Modes

\* The opens that have not taken a daemon's number yet.
ToStart == {h \in Hosts : host[h].pc \in Early}
Budget  == spawned + Cardinality(ToStart) <= MaxDaemons

\* One open at a time.
OneOpen == \A g, h \in Hosts : Opening(g) /\ Opening(h) => g = h

\* A number is taken before its daemon is born, a session is about daemons that
\* were, and shows the mode of one that is alive.
Born(d) == d # None /\ daemon[d].state # "unborn"
Memory ==
    /\ \A d \in Daemons : d > spawned => ~Born(d)
    /\ \A h \in Hosts :
         /\ session[h].child = None \/ Born(session[h].child)
         /\ session[h].server = None \/ Born(session[h].server)
         /\ session[h].open => ModeRight(session[h])

NobodyAlive == \A d \in Daemons : ~Alive(d)

\* Who is alive serves, and the run directory is about it.
Settled(d) ==
    /\ daemon[d].state = "serving"
    /\ sock = d /\ pidFile = d
    /\ token = daemon[d].needs
    /\ meta = daemon[d].mode
AllSettled == \A d \in Daemons : Alive(d) => Settled(d)

\* A child will come up on its host's token, and be found on the socket.
Launched(h, d) ==
    /\ d = host[h].child
    /\ token = d /\ host[h].token = d
    /\ daemon[d].mode = host[h].mode
    /\ daemon[d].needs \in {None, d}
    /\ daemon[d].state = "serving" => sock = d /\ daemon[d].needs = d

\* What a host's place in spawn_or_adopt says of the daemons: while it looks for
\* one to adopt, who is alive can be adopted; once it has given that up nobody
\* is alive; while it waits for its child, only that can be.
Place(h) ==
    /\ host[h].pc \in Looking => AllSettled
    /\ At(h, "hello") => \A d \in Daemons : Alive(d) => host[h].token = daemon[d].needs
    /\ At(h, "meta") => Born(host[h].server)
    /\ host[h].pc \in Clearing => NobodyAlive
    /\ At(h, "spawn") => /\ host[h].child \in Daemons /\ ~Born(host[h].child)
                         /\ host[h].child <= spawned
                         /\ host[h].token = host[h].child
                         /\ token = host[h].child
    /\ host[h].pc \in Waiting => /\ Born(host[h].child)
                                 /\ \A d \in Daemons : Alive(d) => Launched(h, d)
    /\ At(h, "record") => /\ host[h].server = host[h].child
                          /\ \A d \in Daemons : Alive(d) => daemon[d].state = "serving"

Orderly == /\ OneOpen /\ Memory
           /\ \A h \in Hosts : Opening(h) => Place(h)
           /\ (\A h \in Hosts : ~Opening(h)) => AllSettled

IInv == TypeOK /\ Shape /\ Budget /\ (calm => Orderly)

LEMMA InitInv == Init => IInv
  <1> SUFFICES ASSUME Init PROVE IInv OBVIOUS
  <1> USE SupervisorConstants
  <1>1. /\ spawned \in Files /\ spawned \in 0..1 /\ token \in Files /\ sock \in Files
        /\ pidFile \in Files /\ meta \in Modes \cup {None} /\ calm \in BOOLEAN
        /\ major \in Builds
    BY DEF Init, Files
  <1>2. /\ daemon \in [Daemons -> [state : {"unborn", "booting", "serving", "dead"},
                                   major : Nat, mode : Modes \cup {None}, needs : Files]]
        /\ \A d \in Daemons : daemon[d].state = IF d <= spawned THEN "dead" ELSE "unborn"
    BY DEF Init, NoDaemon, Files, None
  <1>3. /\ host \in [Hosts -> [pc : Pcs, mode : Modes \cup {None}, token : Files,
                               child : Files, server : Files]]
        /\ \A h \in Hosts : host[h] = Idle /\ host[h].pc = "idle"
    BY DEF Init, Idle, Pcs, Files, None
  <1>4. /\ session \in [Hosts -> [open : BOOLEAN, child : Files, server : Files,
                                  mode : Modes \cup {Unknown}]]
        /\ \A h \in Hosts : /\ session[h].open = FALSE
                            /\ session[h].child = None /\ session[h].server = None
    BY DEF Init, NoSession, Files, None
  <1>5. TypeOK
    BY <1>1, <1>2, <1>3, <1>4 DEF TypeOK
  <1>6. Shape
    BY <1>3 DEF Shape, Opening
  <1>7. Budget
    <2>1. ToStart = {} BY <1>3 DEF ToStart, Early, Looking, Clearing
    <2>2. Cardinality(ToStart) = 0 BY <2>1, FS_EmptySet
    <2>3. QED BY <1>1, <2>2 DEF Budget, Files
  <1>8. Orderly
    <2>1. NobodyAlive BY <1>2 DEF NobodyAlive, Alive
    <2>2. Memory BY <1>1, <1>2, <1>4 DEF Memory, Born, Daemons
    <2>3. \A h \in Hosts : ~Opening(h) BY <1>3 DEF Opening
    <2>4. AllSettled BY <2>1 DEF AllSettled, NobodyAlive
    <2>5. QED BY <2>2, <2>3, <2>4 DEF Orderly, OneOpen
  <1>9. QED BY <1>5, <1>6, <1>7, <1>8 DEF IInv

-----------------------------------------------------------------------------
(***************************************************************************)
(* Types, modes and the bound.                                             *)
(***************************************************************************)
HostRecs == [pc : Pcs, mode : Modes \cup {None}, token : Files, child : Files,
             server : Files]

\* A host that moves on within its open.
LEMMA Moves ==
    ASSUME TypeOK, Shape, Budget, NEW h \in Hosts, NEW r \in HostRecs,
           host' = [host EXCEPT ![h] = r],
           r.pc # "idle" => r.mode \in Modes,
           r.pc \in Early => host[h].pc \in Early,
           spawned' = spawned
    PROVE  /\ host' \in [Hosts -> HostRecs] /\ Shape' /\ Budget'
  <1>1. host \in [Hosts -> HostRecs] /\ spawned \in Nat
    BY SupervisorConstants DEF TypeOK, HostRecs, Files
  <1>2. \A g \in Hosts : host'[g] = IF g = h THEN r ELSE host[g]
    BY <1>1
  <1>3. ToStart' \subseteq ToStart
    BY <1>2 DEF ToStart
  <1>4. /\ IsFiniteSet(ToStart) /\ Cardinality(ToStart') \in Nat
        /\ Cardinality(ToStart) \in Nat /\ Cardinality(ToStart') <= Cardinality(ToStart)
    <2>1. IsFiniteSet(ToStart)
      BY SupervisorConstants, FS_Subset DEF ToStart
    <2>2. IsFiniteSet(ToStart')
      BY <1>3, <2>1, FS_Subset
    <2>3. QED BY <1>3, <2>1, <2>2, FS_Subset, FS_CardinalityType
  <1>5. Budget'
    BY <1>1, <1>4, SupervisorConstants DEF Budget
  <1>6. QED BY <1>1, <1>2, <1>5 DEF Shape, Opening

\* A host that starts to open fits, if MayStart says so.
LEMMA Starts ==
    ASSUME TypeOK, Shape, Budget, NEW h \in Hosts, NEW r \in HostRecs, MayStart,
           At(h, "idle"), host' = [host EXCEPT ![h] = r],
           r.mode \in Modes, spawned' = spawned
    PROVE  /\ host' \in [Hosts -> HostRecs] /\ Shape' /\ Budget'
  <1>1. host \in [Hosts -> HostRecs] /\ spawned \in Nat
    BY SupervisorConstants DEF TypeOK, HostRecs, Files
  <1>2. \A g \in Hosts : host'[g] = IF g = h THEN r ELSE host[g]
    BY <1>1
  <1> DEFINE Openers == {g \in Hosts : Opening(g)}
  <1>3. ToStart' \subseteq Openers \cup {h}
    BY <1>2 DEF ToStart, Opening, Early, Looking, Clearing
  <1>4. IsFiniteSet(Openers) /\ IsFiniteSet(Openers \cup {h}) /\ IsFiniteSet(ToStart')
    <2>1. IsFiniteSet(Openers)
      BY SupervisorConstants, FS_Subset
    <2>2. IsFiniteSet(Openers \cup {h}) BY <2>1, FS_AddElement
    <2>3. QED BY <1>3, <2>1, <2>2, FS_Subset
  <1>5. Cardinality(Openers \cup {h}) <= Cardinality(Openers) + 1
        /\ Cardinality(Openers) \in Nat
    <2>1. Cardinality(Openers \cup {h}) = IF h \in Openers THEN Cardinality(Openers)
                                          ELSE Cardinality(Openers) + 1
      BY <1>4, FS_AddElement
    <2>2. Cardinality(Openers) \in Nat
      BY <1>4, FS_CardinalityType
    <2> HIDE DEF Openers
    <2>3. QED BY <2>1, <2>2
  <1>6. Cardinality(ToStart') <= Cardinality(Openers \cup {h})
        /\ Cardinality(ToStart') \in Nat /\ Cardinality(Openers \cup {h}) \in Nat
    BY <1>3, <1>4, FS_Subset, FS_CardinalityType
  <1>7. spawned + Cardinality(Openers) < MaxDaemons
    BY DEF MayStart
  <1>8. Budget'
    BY <1>1, <1>5, <1>6, <1>7, SupervisorConstants DEF Budget
  <1>9. QED BY <1>1, <1>2, <1>8 DEF Shape, Opening

\* The bound leaves a number for everyone who is to take one.
LEMMA Numbered ==
    ASSUME TypeOK, Shape, Budget, NEW h \in Hosts, WriteToken(h)
    PROVE  /\ host' \in [Hosts -> HostRecs] /\ Shape' /\ Budget'
           /\ spawned' \in Daemons /\ spawned' = spawned + 1
  <1>1. host \in [Hosts -> HostRecs] /\ spawned \in Nat /\ spawned' = spawned + 1
    BY SupervisorConstants DEF TypeOK, HostRecs, Files, WriteToken
  <1>2. h \in ToStart /\ IsFiniteSet(ToStart)
    BY SupervisorConstants, FS_Subset
       DEF ToStart, Early, Looking, Clearing, WriteToken, At
  <1>3. Cardinality(ToStart \ {h}) = Cardinality(ToStart) - 1
        /\ Cardinality(ToStart) \in Nat /\ Cardinality(ToStart \ {h}) \in Nat
    <2>1. IsFiniteSet(ToStart \ {h}) BY <1>2, FS_RemoveElement
    <2>2. QED BY <1>2, <2>1, FS_RemoveElement, FS_CardinalityType
  <1>4. spawned' \in Daemons
    BY <1>1, <1>3, SupervisorConstants DEF Budget, Daemons
  <1>5. host' = [host EXCEPT ![h].pc = "spawn", ![h].token = spawned',
                             ![h].child = spawned']
    BY DEF WriteToken
  <1>6. host' \in [Hosts -> HostRecs]
    <2>1. host[h] \in HostRecs /\ spawned' \in Files BY <1>1, <1>4 DEF Daemons, Files
    <2>2. [host[h] EXCEPT !.pc = "spawn", !.token = spawned', !.child = spawned'] \in HostRecs
      BY <2>1 DEF HostRecs, Pcs
    <2>3. host' = [host EXCEPT ![h] = [host[h] EXCEPT !.pc = "spawn", !.token = spawned',
                                                      !.child = spawned']]
      BY <1>1, <1>5
    <2>4. QED BY <1>1, <2>2, <2>3
  <1>7. \A g \in Hosts : g # h => host'[g] = host[g]
    BY <1>1, <1>5
  <1>8. host'[h].pc = "spawn" /\ host'[h].mode = host[h].mode
    BY <1>1, <1>5 DEF HostRecs
  <1>9. ToStart' = ToStart \ {h}
    BY <1>7, <1>8 DEF ToStart, Early, Looking, Clearing
  <1>10. Budget'
    BY <1>1, <1>3, <1>9, SupervisorConstants DEF Budget
  <1>11. Shape'
    BY <1>7, <1>8 DEF Shape, Opening, WriteToken, At
  <1>12. QED BY <1>1, <1>4, <1>6, <1>10, <1>11

-----------------------------------------------------------------------------
(***************************************************************************)
(* Order: one lemma per action.                                            *)
(***************************************************************************)
\* A step of the one host that opens.
LEMMA StaysOrderly ==
    ASSUME NEW h \in Hosts, \A g \in Hosts \ {h} : host'[g].pc = "idle", Memory',
           IF host'[h].pc = "idle" THEN AllSettled' ELSE Place(h)'
    PROVE  Orderly'
  BY DEF Orderly, OneOpen, Opening

\* The others are idle, and what this one's place says holds.
LEMMA Alone ==
    ASSUME TypeOK, Orderly, NEW h \in Hosts, Opening(h), NEW r \in HostRecs,
           host' = [host EXCEPT ![h] = r]
    PROVE  /\ \A g \in Hosts \ {h} : host'[g].pc = "idle"
           /\ host'[h] = r
           /\ Memory /\ Place(h)
  BY DEF TypeOK, Orderly, OneOpen, Opening, HostRecs

\* What TypeOK says of one host.
LEMMA HostIs ==
    ASSUME TypeOK, Shape, NEW h \in Hosts
    PROVE  /\ host \in [Hosts -> HostRecs] /\ host[h] \in HostRecs
           /\ host[h].pc \in Pcs /\ host[h].mode \in Modes \cup {None}
           /\ host[h].token \in Files /\ host[h].child \in Files
           /\ host[h].server \in Files
           /\ Opening(h) => host[h].mode \in Modes
  BY DEF TypeOK, HostRecs, Shape

\* What is remembered stays, as long as no daemon is reborn or changes its mode
\* and no session but an empty one is new.
LEMMA MemoryOf ==
    ASSUME TypeOK, Memory,
           \A g \in Hosts : session'[g] \in {session[g], NoSession},
           \A d \in Daemons : d > spawned' => daemon'[d].state = "unborn",
           \A d \in Daemons : Born(d) =>
             /\ Born(d)'
             /\ Alive(d)' => Alive(d) /\ daemon'[d].mode = daemon[d].mode
    PROVE  Memory'
  <1>1. /\ NoSession.open = FALSE /\ NoSession.child = None /\ NoSession.server = None
    BY DEF NoSession
  <1>2. \A d \in Daemons : d > spawned' => ~Born(d)'
    BY DEF Born
  <1>3. ASSUME NEW g \in Hosts
        PROVE  /\ session'[g].child = None \/ Born(session[g].child)'
               /\ session'[g].server = None \/ Born(session[g].server)'
               /\ session'[g].open => ModeRight(session[g])'
    <2>1. CASE session'[g] = NoSession
      BY <1>1, <2>1 DEF Born, ModeRight
    <2>2. CASE session'[g] = session[g]
      <3>1. /\ session[g].child = None \/ Born(session[g].child)
            /\ session[g].server = None \/ Born(session[g].server)
            /\ session[g].open => ModeRight(session[g])
        BY DEF Memory
      <3>2. PICK c \in Files, f \in Files : c = session[g].child /\ f = session[g].server
        BY DEF TypeOK
      <3>3. (c # None => c \in Daemons) /\ (f # None => f \in Daemons)
        BY DEF Files, Daemons, None
      <3>4. /\ c # None => Born(c)'
            /\ f # None => /\ Born(f)'
                           /\ Alive(f)' => Alive(f) /\ daemon'[f].mode = daemon[f].mode
        BY <3>1, <3>2, <3>3
      <3>5. session'[g].child = c /\ session'[g].server = f
            /\ session'[g].mode = session[g].mode /\ session'[g].open = session[g].open
        BY <2>2, <3>2
      <3>6. session'[g].open => ModeRight(session[g])'
        <4>1. SUFFICES ASSUME session[g].open, Alive(f)', f # None
                       PROVE  session[g].mode # Unknown => session[g].mode = daemon'[f].mode
          BY <3>5 DEF ModeRight, Alive
        <4>2. Alive(f) /\ daemon'[f].mode = daemon[f].mode BY <3>4, <4>1
        <4>3. QED BY <3>1, <3>2, <4>1, <4>2 DEF ModeRight
      <3>7. QED BY <3>4, <3>5, <3>6 DEF Born
    <2>3. QED BY <2>1, <2>2
  <1>4. QED BY <1>2, <1>3 DEF Memory

\* Nothing but the host's own place changes.
LEMMA MemoryKept ==
    ASSUME Memory, UNCHANGED <<daemon, spawned, session>>
    PROVE  Memory'
  BY DEF Memory, Born, ModeRight, Alive

\* While it looks for a daemon, a host changes nothing; it gives up only if there
\* is none it could adopt, and finds one that lives.
LEMMA LookingSteps ==
    ASSUME IInv, NEW h \in Hosts,
           CheckSocket(h) \/ CheckPid(h) \/ ReadToken(h) \/ Hello(h)
    PROVE  IInv'
  <1>1. /\ TypeOK /\ Shape /\ Budget
        /\ UNCHANGED <<major, runDir, daemon, spawned, session>>
        /\ Opening(h) /\ host[h].pc \in Looking
        /\ calm' \in BOOLEAN /\ (calm' => calm)
    <2>1. UNCHANGED <<major, runDir, daemon, spawned, session>>
      BY DEF CheckSocket, CheckPid, ReadToken, Hello
    <2>2. host[h].pc \in Looking /\ host[h].pc # "idle"
      BY DEF CheckSocket, CheckPid, ReadToken, Hello, At, Looking
    <2>3. calm' \in BOOLEAN /\ (calm' => calm)
      <3>1. calm \in BOOLEAN BY DEF IInv, TypeOK
      <3>2. calm' = calm \/ calm' = (calm /\ (Answers(host[h].token) => SameMajor(h)))
        BY DEF CheckSocket, CheckPid, ReadToken, Hello
      <3>3. (calm /\ (Answers(host[h].token) => SameMajor(h))) \in BOOLEAN
        BY Zenon
      <3>4. CASE calm' = calm
        BY <3>1, <3>4, Zenon
      <3>5. CASE calm' = (calm /\ (Answers(host[h].token) => SameMajor(h)))
        <4>1. calm' => calm BY <3>5, Zenon
        <4>2. QED BY <3>3, <3>5, <4>1, Zenon
      <3>6. QED BY <3>2, <3>4, <3>5
    <2>4. QED BY <2>1, <2>2, <2>3 DEF IInv, Opening
  <1>2. /\ host \in [Hosts -> HostRecs] /\ host[h] \in HostRecs
        /\ host[h].mode \in Modes
    BY <1>1, HostIs
  <1>3. PICK r \in HostRecs :
          /\ host' = [host EXCEPT ![h] = r] /\ r.mode = host[h].mode
          /\ r.pc \in {"pid", "token", "hello", "meta", "clear"}
          /\ calm' /\ r.pc = "clear" /\ AllSettled /\ Place(h) => NobodyAlive
          /\ r.pc = "hello" => r.token = token
          /\ r.pc = "meta" => Born(r.server)
    <2>1. CASE CheckSocket(h)
      <3> DEFINE r == [host[h] EXCEPT !.pc = IF sock = None THEN "clear" ELSE "pid"]
      <3>1. host' = [host EXCEPT ![h] = r]
        BY <1>2, <2>1 DEF CheckSocket, GoTo
      <3>2. r \in HostRecs /\ r.mode = host[h].mode
            /\ r.pc = (IF sock = None THEN "clear" ELSE "pid")
        BY <1>2 DEF HostRecs, Pcs
      <3> HIDE DEF r
      <3>3. r.pc = "clear" /\ AllSettled => NobodyAlive
        BY <3>2 DEF AllSettled, NobodyAlive, Settled, None, Daemons
      <3>4. QED BY <3>1, <3>2, <3>3
    <2>2. CASE CheckPid(h)
      <3>1. PICK pc \in {"token", "clear"} :
              /\ GoTo(h, pc)
              /\ pc = "clear" => pidFile # None /\ ~Alive(pidFile)
        BY <2>2 DEF CheckPid
      <3> DEFINE r == [host[h] EXCEPT !.pc = pc]
      <3>2. host' = [host EXCEPT ![h] = r]
        BY <1>2, <3>1 DEF GoTo
      <3>3. r \in HostRecs /\ r.mode = host[h].mode /\ r.pc = pc
        BY <1>2, <3>1 DEF HostRecs, Pcs
      <3> HIDE DEF r
      <3>4. r.pc = "clear" /\ AllSettled => NobodyAlive
        BY <3>1, <3>3 DEF AllSettled, NobodyAlive, Settled
      <3>5. QED BY <3>1, <3>2, <3>3, <3>4
    <2>3. CASE ReadToken(h)
      <3> DEFINE r == [host[h] EXCEPT !.pc = "hello", !.token = token]
      <3>1. host' = [host EXCEPT ![h] = r]
        BY <1>2, <2>3 DEF ReadToken
      <3>2. r \in HostRecs /\ r.mode = host[h].mode /\ r.pc = "hello" /\ r.token = token
        BY <1>1, <1>2 DEF HostRecs, Pcs, TypeOK
      <3> HIDE DEF r
      <3>3. QED BY <3>1, <3>2
    <2>4. CASE Hello(h) /\ Answers(host[h].token) /\ SameMajor(h)
      <3> DEFINE r == [host[h] EXCEPT !.pc = "meta", !.server = sock]
      <3>1. host' = [host EXCEPT ![h] = r]
        BY <1>2, <2>4 DEF Hello
      <3>2. r \in HostRecs /\ r.mode = host[h].mode /\ r.pc = "meta" /\ r.server = sock
        BY <1>1, <1>2 DEF HostRecs, Pcs, TypeOK
      <3> HIDE DEF r
      <3>3. Born(sock) BY <2>4 DEF Answers, Born
      <3>4. QED BY <3>1, <3>2, <3>3
    <2>5. CASE Hello(h) /\ ~(Answers(host[h].token) /\ SameMajor(h))
      <3> DEFINE r == [host[h] EXCEPT !.pc = "clear"]
      <3>1. host' = [host EXCEPT ![h] = r]
        BY <1>2, <2>5 DEF Hello, GoTo
      <3>2. r \in HostRecs /\ r.mode = host[h].mode /\ r.pc = "clear"
        BY <1>2 DEF HostRecs, Pcs
      <3> HIDE DEF r
      <3>3. At(h, "hello") /\ (calm' => ~Answers(host[h].token))
        BY <2>5 DEF Hello
      <3>4. calm' /\ AllSettled /\ Place(h) => NobodyAlive
        BY <3>3 DEF AllSettled, NobodyAlive, Settled, Place, Answers, None, Daemons
      <3>5. QED BY <3>1, <3>2, <3>4
    <2>6. QED BY <2>1, <2>2, <2>3, <2>4, <2>5
  <1>4. host' \in [Hosts -> HostRecs] /\ Shape' /\ Budget'
    BY <1>1, <1>2, <1>3, Moves DEF Early, Looking, Clearing
  <1>5. TypeOK'
    BY <1>1, <1>4 DEF TypeOK, HostRecs, runDir
  <1>6. ASSUME calm' PROVE Orderly'
    <2>1. Orderly BY <1>1, <1>6 DEF IInv
    <2>2. /\ \A g \in Hosts \ {h} : host'[g].pc = "idle"
          /\ host'[h] = r /\ Memory /\ Place(h)
      BY <1>1, <1>3, <2>1, Alone
    <2>3. AllSettled BY <1>1, <2>2 DEF Place
    <2>4. AllSettled' BY <1>1, <2>3 DEF AllSettled, Alive, Settled, runDir
    <2>5. Place(h)'
      <3>1. \A d \in Daemons : Alive(d)' => Alive(d) /\ token = daemon'[d].needs
        BY <1>1, <2>3 DEF Alive, AllSettled, Settled
      <3>2. r.pc = "clear" => NobodyAlive'
        BY <1>1, <1>3, <1>6, <2>2, <2>3 DEF NobodyAlive, Alive
      <3>3. r.pc = "meta" => Born(r.server)'
        BY <1>1, <1>3, <1>6 DEF Born
      <3>4. r.pc = "hello" => \A d \in Daemons : Alive(d)' => r.token = daemon'[d].needs
        BY <1>3, <1>6, <3>1
      <3>5. QED BY <1>3, <2>2, <2>4, <3>2, <3>3, <3>4
                DEF Place, At, Looking, Clearing, Waiting
    <2>6. Memory' BY <1>1, <2>2, MemoryKept
    <2>7. QED BY <1>3, <2>2, <2>5, <2>6, StaysOrderly
  <1>7. QED BY <1>4, <1>5, <1>6 DEF IInv

\* The adopted session shows what meta.json says, and that is about its daemon.
LEMMA AdoptStep ==
    ASSUME IInv, NEW h \in Hosts, Adopt(h)
    PROVE  IInv'
  <1> DEFINE shown == IF meta = None THEN Unknown ELSE meta
             s == [open |-> TRUE, child |-> None, server |-> host[h].server, mode |-> shown]
  <1>1. /\ TypeOK /\ Shape /\ Budget
        /\ UNCHANGED <<major, runDir, daemon, spawned, calm>>
        /\ At(h, "meta") /\ Opening(h)
        /\ host' = [host EXCEPT ![h] = Idle] /\ session' = [session EXCEPT ![h] = s]
    BY DEF IInv, Adopt, At, Opening
  <1>2. Idle \in HostRecs /\ Idle.pc = "idle"
    BY SupervisorConstants DEF Idle, HostRecs, Pcs, Files, None
  <1>3. host' \in [Hosts -> HostRecs] /\ Shape' /\ Budget'
    BY <1>1, <1>2, Moves DEF Early, Looking, Clearing
  <1>4. shown \in Modes \cup {Unknown}
    BY <1>1 DEF TypeOK
  <1>5. /\ s \in [open : BOOLEAN, child : Files, server : Files, mode : Modes \cup {Unknown}]
        /\ s.child = None /\ s.server = host[h].server /\ s.mode = shown
    BY <1>1, <1>4, HostIs, SupervisorConstants DEF Files, None
  <1> HIDE DEF s
  <1>6. TypeOK'
    BY <1>1, <1>3, <1>5 DEF TypeOK, HostRecs, runDir
  <1>7. ASSUME calm' PROVE Orderly'
    <2>1. Orderly BY <1>1, <1>7 DEF IInv
    <2>2. /\ \A g \in Hosts \ {h} : host'[g].pc = "idle"
          /\ host'[h] = Idle /\ Memory /\ Place(h)
      BY <1>1, <1>2, <2>1, Alone
    <2>3. AllSettled /\ Born(host[h].server)
      BY <1>1, <2>2 DEF Place, At, Looking
    <2>4. AllSettled' BY <1>1, <2>3 DEF AllSettled, Alive, Settled, runDir
    <2>5. ModeRight(s)
      <3>1. host[h].server \in Daemons
        BY <1>1, <2>3, HostIs DEF Born, Files, Daemons, None
      <3>2. Alive(host[h].server) => meta = daemon[host[h].server].mode
        BY <2>3, <3>1 DEF AllSettled, Settled
      <3>3. QED BY <1>5, <3>2 DEF ModeRight
    <2>6. Memory'
      <3>1. \A g \in Hosts : session'[g] = IF g = h THEN s ELSE session[g]
        BY <1>1 DEF TypeOK
      <3>2. QED BY <1>1, <1>5, <2>2, <2>3, <2>5, <3>1 DEF Memory, Born, ModeRight, Alive
    <2>7. QED BY <1>2, <2>2, <2>4, <2>6, StaysOrderly
  <1>8. QED BY <1>3, <1>6, <1>7 DEF IInv

\* Nobody is alive when the socket is cleared and the token written.
LEMMA ClearingSteps ==
    ASSUME IInv, NEW h \in Hosts, ClearSocket(h) \/ Unlink(h)
    PROVE  IInv'
  <1>1. /\ TypeOK /\ Shape /\ Budget
        /\ UNCHANGED <<major, meta, daemon, spawned, session, calm>>
        /\ Opening(h) /\ host[h].pc \in Clearing
        /\ sock' \in Files /\ pidFile' \in Files /\ token' \in Files
    BY SupervisorConstants
       DEF IInv, TypeOK, ClearSocket, Unlink, Opening, Clearing, At, Files, None
  <1>2. /\ host \in [Hosts -> HostRecs] /\ host[h] \in HostRecs
        /\ host[h].mode \in Modes
    BY <1>1, HostIs
  <1>3. PICK r \in HostRecs :
          /\ host' = [host EXCEPT ![h] = r] /\ r.mode = host[h].mode
          /\ r.pc \in {"write", "sock"}
    <2>1. PICK pc \in {"write", "sock"} : host' = [host EXCEPT ![h].pc = pc]
      BY DEF ClearSocket, Unlink, GoTo
    <2> DEFINE r == [host[h] EXCEPT !.pc = pc]
    <2>2. host' = [host EXCEPT ![h] = r]
      BY <1>2, <2>1
    <2>3. r \in HostRecs /\ r.mode = host[h].mode /\ r.pc = pc
      BY <1>2, <2>1 DEF HostRecs, Pcs
    <2> HIDE DEF r
    <2>4. QED BY <2>1, <2>2, <2>3
  <1>4. host[h].pc \in Early
    BY DEF ClearSocket, Unlink, At, Early, Looking, Clearing
  <1>5. host' \in [Hosts -> HostRecs] /\ Shape' /\ Budget'
    BY <1>1, <1>2, <1>3, <1>4, Moves
  <1>6. TypeOK'
    BY <1>1, <1>5 DEF TypeOK, HostRecs
  <1>7. ASSUME calm' PROVE Orderly'
    <2>1. Orderly BY <1>1, <1>7 DEF IInv
    <2>2. /\ \A g \in Hosts \ {h} : host'[g].pc = "idle"
          /\ host'[h] = r /\ Memory /\ Place(h)
      BY <1>1, <1>3, <2>1, Alone
    <2>3. NobodyAlive' BY <1>1, <2>2 DEF Place, NobodyAlive, Alive
    <2>4. Place(h)'
      BY <1>3, <2>2, <2>3
         DEF Place, At, Looking, Clearing, Waiting, AllSettled, NobodyAlive
    <2>5. Memory' BY <1>1, <2>2, MemoryKept
    <2>6. QED BY <1>3, <2>2, <2>4, <2>5, StaysOrderly
  <1>8. QED BY <1>5, <1>6, <1>7 DEF IInv

\* A fresh number: its daemon is not born, and the token is its.
LEMMA WriteTokenStep ==
    ASSUME IInv, NEW h \in Hosts, WriteToken(h)
    PROVE  IInv'
  <1>1. /\ TypeOK /\ Shape /\ Budget /\ Opening(h) /\ At(h, "write")
        /\ token' = spawned'
        /\ host' = [host EXCEPT ![h].pc = "spawn", ![h].token = spawned',
                                ![h].child = spawned']
        /\ UNCHANGED <<major, sock, pidFile, meta, daemon, session, calm>>
    BY DEF IInv, WriteToken, Opening, At
  <1>2. /\ host' \in [Hosts -> HostRecs] /\ Shape' /\ Budget'
        /\ spawned' \in Daemons /\ spawned' = spawned + 1
    BY <1>1, Numbered
  <1>3. spawned' \in Files /\ spawned \in Nat /\ spawned' # None
    BY <1>1, <1>2, SupervisorConstants DEF Daemons, Files, TypeOK, None
  <1>4. TypeOK'
    BY <1>1, <1>2, <1>3 DEF TypeOK, HostRecs
  <1>5. ASSUME calm' PROVE Orderly'
    <2> DEFINE r == [host[h] EXCEPT !.pc = "spawn", !.token = spawned', !.child = spawned']
    <2>1. Orderly /\ host \in [Hosts -> HostRecs] /\ host[h] \in HostRecs
      BY <1>1, <1>5, HostIs DEF IInv
    <2>2. host' = [host EXCEPT ![h] = r] /\ host'[h] = r
      BY <1>1, <2>1
    <2>3. r \in HostRecs /\ r.pc = "spawn" /\ r.token = spawned' /\ r.child = spawned'
      BY <1>3, <2>1 DEF HostRecs, Pcs
    <2> HIDE DEF r
    <2>4. (\A g \in Hosts \ {h} : host'[g].pc = "idle") /\ Memory /\ Place(h)
      BY <1>1, <2>1, <2>2, <2>3, Alone
    <2>5. NobodyAlive' BY <1>1, <2>4 DEF Place, NobodyAlive, Alive, At, Clearing
    <2>6. Memory'
      <3>1. \A d \in Daemons : d > spawned' => d > spawned
        BY <1>2, <1>3 DEF Daemons
      <3>2. QED BY <1>1, <2>4, <3>1 DEF Memory, Born, ModeRight, Alive
    <2>7. daemon'[spawned'].state = "unborn"
      <3>1. spawned' > spawned BY <1>2, <1>3
      <3>2. ~Born(spawned') BY <1>2, <2>4, <3>1 DEF Memory
      <3>3. QED BY <1>1, <1>3, <3>2 DEF Born
    <2>8. Place(h)'
      <3>1. spawned' <= spawned' BY <1>3, <1>2
      <3>2. QED BY <1>1, <1>2, <2>2, <2>3, <2>5, <2>7, <3>1
                DEF Place, At, Looking, Clearing, Waiting, Born
    <2>9. QED BY <2>2, <2>3, <2>4, <2>6, <2>8, StaysOrderly
  <1>6. QED BY <1>2, <1>4, <1>5 DEF IInv

DaemonRecs == [state : {"unborn", "booting", "serving", "dead"}, major : Nat,
               mode : Modes \cup {None}, needs : Files]

\* The child is born when nobody else is alive, under its host's mode.
LEMMA SpawnStep ==
    ASSUME IInv, NEW h \in Hosts, Spawn(h)
    PROVE  IInv'
  <1>0. PICK c \in Files : c = host[h].child
    BY HostIs DEF IInv
  <1> DEFINE v == [state |-> "booting", major |-> major[h], mode |-> host[h].mode,
                   needs |-> None]
             r == [host[h] EXCEPT !.pc = "poll"]
  <1>1. /\ TypeOK /\ Shape /\ Budget /\ Opening(h) /\ At(h, "spawn")
        /\ daemon' = [daemon EXCEPT ![c] = v]
        /\ host' = [host EXCEPT ![h].pc = "poll"]
        /\ UNCHANGED <<major, runDir, spawned, session, calm>>
    BY <1>0 DEF IInv, Spawn, Opening, At, GoTo
  <1>2. /\ host \in [Hosts -> HostRecs] /\ host[h] \in HostRecs /\ host[h].mode \in Modes
        /\ daemon \in [Daemons -> DaemonRecs]
    BY <1>1, HostIs DEF TypeOK, DaemonRecs
  <1>3. /\ host' = [host EXCEPT ![h] = r]
        /\ r \in HostRecs /\ r.pc = "poll" /\ r.mode = host[h].mode
        /\ r.child = c /\ r.token = host[h].token
    BY <1>0, <1>1, <1>2 DEF HostRecs, Pcs
  <1>4. major[h] \in Nat /\ None \in Files
    BY <1>1, SupervisorConstants DEF TypeOK, Files, None
  <1>5. /\ v \in DaemonRecs /\ v.state = "booting" /\ v.mode = host[h].mode /\ v.needs = None
    BY <1>2, <1>4 DEF DaemonRecs
  <1> HIDE DEF r, v
  <1>6. host' \in [Hosts -> HostRecs] /\ Shape' /\ Budget'
    BY <1>1, <1>2, <1>3, Moves DEF Early, Looking, Clearing
  <1>7. /\ daemon' \in [Daemons -> DaemonRecs]
        /\ \A d \in Daemons : daemon'[d] = IF d = c THEN v ELSE daemon[d]
    BY <1>1, <1>2, <1>5
  <1>8. TypeOK'
    BY <1>1, <1>6, <1>7 DEF TypeOK, HostRecs, DaemonRecs, runDir
  <1>9. ASSUME calm' PROVE Orderly'
    <2>1. Orderly BY <1>1, <1>9 DEF IInv
    <2>2. /\ \A g \in Hosts \ {h} : host'[g].pc = "idle"
          /\ host'[h] = r /\ Memory /\ Place(h)
      BY <1>1, <1>3, <2>1, Alone
    <2>3. /\ c \in Daemons /\ ~Born(c) /\ host[h].token = c /\ token = c /\ NobodyAlive
          /\ c <= spawned
      BY <1>0, <1>1, <2>2 DEF Place, At, Clearing
    <2>4. \A d \in Daemons : Alive(d)' => d = c
      BY <1>7, <2>3 DEF NobodyAlive, Alive
    <2>5. c # None /\ daemon'[c] = v
      BY <1>7, <2>3 DEF Daemons, None
    <2>6. Launched(h, c)'
      BY <1>1, <1>3, <1>5, <2>2, <2>3, <2>5 DEF Launched, At, runDir
    <2>7. Born(c)' BY <1>5, <2>5 DEF Born
    <2>8. Place(h)'
      <3>1. host'[h].pc = "poll" /\ host'[h].child = c BY <1>3, <2>2
      <3>2. \A d \in Daemons : Alive(d)' => Launched(h, d)'
        BY <2>4, <2>6, <3>1 DEF Launched
      <3>3. Born(host[h].child)' BY <1>5, <2>5, <3>1 DEF Born
      <3>4. QED BY <3>1, <3>2, <3>3 DEF Place, At, Looking, Clearing
    <2>9. Memory'
      <3>1. \A d \in Daemons : d > spawned => d # c
        BY <2>3, <1>1 DEF TypeOK, Files, Daemons
      <3>2. \A d \in Daemons : Born(d) => d # c
        BY <2>3
      <3>3. \A d \in Daemons : d > spawned' => daemon'[d].state = "unborn"
        BY <1>1, <1>7, <2>2, <3>1 DEF Memory, Born, Daemons, None
      <3>4. \A d \in Daemons : Born(d) => daemon'[d] = daemon[d]
        BY <1>7, <3>2
      <3>5. QED BY <1>1, <2>2, <3>3, <3>4, MemoryOf DEF Born, Alive
    <2>10. QED BY <1>3, <2>2, <2>8, <2>9, StaysOrderly
  <1>10. QED BY <1>6, <1>8, <1>9 DEF IInv

\* An open that ends without a session, by an error or with its window: unless
\* it leaves a live child behind, who is alive has settled.
LEMMA LeavingSteps ==
    ASSUME IInv, NEW h \in Hosts,
           SpawnFails(h) \/ PollMismatch(h) \/ PollTimeout(h) \/ CloseWindow(h)
    PROVE  IInv'
  <1>1. /\ TypeOK /\ Shape /\ Budget
        /\ UNCHANGED <<major, runDir, daemon, spawned>>
        /\ host' = [host EXCEPT ![h] = Idle]
        /\ session' = session \/ session' = [session EXCEPT ![h] = NoSession]
    BY DEF IInv, SpawnFails, PollMismatch, PollTimeout, Fails, CloseWindow
  <1>2. calm' \in BOOLEAN /\ (calm' => calm)
        /\ (calm' => ~(host[h].pc \in Waiting /\ Alive(host[h].child)))
    <2>1. calm \in BOOLEAN BY DEF IInv, TypeOK
    <2>2. CASE SpawnFails(h)
      BY <2>1, <2>2 DEF SpawnFails, At, Waiting
    <2>3. CASE PollMismatch(h) \/ PollTimeout(h)
      <3>1. calm' = (calm /\ ~Alive(host[h].child))
        BY <2>3 DEF PollMismatch, PollTimeout
      <3>2. QED BY <3>1, Zenon
    <2>4. CASE CloseWindow(h)
      <3>1. calm' = (calm /\ ~(host[h].pc \in {"poll", "record"} /\ Alive(host[h].child)))
        BY <2>4 DEF CloseWindow
      <3>2. QED BY <3>1, Zenon DEF Waiting
    <2>5. QED BY <2>2, <2>3, <2>4
  <1>3. Idle \in HostRecs /\ Idle.pc = "idle"
    BY SupervisorConstants DEF Idle, HostRecs, Pcs, Files, None
  <1>4. host' \in [Hosts -> HostRecs] /\ Shape' /\ Budget'
    BY <1>1, <1>3, Moves DEF Early, Looking, Clearing
  <1>5. /\ session' \in [Hosts -> [open : BOOLEAN, child : Files, server : Files,
                                   mode : Modes \cup {Unknown}]]
        /\ \A g \in Hosts : session'[g] \in {session[g], NoSession}
    <2>1. NoSession \in [open : BOOLEAN, child : Files, server : Files,
                         mode : Modes \cup {Unknown}]
      BY SupervisorConstants DEF NoSession, Files, None
    <2>2. QED BY <1>1, <2>1 DEF TypeOK
  <1>6. TypeOK'
    BY <1>1, <1>2, <1>4, <1>5 DEF TypeOK, HostRecs, runDir
  <1>7. ASSUME calm' PROVE Orderly'
    <2>1. Orderly BY <1>2, <1>7 DEF IInv
    <2>2. Memory'
      <3>1. Memory BY <2>1 DEF Orderly
      <3>2. \A d \in Daemons : d > spawned' => daemon'[d].state = "unborn"
        BY <1>1, <3>1 DEF Memory, Born, Daemons, None
      <3>3. QED BY <1>1, <1>5, <3>1, <3>2, MemoryOf DEF Born, Alive
    <2>3. CASE Opening(h)
      <3>1. /\ \A g \in Hosts \ {h} : host'[g].pc = "idle"
            /\ host'[h] = Idle /\ Memory /\ Place(h)
        BY <1>1, <1>3, <2>1, <2>3, Alone
      <3>2. AllSettled
        <4>1. host[h].pc \in Looking \/ host[h].pc \in Clearing \/ host[h].pc \in Waiting
          BY <1>1, <2>3, HostIs DEF Opening, Pcs, Looking, Clearing, Waiting
        <4>2. CASE host[h].pc \in Waiting
          <5>1. ~Alive(host[h].child) BY <1>2, <1>7, <4>2
          <5>2. QED BY <3>1, <4>2, <5>1 DEF Place, Launched, AllSettled
        <4>3. QED BY <3>1, <4>1, <4>2 DEF Place, AllSettled, NobodyAlive
      <3>3. AllSettled' BY <1>1, <3>2 DEF AllSettled, Alive, Settled, runDir
      <3>4. QED BY <1>3, <2>2, <3>1, <3>3, StaysOrderly
    <2>4. CASE ~Opening(h)
      <3>1. \A g \in Hosts : /\ host'[g].pc = host[g].pc
                             /\ Opening(g) => host'[g] = host[g]
        BY <1>1, <1>3, <2>4 DEF TypeOK, Opening
      <3>2. OneOpen' BY <2>1, <3>1 DEF Orderly, OneOpen, Opening
      <3>3. ASSUME NEW g \in Hosts, Opening(g)' PROVE Place(g)'
        <4>1. Opening(g) /\ host'[g] = host[g] BY <3>1, <3>3 DEF Opening
        <4>2. Place(g) BY <2>1, <4>1 DEF Orderly
        <4>3. QED BY <1>1, <4>1, <4>2 DEF Place, At, AllSettled, NobodyAlive, Settled,
                                          Launched, Born, Alive, runDir
      <3>4. (\A g \in Hosts : ~Opening(g)') => AllSettled'
        <4>1. (\A g \in Hosts : ~Opening(g)') => AllSettled
          BY <2>1, <3>1 DEF Orderly, Opening
        <4>2. QED BY <1>1, <4>1 DEF AllSettled, Settled, Alive, runDir
      <3>5. QED BY <2>2, <3>2, <3>3, <3>4 DEF Orderly
    <2>5. QED BY <2>3, <2>4
  <1>8. QED BY <1>4, <1>6, <1>7 DEF IInv

\* Whoever answers the token a host waits with is its child.
LEMMA PollOkStep ==
    ASSUME IInv, NEW h \in Hosts, PollOk(h)
    PROVE  IInv'
  <1> DEFINE r == [host[h] EXCEPT !.pc = "record", !.server = sock]
  <1>1. /\ TypeOK /\ Shape /\ Budget /\ Opening(h) /\ At(h, "poll")
        /\ Answers(host[h].token)
        /\ host' = [host EXCEPT ![h].pc = "record", ![h].server = sock]
        /\ UNCHANGED <<major, runDir, daemon, spawned, session, calm>>
    BY DEF IInv, PollOk, Opening, At
  <1>2. host \in [Hosts -> HostRecs] /\ host[h] \in HostRecs /\ host[h].mode \in Modes
    BY <1>1, HostIs
  <1>3. /\ host' = [host EXCEPT ![h] = r]
        /\ r \in HostRecs /\ r.pc = "record" /\ r.mode = host[h].mode
        /\ r.child = host[h].child /\ r.token = host[h].token /\ r.server = sock
    BY <1>1, <1>2 DEF HostRecs, Pcs, TypeOK
  <1> HIDE DEF r
  <1>4. host' \in [Hosts -> HostRecs] /\ Shape' /\ Budget'
    BY <1>1, <1>2, <1>3, Moves DEF Early, Looking, Clearing
  <1>5. TypeOK'
    BY <1>1, <1>4 DEF TypeOK, HostRecs, runDir
  <1>6. ASSUME calm' PROVE Orderly'
    <2>1. Orderly BY <1>1, <1>6 DEF IInv
    <2>2. /\ \A g \in Hosts \ {h} : host'[g].pc = "idle"
          /\ host'[h] = r /\ Memory /\ Place(h)
      BY <1>1, <1>3, <2>1, Alone
    <2>3. Born(host[h].child) /\ \A d \in Daemons : Alive(d) => Launched(h, d)
      BY <1>1, <2>2 DEF Place, At, Waiting
    <2>4. sock \in Daemons /\ Alive(sock) /\ daemon[sock].state = "serving"
      BY <1>1 DEF Answers, Alive, TypeOK, Files, Daemons, None
    <2>5. sock = host[h].child /\ \A d \in Daemons : Alive(d) => d = sock
      BY <2>3, <2>4 DEF Launched
    <2>6. Place(h)'
      <3>1. \A d \in Daemons : Alive(d)' => Launched(h, d)'
        BY <1>1, <1>3, <2>2, <2>3 DEF Launched, Alive, runDir
      <3>2. Born(host[h].child)' BY <1>1, <1>3, <2>2, <2>3 DEF Born
      <3>3. \A d \in Daemons : Alive(d)' => daemon'[d].state = "serving"
        BY <1>1, <2>4, <2>5 DEF Alive
      <3>4. host'[h].server = host'[h].child BY <1>3, <2>2, <2>5
      <3>5. QED BY <1>3, <2>2, <3>1, <3>2, <3>3, <3>4 DEF Place, At, Looking, Clearing
    <2>7. Memory' BY <1>1, <2>2, MemoryKept
    <2>8. QED BY <1>3, <2>2, <2>6, <2>7, StaysOrderly
  <1>7. QED BY <1>4, <1>5, <1>6 DEF IInv

\* With the pid and the mode recorded, the child has settled.
LEMMA RecordStep ==
    ASSUME IInv, NEW h \in Hosts, Record(h)
    PROVE  IInv'
  <1> DEFINE s == [open |-> TRUE, child |-> host[h].child, server |-> host[h].server,
                   mode |-> host[h].mode]
  <1>1. /\ TypeOK /\ Shape /\ Budget /\ Opening(h) /\ At(h, "record")
        /\ pidFile' = host[h].child /\ meta' = host[h].mode
        /\ host' = [host EXCEPT ![h] = Idle] /\ session' = [session EXCEPT ![h] = s]
        /\ UNCHANGED <<major, sock, token, daemon, spawned, calm>>
    BY DEF IInv, Record, Opening, At
  <1>2. Idle \in HostRecs /\ Idle.pc = "idle"
    BY SupervisorConstants DEF Idle, HostRecs, Pcs, Files, None
  <1>3. host' \in [Hosts -> HostRecs] /\ Shape' /\ Budget'
    BY <1>1, <1>2, Moves DEF Early, Looking, Clearing
  <1>4. /\ host[h].child \in Files /\ host[h].server \in Files /\ host[h].mode \in Modes
    BY <1>1, HostIs
  <1>5. /\ s \in [open : BOOLEAN, child : Files, server : Files, mode : Modes \cup {Unknown}]
        /\ s.child = host[h].child /\ s.server = host[h].server /\ s.mode = host[h].mode
    BY <1>4
  <1> HIDE DEF s
  <1>6. TypeOK'
    BY <1>1, <1>3, <1>4, <1>5 DEF TypeOK, HostRecs
  <1>7. ASSUME calm' PROVE Orderly'
    <2>1. Orderly BY <1>1, <1>7 DEF IInv
    <2>2. /\ \A g \in Hosts \ {h} : host'[g].pc = "idle"
          /\ host'[h] = Idle /\ Memory /\ Place(h)
      BY <1>1, <1>2, <2>1, Alone
    <2>3. /\ Born(host[h].child) /\ host[h].server = host[h].child
          /\ \A d \in Daemons : Alive(d) => Launched(h, d) /\ daemon[d].state = "serving"
      BY <1>1, <2>2 DEF Place, At, Waiting
    <2>4. AllSettled'
      BY <1>1, <2>3 DEF AllSettled, Settled, Alive, Launched
    <2>5. ModeRight(s)
      <3>1. host[h].child \in Daemons
        BY <1>4, <2>3 DEF Born, Files, Daemons, None
      <3>2. Alive(host[h].child) => daemon[host[h].child].mode = host[h].mode
        BY <2>3, <3>1 DEF Launched
      <3>3. QED BY <1>5, <2>3, <3>2 DEF ModeRight
    <2>6. Memory'
      <3>1. \A g \in Hosts : session'[g] = IF g = h THEN s ELSE session[g]
        BY <1>1 DEF TypeOK
      <3>2. QED BY <1>1, <1>5, <2>2, <2>3, <2>5, <3>1 DEF Memory, Born, ModeRight, Alive
    <2>7. QED BY <1>2, <2>2, <2>4, <2>6, StaysOrderly
  <1>8. QED BY <1>3, <1>6, <1>7 DEF IInv

\* What a host starts with.
LEMMA StartRecord ==
    ASSUME NEW pc \in Pcs, NEW m \in Modes
    PROVE  LET r == [Idle EXCEPT !.pc = pc, !.mode = m]
           IN  r \in HostRecs /\ r.pc = pc /\ r.mode = m
  <1>1. Idle \in HostRecs
    BY SupervisorConstants DEF Idle, HostRecs, Pcs, Files, None
  <1>2. QED BY <1>1 DEF HostRecs

\* An open begins behind the others, or it is not calm any more.
LEMMA OpenStep ==
    ASSUME IInv, NEW h \in Hosts, NEW m \in Modes, Open(h, m)
    PROVE  IInv'
  <1> DEFINE r == [Idle EXCEPT !.pc = "sock", !.mode = m]
  <1>1. /\ TypeOK /\ Shape /\ Budget /\ At(h, "idle") /\ MayStart
        /\ host' = [host EXCEPT ![h] = r]
        /\ calm' = (calm /\ AloneOpening(h))
        /\ UNCHANGED <<major, runDir, daemon, spawned, session>>
    BY DEF IInv, Open
  <1>2. calm' \in BOOLEAN /\ (calm' => calm /\ AloneOpening(h))
    BY <1>1, Zenon
  <1>3. r \in HostRecs /\ r.pc = "sock" /\ r.mode = m
    <2>1. "sock" \in Pcs BY DEF Pcs
    <2>2. QED BY <2>1, StartRecord
  <1> HIDE DEF r
  <1>4. host' \in [Hosts -> HostRecs] /\ Shape' /\ Budget'
    BY <1>1, <1>3, Starts
  <1>5. TypeOK'
    BY <1>1, <1>2, <1>4 DEF TypeOK, HostRecs, runDir
  <1>6. ASSUME calm' PROVE Orderly'
    <2>1. Orderly BY <1>2, <1>6 DEF IInv
    <2>2. /\ \A g \in Hosts \ {h} : host'[g].pc = "idle"
          /\ host'[h] = r /\ AllSettled
      BY <1>1, <1>2, <1>6, <2>1 DEF AloneOpening, Opening, At, Orderly, TypeOK
    <2>3. AllSettled' BY <1>1, <2>2 DEF AllSettled, Settled, Alive, runDir
    <2>4. Place(h)' BY <1>3, <2>2, <2>3 DEF Place, At, Clearing, Waiting
    <2>5. Memory' BY <1>1, <2>1, MemoryKept DEF Orderly
    <2>6. QED BY <1>3, <2>2, <2>4, <2>5, StaysOrderly
  <1>7. QED BY <1>4, <1>5, <1>6 DEF IInv

\* Once the child is killed nobody is alive: another daemon could only be
\* settled, and then the socket is its.
LEMMA ShutdownStep ==
    ASSUME IInv, NEW h \in Hosts, NEW m \in Modes, Shutdown(h, m)
    PROVE  IInv'
  <1> DEFINE r == [Idle EXCEPT !.pc = "unlink", !.mode = m]
             c == session[h].child
  <1>1. /\ TypeOK /\ Shape /\ Budget /\ At(h, "idle") /\ MayStart /\ c # None
        /\ daemon' = [daemon EXCEPT ![c].state = "dead"]
        /\ calm' = (calm /\ AloneOpening(h) /\ (Alive(c) \/ sock \in {None, c}))
        /\ session' = [session EXCEPT ![h] = NoSession]
        /\ host' = [host EXCEPT ![h] = r]
        /\ UNCHANGED <<major, runDir, spawned>>
    BY DEF IInv, Shutdown
  <1>2. calm' \in BOOLEAN
        /\ (calm' => calm /\ AloneOpening(h) /\ (Alive(c) \/ sock \in {None, c}))
    BY <1>1, Zenon
  <1>3. r \in HostRecs /\ r.pc = "unlink" /\ r.mode = m
    <2>1. "unlink" \in Pcs BY DEF Pcs
    <2>2. QED BY <2>1, StartRecord
  <1>4. c \in Daemons
    BY <1>1 DEF TypeOK, Files, Daemons, None
  <1> HIDE DEF r, c
  <1>5. host' \in [Hosts -> HostRecs] /\ Shape' /\ Budget'
    BY <1>1, <1>3, Starts
  <1>6. /\ session' \in [Hosts -> [open : BOOLEAN, child : Files, server : Files,
                                   mode : Modes \cup {Unknown}]]
        /\ \A g \in Hosts : session'[g] \in {session[g], NoSession}
    <2>1. NoSession \in [open : BOOLEAN, child : Files, server : Files,
                         mode : Modes \cup {Unknown}]
      BY SupervisorConstants DEF NoSession, Files, None
    <2>2. QED BY <1>1, <2>1 DEF TypeOK
  <1>7. /\ daemon \in [Daemons -> DaemonRecs] /\ daemon' \in [Daemons -> DaemonRecs]
        /\ \A d \in Daemons : daemon'[d] = IF d = c THEN [daemon[c] EXCEPT !.state = "dead"]
                                                    ELSE daemon[d]
        /\ daemon'[c].state = "dead"
    BY <1>1, <1>4 DEF TypeOK, DaemonRecs
  <1>8. TypeOK'
    BY <1>1, <1>2, <1>5, <1>6, <1>7 DEF TypeOK, HostRecs, DaemonRecs, runDir
  <1>9. ASSUME calm' PROVE Orderly'
    <2>1. Orderly BY <1>2, <1>9 DEF IInv
    <2>2. /\ \A g \in Hosts \ {h} : host'[g].pc = "idle"
          /\ host'[h] = r /\ AllSettled /\ Memory
      BY <1>1, <1>2, <1>9, <2>1 DEF AloneOpening, Opening, At, Orderly, TypeOK
    <2>3. \A d \in Daemons : Alive(d) => d = c
      <3>1. SUFFICES ASSUME NEW d \in Daemons, Alive(d) PROVE d = c OBVIOUS
      <3>2. sock = d /\ d # None BY <2>2, <3>1 DEF AllSettled, Settled, Alive
      <3>3. CASE Alive(c) BY <1>4, <2>2, <3>2, <3>3 DEF AllSettled, Settled
      <3>4. CASE sock \in {None, c} BY <3>2, <3>4
      <3>5. QED BY <1>2, <1>9, <3>3, <3>4
    <2>4. NobodyAlive' BY <1>7, <2>3 DEF NobodyAlive, Alive
    <2>5. Place(h)' BY <1>3, <2>2, <2>4 DEF Place, At, Looking, Waiting
    <2>6. Memory'
      <3>1. Born(c) BY <1>1, <2>2 DEF Memory, c
      <3>2. \A d \in Daemons : d > spawned' => daemon'[d].state = "unborn"
        BY <1>1, <1>7, <2>2, <3>1 DEF Memory, Born, Daemons, None
      <3>3. \A d \in Daemons : Born(d) => Born(d)' /\ ~Alive(d)'
        BY <1>7, <2>4 DEF Born, NobodyAlive
      <3>4. QED BY <1>1, <1>6, <2>2, <3>2, <3>3, MemoryOf
    <2>7. QED BY <1>3, <2>2, <2>5, <2>6, StaysOrderly
  <1>10. QED BY <1>5, <1>8, <1>9 DEF IInv

\* A daemon loads its host's token, takes the socket, or dies.
LEMMA DaemonSteps ==
    ASSUME IInv, NEW d \in Daemons, LoadToken(d) \/ Bind(d) \/ Die(d)
    PROVE  IInv'
  <1>1. /\ TypeOK /\ Shape /\ Budget /\ Alive(d)
        /\ UNCHANGED <<major, pidFile, token, meta, spawned, host, session, calm>>
    BY DEF IInv, LoadToken, Bind, Die, Alive, runDir, Daemons, None
  <1>2. PICK v \in DaemonRecs :
          /\ daemon' = [daemon EXCEPT ![d] = v] /\ v.mode = daemon[d].mode
          /\ sock' \in Files
          /\ \/ v.state = "dead"
             \/ /\ v.state = "booting" /\ daemon[d].state = "booting" /\ sock' = sock
                /\ v.needs = token
             \/ /\ v.state = "serving" /\ daemon[d].state = "booting" /\ sock' = d
                /\ v.needs = daemon[d].needs /\ v.needs # None
    <2> DEFINE dead == [daemon[d] EXCEPT !.state = "dead"]
    <2>1. daemon \in [Daemons -> DaemonRecs] /\ daemon[d] \in DaemonRecs
          /\ sock \in Files /\ token \in Files /\ d \in Files /\ None \in Files
      BY <1>1, SupervisorConstants DEF TypeOK, DaemonRecs, Daemons, Files, None
    <2>2. /\ dead \in DaemonRecs /\ dead.state = "dead" /\ dead.mode = daemon[d].mode
          /\ [daemon EXCEPT ![d].state = "dead"] = [daemon EXCEPT ![d] = dead]
      BY <2>1 DEF DaemonRecs
    <2> HIDE DEF dead
    <2>3. CASE daemon' = [daemon EXCEPT ![d].state = "dead"] /\ sock' \in {sock, None}
      BY <2>1, <2>2, <2>3
    <2>4. CASE LoadToken(d) /\ token # None
      <3> DEFINE w == [daemon[d] EXCEPT !.needs = token]
      <3>1. /\ w \in DaemonRecs /\ w.state = daemon[d].state /\ w.mode = daemon[d].mode
            /\ w.needs = token
            /\ [daemon EXCEPT ![d].needs = token] = [daemon EXCEPT ![d] = w]
        BY <2>1 DEF DaemonRecs
      <3> HIDE DEF w
      <3>2. QED BY <2>1, <2>4, <3>1 DEF LoadToken, runDir
    <2>5. CASE Bind(d) /\ daemon' = [daemon EXCEPT ![d].state = "serving"] /\ sock' = d
      <3> DEFINE w == [daemon[d] EXCEPT !.state = "serving"]
      <3>1. /\ w \in DaemonRecs /\ w.state = "serving" /\ w.mode = daemon[d].mode
            /\ w.needs = daemon[d].needs
            /\ [daemon EXCEPT ![d].state = "serving"] = [daemon EXCEPT ![d] = w]
        BY <2>1 DEF DaemonRecs
      <3> HIDE DEF w
      <3>2. QED BY <2>1, <2>5, <3>1 DEF Bind
    <2>6. QED BY <2>3, <2>4, <2>5 DEF LoadToken, Bind, Die, runDir
  <1>3. /\ daemon \in [Daemons -> DaemonRecs] /\ daemon' \in [Daemons -> DaemonRecs]
        /\ \A e \in Daemons : daemon'[e] = IF e = d THEN v ELSE daemon[e]
    BY <1>1, <1>2 DEF TypeOK, DaemonRecs
  <1>4. TypeOK'
    BY <1>1, <1>2, <1>3 DEF TypeOK, DaemonRecs
  <1>5. Shape' /\ Budget'
    BY <1>1 DEF Shape, Opening, Budget, ToStart
  <1>6. ASSUME calm' PROVE Orderly'
    <2>1. Orderly BY <1>1, <1>6 DEF IInv
    <2>2. OneOpen' BY <1>1, <2>1 DEF Orderly, OneOpen, Opening
    <2>3. Memory'
      <3>1. Memory BY <2>1 DEF Orderly
      <3>2. Born(d) BY <1>1 DEF Born, Alive
      <3>3. \A e \in Daemons : e > spawned' => daemon'[e].state = "unborn"
        BY <1>1, <1>3, <3>1, <3>2 DEF Memory, Born, Daemons, None
      <3>4. \A e \in Daemons : Born(e) =>
              /\ Born(e)'
              /\ Alive(e)' => Alive(e) /\ daemon'[e].mode = daemon[e].mode
        BY <1>1, <1>2, <1>3 DEF Born, Alive
      <3>5. QED BY <1>1, <3>1, <3>3, <3>4, MemoryOf
    <2>4. AllSettled => NobodyAlive' /\ v.state = "dead"
      <3>1. AllSettled => daemon[d].state = "serving" /\ \A e \in Daemons : Alive(e) => e = d
        BY <1>1 DEF AllSettled, Settled
      <3>2. QED BY <1>2, <1>3, <3>1 DEF NobodyAlive, Alive
    <2>5. ASSUME NEW h \in Hosts, Opening(h)' PROVE Place(h)'
      <3>1. Place(h) BY <1>1, <2>1, <2>5 DEF Orderly, Opening
      <3>2. host[h].pc \in Looking \/ host[h].pc \in Clearing \/ host[h].pc \in Waiting
        BY <1>1, <2>5, HostIs DEF Opening, Pcs, Looking, Clearing, Waiting
      <3>3. CASE host[h].pc \in Looking
        <4>1. NobodyAlive' BY <2>4, <3>1, <3>3 DEF Place
        <4>2. At(h, "meta") => Born(host[h].server)'
          <5>1. \A f \in Files : f # None => f \in Daemons
            BY DEF Files, Daemons, None
          <5>2. QED BY <1>1, <1>2, <1>3, <3>1, <5>1, HostIs DEF Place, Born
        <4>3. QED BY <1>1, <3>3, <4>1, <4>2
                  DEF Place, At, AllSettled, NobodyAlive, Looking, Clearing, Waiting, Born
      <3>4. CASE host[h].pc \in Clearing
        BY <1>1, <3>1, <3>4 DEF Place, NobodyAlive
      <3>5. CASE host[h].pc \in Waiting
        <4>1. Launched(h, d) /\ (\A e \in Daemons : Alive(e) => e = d) /\ Born(host[h].child)
          BY <1>1, <3>1, <3>5 DEF Place, Launched
        <4>2. v.state # "dead" => Launched(h, d)'
          BY <1>1, <1>2, <1>3, <4>1 DEF Launched
        <4>3. \A e \in Daemons : Alive(e)' => e = d
          BY <1>3, <4>1 DEF Alive
        <4>4. Alive(d)' => v.state # "dead"
          BY <1>3 DEF Alive
        <4>5. Born(host[h].child)'
          <5>1. host[h].child = d BY <4>1 DEF Launched
          <5>2. v.state # "unborn" BY <1>2
          <5>3. QED BY <1>1, <1>3, <5>1, <5>2 DEF Born, Daemons, None
        <4>6. At(h, "record") => \A e \in Daemons : Alive(e)' => daemon'[e].state = "serving"
          <5>1. At(h, "record") => daemon[d].state = "serving"
            BY <1>1, <3>1 DEF Place
          <5>2. QED BY <1>2, <1>3, <4>3, <4>4, <5>1
        <4>7. QED BY <1>1, <3>1, <3>5, <4>2, <4>3, <4>4, <4>5, <4>6
                  DEF Place, At, Looking, Clearing, Waiting
      <3>6. QED BY <3>2, <3>3, <3>4, <3>5
    <2>6. (\A h \in Hosts : ~Opening(h)') => AllSettled'
      BY <1>1, <2>1, <2>4 DEF Orderly, Opening, AllSettled, NobodyAlive
    <2>7. QED BY <2>2, <2>3, <2>5, <2>6 DEF Orderly
  <1>7. QED BY <1>4, <1>5, <1>6 DEF IInv

-----------------------------------------------------------------------------
\* The invariant holds: hosts and daemons of one workspace, in any order.
THEOREM Inductive == Spec => []IInv
  <1>1. IInv /\ [Next]_vars => IInv'
    <2> SUFFICES ASSUME IInv, [Next]_vars PROVE IInv' OBVIOUS
    <2>1. ASSUME NEW h \in Hosts, HostStep(h) PROVE IInv'
      BY <2>1, LookingSteps, AdoptStep, ClearingSteps, WriteTokenStep, SpawnStep,
         LeavingSteps, PollOkStep, RecordStep DEF HostStep
    <2>2. ASSUME NEW h \in Hosts, CloseWindow(h) PROVE IInv'
      BY <2>2, LeavingSteps
    <2>3. ASSUME NEW h \in Hosts, NEW m \in Modes, Open(h, m) \/ Shutdown(h, m)
          PROVE  IInv'
      BY <2>3, OpenStep, ShutdownStep
    <2>4. ASSUME NEW d \in Daemons, LoadToken(d) \/ Bind(d) \/ Die(d) PROVE IInv'
      BY <2>4, DaemonSteps
    <2>5. CASE UNCHANGED vars
      BY <2>5 DEF vars, runDir, IInv, TypeOK, Shape, Budget, ToStart, Opening, Orderly,
                  OneOpen, Memory, Born, ModeRight, Alive, AllSettled, Settled, Place, At,
                  NobodyAlive, Launched
    <2>6. QED BY <2>1, <2>2, <2>3, <2>4, <2>5 DEF Next
  <1>2. QED BY InitInv, <1>1, PTL DEF Spec

\* Every variable keeps its type: no host ever starts a daemon past the bound,
\* so the bound hides no behaviour of a window that may open.
THEOREM TypeCorrect == Spec => []TypeOK
  <1>1. IInv => TypeOK BY DEF IInv
  <1>2. QED BY <1>1, Inductive, PTL

\* spawn_or_adopt without a lock: as long as it is calm, at most one daemon of
\* the workspace is alive, whatever the run directory held at first.
THEOREM OneDaemonIfCalm == Spec => []OneDaemonWhileCalm
  <1>1. IInv => OneDaemonWhileCalm
    <2> SUFFICES ASSUME IInv, calm
                 PROVE  Cardinality({d \in Daemons : Alive(d)}) <= 1
      BY DEF OneDaemonWhileCalm
    <2> DEFINE A == {d \in Daemons : Alive(d)}
    <2>1. Orderly BY DEF IInv
    <2>2. \A d, e \in A : d = e
      <3>1. CASE \A h \in Hosts : ~Opening(h)
        BY <2>1, <3>1 DEF Orderly, AllSettled, Settled
      <3>2. CASE \E h \in Hosts : Opening(h)
        <4>1. PICK h \in Hosts : Opening(h) BY <3>2
        <4>2. Place(h) BY <2>1, <4>1 DEF Orderly
        <4>3. host[h].pc \in Looking \/ host[h].pc \in Clearing \/ host[h].pc \in Waiting
          BY <4>1, HostIs DEF IInv, Opening, Pcs, Looking, Clearing, Waiting
        <4>4. QED BY <4>2, <4>3 DEF Place, AllSettled, Settled, NobodyAlive, Launched
      <3>3. QED BY <3>1, <3>2
    <2>3. Cardinality(A) <= 1
      <3> HIDE DEF A
      <3>1. CASE A = {}
        BY <3>1, FS_EmptySet
      <3>2. CASE A # {}
        <4>1. PICK d \in A : A = {d} BY <2>2, <3>2
        <4>2. Cardinality(A) = 1 BY <4>1, FS_Singleton
        <4>3. QED BY <4>2
      <3>3. QED BY <3>1, <3>2
    <2>4. QED BY <2>3
  <1>2. QED BY <1>1, Inductive, PTL

\* write_pid_and_meta and read_meta: a session that was opened while it is calm
\* shows the level its daemon runs under, or that it is not known.
THEOREM ModeShownIfCalm == Spec => []ModeShownWhileCalm
  <1>1. IInv => ModeShownWhileCalm
    BY DEF IInv, Orderly, Memory, ModeShownWhileCalm
  <1>2. QED BY <1>1, Inductive, PTL

\* The daemon outlives the UI: between opens, a daemon that serves can be found
\* and adopted by the next window, on the token and pid its files name.
THEOREM AdoptableIfCalm == Spec => []AdoptableWhileCalm
  <1>1. IInv => AdoptableWhileCalm
    BY DEF IInv, Orderly, AllSettled, Settled, Alive, AdoptableWhileCalm, Adoptable,
           Daemons, None
  <1>2. QED BY <1>1, Inductive, PTL

\* poll_negotiate: the child a host waits for answers it as soon as it serves.
THEOREM ChildAnswersIfCalm == Spec => []ChildAnswersWhileCalm
  <1>1. IInv => ChildAnswersWhileCalm
    <2> SUFFICES ASSUME IInv, calm, NEW h \in Hosts, At(h, "poll"),
                        daemon[host[h].child].state = "serving"
                 PROVE  Answers(host[h].token)
      BY DEF ChildAnswersWhileCalm
    <2>1. Place(h) BY DEF IInv, Orderly, Opening, At
    <2>2. host[h].child \in Daemons /\ Alive(host[h].child)
      BY <2>1, HostIs DEF IInv, Place, At, Waiting, Born, Alive, Files, Daemons, None
    <2>3. Launched(h, host[h].child)
      BY <2>1, <2>2 DEF Place, At, Waiting
    <2>4. QED BY <2>2, <2>3 DEF Launched, Answers, Alive, Daemons, None
  <1>2. QED BY <1>1, Inductive, PTL
=============================================================================
