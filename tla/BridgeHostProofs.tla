-------------------------- MODULE BridgeHostProofs --------------------------
(***************************************************************************)
(* BridgeHost's invariants, for every length of RESPAWN_BACKOFF_MS and any *)
(* number of unexpected exits and of restarts by hand.                     *)
(***************************************************************************)
EXTENDS BridgeHost, FiniteSetTheorems, TLAPS

\* The respawn timers that are pending, in the field or lost.
Timers == lostTimers + (IF respawnTimer THEN 1 ELSE 0)

\* The processes whose exit the extension has heard of, and those that ended.
Gone == {p \in Procs : process[p] = "gone"}
Dead == {p \in Procs : process[p] \in {"exited", "gone"}}

\* Why there are never more processes than Procs names: a start is the first
\* one, a restart's, or a timer's; a timer stands for an exit that was heard of;
\* and a process ends by a crash or by the SIGTERM of a restart or a
\* deactivation.
Births ==
    /\ \A p \in Procs : process[p] # "unborn" <=> p <= started
    /\ proc = client /\ client <= started
    /\ termed \subseteq 1..started
    /\ started + Timers <= 1 + restarts + Cardinality(Gone)
    /\ Cardinality(Dead \ termed) <= crashes
    /\ Cardinality(termed) <= restarts + (IF deactivated THEN 1 ELSE 0)

\* As long as nobody restarts the host by hand, the processes follow one
\* another: everything belongs to the latest one, the earlier ones are gone and
\* their clients closed, and a timer is pending only once the latest is gone.
\* The starts since the last healthy moment, with the one under way, are paid
\* for by respawns.
OneAtATime ==
    /\ wired = started
    /\ asked \subseteq 1..started
    /\ \A p \in Procs : p < started => process[p] = "gone" /\ p \in closed
    /\ client \in {None, started}
    /\ client = None => started \in closed
    /\ process[started] = "gone" => client = None
    /\ lostTimers = 0
    /\ respawnTimer => process[started] = "gone" /\ ~deactivated
    /\ deactivated => client = None /\ intentionalStop
    /\ sinceHealthy + Timers <= respawns + 1

Calm == restarts = 0 => OneAtATime

IInv == TypeOK /\ Births /\ Calm

-----------------------------------------------------------------------------
\* A set with one element added counts at most one more.
LEMMA OneMore ==
    ASSUME NEW S, NEW x, IsFiniteSet(S)
    PROVE  /\ IsFiniteSet(S \cup {x})
           /\ Cardinality(S) \in Nat /\ Cardinality(S \cup {x}) \in Nat
           /\ Cardinality(S \cup {x}) <= Cardinality(S) + 1
           /\ x \notin S => Cardinality(S \cup {x}) = Cardinality(S) + 1
  <1>1. Cardinality(S) \in Nat
    BY FS_CardinalityType
  <1>2. /\ IsFiniteSet(S \cup {x})
        /\ Cardinality(S \cup {x})
               = IF x \in S THEN Cardinality(S) ELSE Cardinality(S) + 1
    BY FS_AddElement
  <1>3. QED BY <1>1, <1>2

\* How many processes have ended is bounded by what ended them.
LEMMA EndsCounted ==
    ASSUME TypeOK, Births
    PROVE  /\ IsFiniteSet(Gone) /\ IsFiniteSet(Dead \ termed) /\ IsFiniteSet(termed)
           /\ Cardinality(Gone) \in Nat
           /\ Cardinality(Dead \ termed) \in Nat
           /\ Cardinality(termed) \in Nat
           /\ Cardinality(Gone) <= crashes + restarts + (IF deactivated THEN 1 ELSE 0)
  <1> USE HostConstants
  <1>1. IsFiniteSet(Procs)
    BY FS_Interval DEF Procs
  <1>2. /\ IsFiniteSet(Gone) /\ IsFiniteSet(Dead)
        /\ IsFiniteSet(Dead \ termed) /\ IsFiniteSet(termed)
    BY <1>1, FS_Subset DEF TypeOK, Gone, Dead
  <1>3. /\ IsFiniteSet((Dead \ termed) \cup termed)
        /\ Cardinality((Dead \ termed) \cup termed)
               <= Cardinality(Dead \ termed) + Cardinality(termed)
    <2>1. /\ IsFiniteSet((Dead \ termed) \cap termed)
          /\ Cardinality((Dead \ termed) \cap termed) = 0
      <3>1. (Dead \ termed) \cap termed = {}
        OBVIOUS
      <3>2. QED BY <3>1, FS_EmptySet
    <2>2. Cardinality(Dead \ termed) \in Nat /\ Cardinality(termed) \in Nat
      BY <1>2, FS_CardinalityType
    <2>3. /\ IsFiniteSet((Dead \ termed) \cup termed)
          /\ Cardinality((Dead \ termed) \cup termed)
                 = Cardinality(Dead \ termed) + Cardinality(termed)
                     - Cardinality((Dead \ termed) \cap termed)
      BY <1>2, FS_Union
    <2>4. QED BY <2>1, <2>2, <2>3
  <1>4. Cardinality(Gone) <= Cardinality((Dead \ termed) \cup termed)
    <2>1. Gone \subseteq (Dead \ termed) \cup termed
      BY DEF Gone, Dead
    <2>2. QED BY <2>1, <1>3, FS_Subset
  <1>5. /\ Cardinality(Gone) \in Nat /\ Cardinality(Dead \ termed) \in Nat
        /\ Cardinality(termed) \in Nat
        /\ Cardinality((Dead \ termed) \cup termed) \in Nat
    BY <1>2, <1>3, FS_CardinalityType
  <1>6. QED
    BY <1>2, <1>3, <1>4, <1>5 DEF Births, TypeOK

\* Whenever a process is started there is a name for it: a timer that goes off,
\* or a restart that is still allowed, leaves room in Procs.
LEMMA RoomToStart ==
    ASSUME TypeOK, Births,
           Timers > 0 \/ (~deactivated /\ restarts < MaxRestarts)
    PROVE  started + 1 \in Procs
  <1>1. CASE Timers > 0
    BY <1>1, HostConstants, EndsCounted DEF TypeOK, Births, Procs, Timers
  <1>2. CASE ~deactivated /\ restarts < MaxRestarts
    BY <1>2, HostConstants, EndsCounted DEF TypeOK, Births, Procs, Timers
  <1>3. QED BY <1>1, <1>2

\* The timers are counted by a natural number.
LEMMA TimersNat == TypeOK => Timers \in Nat
  <1> SUFFICES ASSUME TypeOK PROVE Timers \in Nat
    OBVIOUS
  <1>1. lostTimers \in Nat /\ (IF respawnTimer THEN 1 ELSE 0) \in Nat
    BY DEF TypeOK
  <1>2. Timers = lostTimers + (IF respawnTimer THEN 1 ELSE 0)
    BY Zenon DEF Timers
  <1>3. QED BY <1>1, <1>2

\* A turn that takes a timer had one to take, and leaves one fewer.
LEMMA TimerTaken ==
    ASSUME TypeOK, TakeTimer
    PROVE  /\ Timers \in Nat \ {0} /\ Timers' = Timers - 1
           /\ respawnTimer' \in BOOLEAN /\ lostTimers' \in Nat
  <1>1. CASE respawnTimer /\ respawnTimer' = FALSE /\ UNCHANGED lostTimers
    <2>1. Timers = lostTimers + 1 /\ Timers' = lostTimers + 0
      BY <1>1, Zenon DEF Timers
    <2>2. respawnTimer' \in BOOLEAN /\ lostTimers' \in Nat
      BY <1>1 DEF TypeOK
    <2>3. QED BY <2>1, <2>2, SMT DEF TypeOK
  <1>2. CASE lostTimers > 0 /\ lostTimers' = lostTimers - 1 /\ UNCHANGED respawnTimer
    BY <1>2 DEF TypeOK, Timers
  <1>3. QED BY <1>1, <1>2 DEF TakeTimer

\* Sending SIGTERM to the current process adds at most one to those sent it, and
\* takes away from those that died without one.
LEMMA StopCounted ==
    ASSUME TypeOK, Births, termed' = termed \cup Stopped, Dead' = Dead
    PROVE  /\ Cardinality(termed') <= Cardinality(termed) + 1
           /\ Cardinality((Dead \ termed)') <= Cardinality(Dead \ termed)
           /\ Cardinality(termed') \in Nat /\ Cardinality((Dead \ termed)') \in Nat
           /\ termed' \subseteq Procs /\ termed' \subseteq 1..started
  <1>1. Cardinality(termed') <= Cardinality(termed) + 1 /\ Cardinality(termed') \in Nat
    <2>1. CASE proc = None
      <3>1. termed' = termed BY <2>1 DEF Stopped
      <3>2. QED BY <3>1, EndsCounted
    <2>2. CASE proc # None
      <3>1. termed' = termed \cup {proc} BY <2>2 DEF Stopped
      <3>2. QED BY <3>1, EndsCounted, OneMore
    <2>3. QED BY <2>1, <2>2
  <1>2. /\ Cardinality((Dead \ termed)') <= Cardinality(Dead \ termed)
        /\ Cardinality((Dead \ termed)') \in Nat
    <2>1. (Dead \ termed)' \subseteq Dead \ termed
      OBVIOUS
    <2>2. QED BY <2>1, EndsCounted, FS_Subset, FS_CardinalityType
  <1>3. termed' \subseteq Procs /\ termed' \subseteq 1..started
    <2>1. Stopped \subseteq Procs /\ Stopped \subseteq 1..started
      BY HostConstants DEF TypeOK, Births, Stopped, Procs, None
    <2>2. QED BY <2>1 DEF TypeOK, Births
  <1>4. QED BY <1>1, <1>2, <1>3

\* The name of a new process was not in use: nothing dead comes back to life.
LEMMA NewIsUnborn ==
    ASSUME TypeOK, Births, started + 1 \in Procs,
           process' = [process EXCEPT ![started + 1] = "running"],
           started' = started + 1
    PROVE  /\ Gone' = Gone /\ Dead' = Dead
           /\ process' \in [Procs -> {"unborn", "running", "exited", "gone"}]
           /\ \A p \in Procs : process'[p] # "unborn" <=> p <= started'
  <1> USE HostConstants DEF TypeOK, Births, Procs
  <1>1. process[started + 1] = "unborn"
    OBVIOUS
  <1>2. Gone' = Gone /\ Dead' = Dead
    BY <1>1 DEF Gone, Dead
  <1>3. QED
    BY <1>2

-----------------------------------------------------------------------------
\* Every variable keeps its type, in particular a process started has a name in
\* Procs, because the account of the processes is kept by every step.
LEMMA BirthsStep == TypeOK /\ Births /\ [Next]_vars => TypeOK' /\ Births'
  <1> SUFFICES ASSUME TypeOK, Births, [Next]_vars PROVE TypeOK' /\ Births'
    OBVIOUS
  <1> USE HostConstants DEF osVars, clientVars, timerVars
  <1>1. ASSUME NEW p \in Procs, Crash(p) PROVE TypeOK' /\ Births'
    <2>1. TypeOK' BY <1>1 DEF Crash, TypeOK
    <2>2. Gone' = Gone /\ Timers' = Timers
      BY <1>1 DEF Crash, TypeOK, Gone, Timers
    <2>3. Cardinality((Dead \ termed)') <= crashes'
      <3>1. (Dead \ termed)' \subseteq (Dead \ termed) \cup {p}
        BY <1>1 DEF Crash, TypeOK, Dead
      <3>2. /\ IsFiniteSet((Dead \ termed) \cup {p})
            /\ Cardinality((Dead \ termed) \cup {p}) <= Cardinality(Dead \ termed) + 1
        BY EndsCounted, OneMore
      <3>3. Cardinality((Dead \ termed)') <= Cardinality((Dead \ termed) \cup {p})
        BY <3>1, <3>2, FS_Subset
      <3>4. /\ Cardinality((Dead \ termed)') \in Nat
            /\ Cardinality((Dead \ termed) \cup {p}) \in Nat
        BY <3>1, <3>2, FS_Subset, FS_CardinalityType
      <3>5. QED BY <1>1, <3>2, <3>3, <3>4, EndsCounted DEF Crash, TypeOK, Births
    <2>4. Births'
      BY <1>1, <2>2, <2>3 DEF Crash, TypeOK, Births
    <2>5. QED BY <2>1, <2>4
  <1>2. ASSUME NEW p \in Procs, Terminate(p) PROVE TypeOK' /\ Births'
    <2>1. TypeOK' BY <1>2 DEF Terminate, TypeOK
    <2>2. Gone' = Gone /\ Timers' = Timers /\ (Dead \ termed)' = Dead \ termed
      BY <1>2 DEF Terminate, TypeOK, Gone, Timers, Dead
    <2>3. QED
      BY <1>2, <2>1, <2>2 DEF Terminate, TypeOK, Births
  <1>3. ASSUME NEW p \in Procs, OnProcExit(p) PROVE TypeOK' /\ Births'
    <2>1. TypeOK'
      <3>1. closed' \subseteq Procs /\ pending' \subseteq Procs
        BY <1>3 DEF OnProcExit, TypeOK, Close
      <3>2. respawns' \in 0..MaxRespawns /\ lostTimers' \in Nat
        BY <1>3 DEF OnProcExit, TypeOK, SetTimer
      <3>3. respawnTimer' \in BOOLEAN
        BY <1>3 DEF OnProcExit, TypeOK, SetTimer
      <3>4. gaveUp' \in BOOLEAN
        BY <1>3 DEF OnProcExit, TypeOK
      <3>5. QED BY <1>3, <3>1, <3>2, <3>3, <3>4 DEF OnProcExit, TypeOK
    <2>2. Timers \in Nat /\ Timers' <= Timers + 1
      <3>1. CASE ~intentionalStop /\ respawns < MaxRespawns
        <4>1. Timers' = lostTimers' + 1
          BY <1>3, <3>1 DEF OnProcExit, SetTimer, Timers
        <4>2. CASE respawnTimer
          BY <1>3, <3>1, <4>1, <4>2 DEF OnProcExit, SetTimer, Timers, TypeOK
        <4>3. CASE ~respawnTimer
          BY <1>3, <3>1, <4>1, <4>3 DEF OnProcExit, SetTimer, Timers, TypeOK
        <4>4. QED BY <4>2, <4>3
      <3>2. CASE ~(~intentionalStop /\ respawns < MaxRespawns)
        BY <1>3, <3>2 DEF OnProcExit, Timers, TypeOK
      <3>3. QED BY <3>1, <3>2
    <2>3. Gone' = Gone \cup {p} /\ p \notin Gone /\ (Dead \ termed)' = Dead \ termed
      BY <1>3 DEF OnProcExit, TypeOK, Gone, Dead
    <2>4. Cardinality(Gone') = Cardinality(Gone) + 1
      BY <2>3, EndsCounted, OneMore
    <2>5. \A q \in Procs : process'[q] # "unborn" <=> q <= started'
      BY <1>3 DEF OnProcExit, TypeOK, Births
    <2>6. Timers' \in Nat
      <3>1. Timers' = lostTimers' + 0 \/ Timers' = lostTimers' + 1
        BY Zenon DEF Timers
      <3>2. QED BY <2>1, <3>1 DEF TypeOK
    <2>7. started' + Timers' <= 1 + restarts' + Cardinality(Gone')
      <3>1. started' = started /\ restarts' = restarts
        BY <1>3 DEF OnProcExit
      <3>2. QED BY <2>2, <2>4, <2>6, <3>1, EndsCounted DEF TypeOK, Births, Procs
    <2>8. /\ proc' = client' /\ client' <= started'
          /\ termed' \subseteq 1..started'
          /\ Cardinality((Dead \ termed)') <= crashes'
      <3>1. /\ proc' = None /\ client' = None
            /\ started' = started /\ termed' = termed /\ crashes' = crashes
        BY <1>3 DEF OnProcExit
      <3>2. started \in Nat BY DEF TypeOK, Procs
      <3>3. QED BY <2>3, <3>1, <3>2 DEF Births, None
    <2>9. Cardinality(termed') <= restarts' + (IF deactivated' THEN 1 ELSE 0)
      BY <1>3 DEF OnProcExit, Births
    <2>10. QED BY <2>1, <2>5, <2>7, <2>8, <2>9 DEF Births
  <1>4. ASSUME NEW p \in Procs, StdoutCloses(p) PROVE TypeOK' /\ Births'
    BY <1>4 DEF StdoutCloses, Close, TypeOK, Births, Timers, Gone, Dead
  <1>5. CASE Respawn
    <2>1. /\ Timers \in Nat \ {0} /\ Timers' = Timers - 1
          /\ respawnTimer' \in BOOLEAN /\ lostTimers' \in Nat
      BY <1>5, TimerTaken DEF Respawn
    <2>2. started + 1 \in Procs
      BY <2>1, RoomToStart
    <2>3. /\ closed' \subseteq Procs /\ pending' \subseteq Procs /\ asked' \subseteq Procs
          /\ wired' \in Procs
      <3>1. client' \in Procs
        BY <1>5, <2>2 DEF Respawn, StartNew, TypeOK, Births
      <3>2. CASE deactivated BY <1>5, <3>2 DEF Respawn, TypeOK
      <3>3. CASE ~deactivated BY <1>5, <3>1, <3>3 DEF Respawn, TypeOK
      <3>4. QED BY <3>2, <3>3
    <2>4. CASE proc = None
      <3>1. StartNew({}) /\ sinceHealthy' = sinceHealthy + 1
        BY <1>5, <2>4 DEF Respawn
      <3>2. Gone' = Gone /\ Dead' = Dead /\ termed' = termed
        BY <2>2, <3>1, NewIsUnborn DEF StartNew
      <3>3. TypeOK'
        <4>1. process' \in [Procs -> {"unborn", "running", "exited", "gone"}]
          BY <2>2, <3>1, NewIsUnborn DEF StartNew
        <4>2. /\ started' \in Procs /\ proc' \in Procs /\ client' \in Procs
              /\ intentionalStop' \in BOOLEAN
          BY <2>2, <3>1, Zenon DEF StartNew
        <4>3. sinceHealthy' \in Nat /\ UNCHANGED <<respawns, deactivated, crashes, restarts, gaveUp>>
          BY <1>5, <3>1 DEF Respawn, TypeOK
        <4>4. QED BY <2>1, <2>3, <3>2, <4>1, <4>2, <4>3 DEF TypeOK
      <3>4. /\ started' + Timers' <= 1 + restarts' + Cardinality(Gone')
            /\ termed' \subseteq 1..started'
        BY <1>5, <2>1, <3>1, <3>2, <3>3, EndsCounted
           DEF Respawn, StartNew, TypeOK, Births, Procs
      <3>5. \A q \in Procs : process'[q] # "unborn" <=> q <= started'
        BY <2>2, <3>1, NewIsUnborn DEF StartNew
      <3>6. QED
        BY <1>5, <3>1, <3>2, <3>3, <3>4, <3>5 DEF Respawn, StartNew, Births, TypeOK, Procs
    <2>5. CASE proc # None
      <3>1. UNCHANGED <<process, termed, started, proc, client, intentionalStop, sinceHealthy>>
        BY <1>5, <2>5 DEF Respawn
      <3>2. TypeOK'
        BY <1>5, <2>1, <2>3, <3>1 DEF Respawn, TypeOK
      <3>3. Gone' = Gone /\ Dead' = Dead
        BY <3>1 DEF Gone, Dead
      <3>4. started' + Timers' <= 1 + restarts' + Cardinality(Gone')
        BY <1>5, <2>1, <3>1, <3>3, EndsCounted DEF Respawn, TypeOK, Births, Procs
      <3>5. QED BY <1>5, <3>1, <3>2, <3>3, <3>4 DEF Respawn, Births
    <2>6. QED BY <2>4, <2>5
  <1>6. CASE RespawnFails
    <2>1. /\ Timers \in Nat \ {0} /\ Timers' = Timers - 1
          /\ respawnTimer' \in BOOLEAN /\ lostTimers' \in Nat
      BY <1>6, TimerTaken DEF RespawnFails
    <2>2. TypeOK'
      BY <1>6, <2>1 DEF RespawnFails, TypeOK
    <2>3. Gone' = Gone /\ Dead' = Dead /\ termed' = termed
      BY <1>6 DEF RespawnFails, Gone, Dead
    <2>4. started' + Timers' <= 1 + restarts' + Cardinality(Gone')
      BY <1>6, <2>1, <2>3, EndsCounted DEF RespawnFails, TypeOK, Births, Procs
    <2>5. QED
      BY <1>6, <2>2, <2>3, <2>4 DEF RespawnFails, Births
  <1>7. CASE Reconnect
    BY <1>7 DEF Reconnect, Usable, TypeOK, Births, Timers, Gone, Dead, None
  <1>8. ASSUME NEW p \in Procs, Opened(p) PROVE TypeOK' /\ Births'
    BY <1>8 DEF Opened, TypeOK, Births, Timers, Gone, Dead
  <1>9. ASSUME NEW p \in Procs, OpenFails(p) PROVE TypeOK' /\ Births'
    BY <1>9 DEF OpenFails, TypeOK, Births, Timers, Gone, Dead
  <1>10. CASE Restart
    <2>1. started + 1 \in Procs
      BY <1>10, RoomToStart DEF Restart
    <2>2. closed' \subseteq Procs /\ pending' \subseteq Procs
      BY <1>10 DEF Restart, Close, TypeOK
    <2>3. Gone' = Gone /\ Dead' = Dead
      BY <1>10, <2>1, NewIsUnborn DEF Restart, StartNew
    <2>4. /\ Cardinality(termed') <= Cardinality(termed) + 1
          /\ Cardinality((Dead \ termed)') <= Cardinality(Dead \ termed)
          /\ Cardinality(termed') \in Nat /\ Cardinality((Dead \ termed)') \in Nat
          /\ termed' \subseteq Procs /\ termed' \subseteq 1..started
      BY <1>10, <2>3, StopCounted DEF Restart, StartNew
    <2>5. TypeOK'
      <3>1. process' \in [Procs -> {"unborn", "running", "exited", "gone"}]
        BY <1>10, <2>1, NewIsUnborn DEF Restart, StartNew
      <3>2. /\ started' \in Procs /\ proc' \in Procs /\ client' \in Procs
            /\ intentionalStop' \in BOOLEAN
        BY <1>10, <2>1, Zenon DEF Restart, StartNew
      <3>3. sinceHealthy' \in Nat /\ restarts' \in 0..MaxRestarts
            /\ respawns' \in 0..MaxRespawns
        BY <1>10 DEF Restart, TypeOK
      <3>4. respawnTimer' \in BOOLEAN
            /\ UNCHANGED <<asked, wired, lostTimers, deactivated, crashes, gaveUp>>
        BY <1>10 DEF Restart
      <3>5. QED BY <2>2, <2>4, <3>1, <3>2, <3>3, <3>4 DEF TypeOK
    <2>6. Timers' = lostTimers' /\ Timers >= lostTimers /\ Timers \in Nat
      BY <1>10 DEF Restart, Timers, TypeOK
    <2>7. started' + Timers' <= 1 + restarts' + Cardinality(Gone')
      BY <1>10, <2>3, <2>6, EndsCounted DEF Restart, StartNew, TypeOK, Births, Procs
    <2>8. \A q \in Procs : process'[q] # "unborn" <=> q <= started'
      BY <1>10, <2>1, NewIsUnborn DEF Restart, StartNew
    <2>9. Cardinality(termed') <= restarts' + (IF deactivated' THEN 1 ELSE 0)
      BY <1>10, <2>4, EndsCounted DEF Restart, TypeOK, Births
    <2>10. Cardinality((Dead \ termed)') <= crashes'
      BY <1>10, <2>4, EndsCounted DEF Restart, TypeOK, Births
    <2>11. QED
      BY <1>10, <2>4, <2>5, <2>7, <2>8, <2>9, <2>10
         DEF Restart, StartNew, TypeOK, Births, Procs
  <1>11. CASE Deactivate
    <2>1. Gone' = Gone /\ Dead' = Dead
      BY <1>11 DEF Deactivate, Gone, Dead
    <2>2. /\ Cardinality(termed') <= Cardinality(termed) + 1
          /\ Cardinality((Dead \ termed)') <= Cardinality(Dead \ termed)
          /\ Cardinality(termed') \in Nat /\ Cardinality((Dead \ termed)') \in Nat
          /\ termed' \subseteq Procs /\ termed' \subseteq 1..started
      BY <1>11, <2>1, StopCounted DEF Deactivate
    <2>3. TypeOK'
      BY <1>11, <2>2 DEF Deactivate, Close, TypeOK
    <2>4. Timers' = lostTimers' /\ Timers >= lostTimers /\ Timers \in Nat
      BY <1>11 DEF Deactivate, Timers, TypeOK
    <2>5. started' + Timers' <= 1 + restarts' + Cardinality(Gone')
      BY <1>11, <2>1, <2>4, EndsCounted DEF Deactivate, TypeOK, Births, Procs
    <2>6. Cardinality(termed') <= restarts' + (IF deactivated' THEN 1 ELSE 0)
      BY <1>11, <2>2, EndsCounted DEF Deactivate, TypeOK, Births
    <2>7. Cardinality((Dead \ termed)') <= crashes'
      BY <1>11, <2>2, EndsCounted DEF Deactivate, TypeOK, Births
    <2>8. QED
      BY <1>11, <2>2, <2>3, <2>5, <2>6, <2>7 DEF Deactivate, TypeOK, Births, Procs, None
  <1>12. CASE UNCHANGED vars
    BY <1>12 DEF vars, TypeOK, Births, Timers, Gone, Dead
  <1>13. QED
    BY <1>1, <1>2, <1>3, <1>4, <1>5, <1>6, <1>7, <1>8, <1>9, <1>10, <1>11, <1>12
       DEF Next, EventLoop


\* Until the first restart by hand, one process follows the other.
LEMMA CalmStep == TypeOK /\ Births /\ Calm /\ [Next]_vars => Calm'
  <1> SUFFICES ASSUME TypeOK, Births, Calm, [Next]_vars, restarts' = 0
               PROVE OneAtATime'
    BY DEF Calm
  <1> USE HostConstants DEF osVars, clientVars, timerVars
  <1>0. restarts = 0 /\ OneAtATime /\ ~Restart
    <2>1. ~Restart BY DEF Restart, TypeOK
    <2>2. restarts = 0
      BY <2>1 DEF Next, EventLoop, Crash, Terminate, OnProcExit, StdoutCloses, Respawn,
                  RespawnFails, Reconnect, Opened, OpenFails, Deactivate, vars
    <2>3. QED BY <2>1, <2>2 DEF Calm
  <1>1. ASSUME NEW p \in Procs, Crash(p) PROVE OneAtATime'
    BY <1>0, <1>1 DEF Crash, OneAtATime, Timers, TypeOK
  <1>2. ASSUME NEW p \in Procs, Terminate(p) PROVE OneAtATime'
    BY <1>0, <1>2 DEF Terminate, OneAtATime, Timers, TypeOK
  <1>3. ASSUME NEW p \in Procs, OnProcExit(p) PROVE OneAtATime'
    <2>1. p = started
      BY <1>0, <1>3 DEF OnProcExit, OneAtATime, Births, TypeOK, Procs
    <2>2. /\ client' = None /\ closed \cup {started} = closed'
          /\ process' = [process EXCEPT ![started] = "gone"]
          /\ UNCHANGED <<started, asked, wired, intentionalStop, deactivated, sinceHealthy>>
      BY <1>0, <1>3, <2>1 DEF OnProcExit, Close, OneAtATime
    <2>3. ~respawnTimer /\ lostTimers = 0
      BY <1>0, <1>3, <2>1 DEF OnProcExit, OneAtATime
    <2>4. /\ lostTimers' = 0
          /\ respawnTimer' => ~deactivated
          /\ sinceHealthy' + Timers' <= respawns' + 1
      <3>1. CASE ~intentionalStop /\ respawns < MaxRespawns
        <4>1. respawns' = respawns + 1 /\ respawnTimer' = TRUE /\ lostTimers' = 0
          BY <1>3, <2>3, <3>1 DEF OnProcExit, SetTimer
        <4>2. Timers = 0 + 0 /\ Timers' = 0 + 1
          BY <2>3, <4>1, Zenon DEF Timers
        <4>3. ~deactivated
          BY <1>0, <3>1 DEF OneAtATime
        <4>4. QED BY <1>0, <2>2, <4>1, <4>2, <4>3 DEF OneAtATime, TypeOK
      <3>2. CASE ~(~intentionalStop /\ respawns < MaxRespawns)
        <4>1. UNCHANGED <<respawns, respawnTimer, lostTimers>>
          BY <1>3, <3>2 DEF OnProcExit
        <4>2. Timers' = Timers BY <4>1 DEF Timers
        <4>3. QED BY <1>0, <2>2, <2>3, <4>1, <4>2 DEF OneAtATime
      <3>3. QED BY <3>1, <3>2
    <2>5. QED
      BY <1>0, <2>2, <2>4 DEF OneAtATime, TypeOK, Procs
  <1>4. ASSUME NEW p \in Procs, StdoutCloses(p) PROVE OneAtATime'
    BY <1>0, <1>4 DEF StdoutCloses, Close, OneAtATime, Timers, TypeOK
  <1>5. CASE Respawn
    <2>1. /\ Timers \in Nat \ {0} /\ Timers' = Timers - 1
          /\ respawnTimer /\ respawnTimer' = FALSE /\ lostTimers' = 0
      <3>1. respawnTimer /\ respawnTimer' = FALSE /\ lostTimers' = 0
        BY <1>0, <1>5 DEF Respawn, TakeTimer, OneAtATime
      <3>2. QED BY <1>5, <3>1, TimerTaken DEF Respawn
    <2>2. process[started] = "gone" /\ ~deactivated /\ proc = None /\ client = None
      BY <1>0, <2>1 DEF OneAtATime, Births
    <2>3. started + 1 \in Procs
      BY <2>1, RoomToStart
    <2>4. /\ StartNew({}) /\ sinceHealthy' = sinceHealthy + 1
          /\ wired' = started + 1 /\ asked' = asked \cup {started + 1}
          /\ closed' = closed /\ respawns' = respawns /\ deactivated' = FALSE
      BY <1>5, <2>2 DEF Respawn, StartNew, TypeOK
    <2>5. sinceHealthy' + Timers' <= respawns' + 1
      BY <1>0, <2>1, <2>4 DEF OneAtATime, TypeOK
    <2>6. \A p \in Procs : p < started' => process'[p] = "gone" /\ p \in closed'
      BY <1>0, <2>2, <2>3, <2>4 DEF OneAtATime, StartNew, TypeOK, Procs
    <2>7. process'[started'] = "running"
      BY <2>3, <2>4 DEF StartNew, TypeOK
    <2>8. started' = started + 1 /\ client' = started + 1 /\ started \in Nat
      BY <2>4 DEF StartNew, TypeOK, Procs
    <2>9. asked' \subseteq 1..started'
      BY <1>0, <2>4, <2>8 DEF OneAtATime
    <2>10. QED
      BY <2>1, <2>4, <2>5, <2>6, <2>7, <2>8, <2>9 DEF OneAtATime, None
  <1>6. CASE RespawnFails
    <2>1. /\ Timers \in Nat \ {0} /\ Timers' = Timers - 1
          /\ respawnTimer /\ respawnTimer' = FALSE /\ lostTimers' = 0
      <3>1. respawnTimer /\ respawnTimer' = FALSE /\ lostTimers' = 0
        BY <1>0, <1>6 DEF RespawnFails, TakeTimer, OneAtATime
      <3>2. QED BY <1>6, <3>1, TimerTaken DEF RespawnFails
    <2>2. ~deactivated
      BY <1>0, <2>1 DEF OneAtATime
    <2>3. sinceHealthy' + Timers' <= respawns' + 1
      BY <1>0, <1>6, <2>1 DEF RespawnFails, OneAtATime, TypeOK
    <2>4. QED
      BY <1>0, <1>6, <2>1, <2>2, <2>3 DEF RespawnFails, OneAtATime
  <1>7. CASE Reconnect
    BY <1>0, <1>7 DEF Reconnect, Usable, OneAtATime, Timers, TypeOK, Procs, None
  <1>8. ASSUME NEW p \in Procs, Opened(p) PROVE OneAtATime'
    <2>1. process[started] = "running"
      BY <1>0, <1>8 DEF Opened, OneAtATime, Births, TypeOK, Procs
    <2>2. ~respawnTimer /\ lostTimers = 0
      BY <1>0, <2>1 DEF OneAtATime
    <2>3. Timers' = 0 + 0
      BY <1>8, <2>2, Zenon DEF Opened, Timers
    <2>4. QED
      BY <1>0, <1>8, <2>1, <2>2, <2>3 DEF Opened, OneAtATime
  <1>9. ASSUME NEW p \in Procs, OpenFails(p) PROVE OneAtATime'
    BY <1>0, <1>9 DEF OpenFails, OneAtATime, Timers, TypeOK
  <1>10. CASE Deactivate
    <2>1. respawnTimer' = FALSE /\ lostTimers' = 0 /\ Timers' = 0 + 0
      BY <1>0, <1>10, Zenon DEF Deactivate, OneAtATime, Timers
    <2>2. Timers \in Nat
      BY TimersNat
    <2>3. started \in closed'
      BY <1>0, <1>10 DEF Deactivate, OneAtATime, Close
    <2>4. QED
      BY <1>0, <1>10, <2>1, <2>2, <2>3 DEF Deactivate, OneAtATime, TypeOK, Close
  <1>11. CASE UNCHANGED vars
    BY <1>0, <1>11 DEF vars, OneAtATime, Timers
  <1>12. QED
    BY <1>0, <1>1, <1>2, <1>3, <1>4, <1>5, <1>6, <1>7, <1>8, <1>9, <1>10, <1>11
       DEF Next, EventLoop

-----------------------------------------------------------------------------
\* The account of the processes and their succession hold throughout.
THEOREM Inductive == Spec => []IInv
  <1>1. Init => IInv
    <2> SUFFICES ASSUME Init PROVE IInv
      OBVIOUS
    <2> USE HostConstants
    <2>1. TypeOK
      <3>1. 1 \in Procs BY DEF Procs
      <3>2. process \in [Procs -> {"unborn", "running", "exited", "gone"}]
        BY DEF Init
      <3>3. /\ intentionalStop \in BOOLEAN /\ respawnTimer \in BOOLEAN
            /\ deactivated \in BOOLEAN /\ gaveUp \in BOOLEAN
        BY Zenon DEF Init
      <3>4. /\ respawns \in 0..MaxRespawns /\ lostTimers \in Nat
            /\ crashes \in 0..MaxCrashes /\ restarts \in 0..MaxRestarts
            /\ sinceHealthy \in Nat
        BY DEF Init
      <3>5. QED BY <3>1, <3>2, <3>3, <3>4 DEF Init, TypeOK
    <2>2. Timers = 0 + 0
      BY Zenon DEF Init, Timers
    <2>3. Gone = {} /\ Dead = {} /\ Dead \ termed = {} /\ termed = {}
      BY DEF Init, Gone, Dead, Procs
    <2>4. Births
      BY <2>2, <2>3, FS_EmptySet DEF Init, Births, Procs
    <2>5. Calm
      <3>1. ~respawnTimer /\ ~deactivated
        BY Zenon DEF Init
      <3>2. sinceHealthy + Timers <= respawns + 1
        BY <2>2, SMT DEF Init
      <3>3. \A p \in Procs : p < started => process[p] = "gone" /\ p \in closed
        BY SMT DEF Init, Procs
      <3>4. process[started] = "running"
        BY SMT DEF Init, Procs
      <3>5. /\ wired = started /\ asked \subseteq 1..started
            /\ client \in {None, started} /\ client # None /\ lostTimers = 0
        BY SMT DEF Init, None
      <3>6. QED BY <3>1, <3>2, <3>3, <3>4, <3>5, Zenon DEF Calm, OneAtATime
    <2>6. QED BY <2>1, <2>4, <2>5 DEF IInv
  <1>2. IInv /\ [Next]_vars => IInv'
    BY BirthsStep, CalmStep DEF IInv
  <1>3. QED BY <1>1, <1>2, PTL DEF Spec

\* Every variable keeps its type; in particular a process that is started always
\* has a name, so the bound on processes cuts nothing off.
THEOREM TypeCorrect == Spec => []TypeOK
  BY Inductive, PTL DEF IInv

\* wireClient and openInitialSession in the respawn listener: as long as nobody
\* restarts the host by hand, a session is only ever opened through a client
\* that is closed by now or has its events delivered to the store.
THEOREM SessionsAreWired == Spec => []AskedIsWired
  <1>1. IInv => AskedIsWired
    BY DEF IInv, TypeOK, Births, Calm, OneAtATime, AskedIsWired, Procs
  <1>2. QED BY <1>1, Inductive, PTL

\* RESPAWN_BACKOFF_MS bounds the respawns: a host that dies again and again
\* before it opens a session is started at most once more than there are delays.
THEOREM CrashLoopEnds == Spec => []CrashLoopStops
  <1>1. IInv => CrashLoopStops
    <2> SUFFICES ASSUME IInv, restarts = 0 PROVE sinceHealthy <= MaxRespawns + 1
      BY DEF CrashLoopStops
    <2>1. Timers \in Nat
      BY TimersNat DEF IInv
    <2>2. QED
      BY <2>1, HostConstants DEF IInv, TypeOK, Calm, OneAtATime
  <1>2. QED BY <1>1, Inductive, PTL

\* dispose clears the respawn timer and marks the stop intentional: no exit that
\* is heard of later brings a host back to a closed window.
THEOREM NoHostAfterDeactivate == Spec => []NoneAfterDeactivate
  <1>1. IInv => NoneAfterDeactivate
    BY DEF IInv, Births, Calm, OneAtATime, NoneAfterDeactivate
  <1>2. QED BY <1>1, Inductive, PTL

\* The exit handler cannot tell which process ended, but without a restart by
\* hand it needs not: at most one host of the window runs unless it was told to
\* stop.  (BridgeHostRestart shows that one restart is enough to break this.)
THEOREM OneHostUntilRestart == Spec => [](restarts = 0 => OneHost)
  <1>1. IInv => (restarts = 0 => OneHost)
    <2> SUFFICES ASSUME IInv, restarts = 0 PROVE OneHost
      OBVIOUS
    <2>1. Running \subseteq {started}
      BY HostConstants DEF IInv, TypeOK, Births, Calm, OneAtATime, Running, Procs
    <2>2. IsFiniteSet({started}) /\ Cardinality({started}) = 1
      BY FS_Singleton
    <2>3. Cardinality(Running) <= 1
      BY <2>1, <2>2, FS_Subset
    <2>4. QED BY <2>3 DEF OneHost
  <1>2. QED BY <1>1, Inductive, PTL
=============================================================================
