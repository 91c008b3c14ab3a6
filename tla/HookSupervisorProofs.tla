-------------------------- MODULE HookSupervisorProofs --------------------------
(***************************************************************************)
(* The safety of HookSupervisor for any number of listeners, any           *)
(* thresholds and any outside events.                                      *)
(*                                                                         *)
(* One handler: every live listener is the supervisor's (its handle, or    *)
(* the one it waits for) or adrift, and the supervisor never has two.      *)
(* A successor keeps its handle: while nobody ended in its own epoch, a    *)
(* listener is told to quit only after it was outdated, so that none that  *)
(* returns reports.                                                        *)
(***************************************************************************)
EXTENDS HookSupervisor, FiniteSetTheorems, TLAPS

Threads ==
    /\ sup \in {"poll", "tearing", "closing", "tail", "stopped"}
    /\ tearing \in Listeners \cup {None}
    /\ handle \in Listeners \cup {None, Unspawned}
    /\ phase \in [Listeners -> Phases]
    /\ stale \in [Listeners -> BOOLEAN]
    /\ hung \in [Listeners -> BOOLEAN]
    /\ quit \in [Listeners -> BOOLEAN]
    /\ adrift \subseteq Listeners

Flags ==
    /\ held \in BOOLEAN /\ locked \in BOOLEAN /\ seen \in BOOLEAN
    /\ entered \in BOOLEAN /\ acked \in BOOLEAN
    /\ deviceHeld \in BOOLEAN /\ sessionLocked \in BOOLEAN /\ complained \in BOOLEAN
    /\ unevicted \in BOOLEAN
    /\ queue \in Seq(EventKinds)

Clocks ==
    /\ streak \in 0..BackoffCap /\ sinceRecovery \in 0..BackoffCap
    /\ sinceSeen \in 0..Startup
    /\ misses \in 0..(MissedPressThreshold - 1)
    /\ events \in 0..MaxEvents
    /\ age \in 0..Newborn

(* The supervisor's listener, if it has one: the handle, or the one it     *)
(* waits for; every other live listener is adrift.                         *)
Alive(l) == phase[l] \notin {"none", "done"}

Tracked ==
    /\ \A l \in Listeners : Alive(l) => l = handle \/ l = tearing \/ l \in adrift
    /\ IF sup \in {"tearing", "closing"} THEN tearing \in Listeners /\ handle = None
                                         ELSE tearing = None
    /\ handle \in Listeners => phase[handle] # "none"
    /\ locked => handle = None

(* As long as nobody ended in its own epoch: who is told to quit or has    *)
(* returned is outdated, and no exit is reported.                          *)
Silent ==
    ~unevicted =>
        /\ \A l \in Listeners : quit[l] \/ phase[l] = "returned" => stale[l]
        /\ \A l \in Listeners : phase[l] # "failed"
        /\ \A i \in DOMAIN queue : queue[i] # "exited"

(* The start that was noted is not older than the newest. *)
Noted == seen => sinceSeen <= age \/ age = Newborn

IInv == Threads /\ Flags /\ Clocks /\ Tracked /\ Silent /\ Noted

-----------------------------------------------------------------------------
(* What a step does to the threads, as far as the invariant is concerned   *)

LEMMA SupervisorActions ==
    ASSUME Supervisor
    PROVE  \/ UnresponsiveLocked \/ UnresponsiveHeldBack \/ Recover \/ ListenerExited
           \/ Resume \/ Lock \/ Unlock \/ Shutdown \/ Timeout
           \/ \E w \in {"tearing", "closing"}, n \in {"tail", "stopped"} :
                  Joined(w, n) \/ Detached(w, n)
           \/ Spawn \/ NoSpawn
  BY DEF Supervisor

(* tear_down_listener, from "poll": the handle is waited for. *)
LEMMA TearDownTracked ==
    ASSUME HookSupervisorAssumption, Threads, Tracked, sup = "poll",
           NEW w \in {"tearing", "closing"}, NEW n \in {"tail", "stopped"},
           NEW e \in BOOLEAN, TearDown(w, n, e), UNCHANGED <<phase, hung, adrift>>
    PROVE  /\ Tracked'
           /\ sup' \in {w, n} /\ tearing' \in Listeners \cup {None} /\ handle' = None
           /\ quit' \in [Listeners -> BOOLEAN]
           /\ unevicted' = (unevicted \/ (handle \in Listeners /\ ~e))
  <1>1. CASE handle \in Listeners
    BY <1>1 DEF HookSupervisorAssumption, TearDown, Threads, Tracked, Alive
  <1>2. CASE handle \notin Listeners
    BY <1>2 DEF HookSupervisorAssumption, TearDown, Threads, Tracked, Alive
  <1>. QED BY <1>1, <1>2

LEMMA ThreadsStep ==
    ASSUME HookSupervisorAssumption, Threads, Tracked, Flags, Supervisor \/ SpawnFails
    PROVE  Threads' /\ Tracked'
  <1>. USE HookSupervisorAssumption DEF Received, Send
  <1>1. CASE UnresponsiveLocked \/ UnresponsiveHeldBack \/ NoSpawn
    BY <1>1 DEF UnresponsiveLocked, UnresponsiveHeldBack, NoSpawn, supVars, lisVars, history,
           Threads, Tracked, Alive
  <1>2. CASE Recover
    <2>1. TearDown("tearing", "tail", handle \in Listeners => phase[handle] # "spawned")
      BY <1>2 DEF Recover
    <2>2. /\ sup = "poll" /\ UNCHANGED <<phase, hung, adrift, locked>>
          /\ stale' \in [Listeners -> BOOLEAN]
      BY <1>2 DEF Recover, NewEpoch, Threads
    <2>. QED BY <2>1, <2>2, TearDownTracked DEF Threads
  <1>3. CASE ListenerExited
    BY <1>3 DEF ListenerExited, lisVars, Threads, Tracked, Alive
  <1>4. CASE Resume
    BY <1>4, TearDownTracked DEF Resume, Threads
  <1>5. CASE Lock
    BY <1>5, TearDownTracked DEF Lock, Threads
  <1>6. CASE Unlock
    BY <1>6, TearDownTracked DEF Unlock, Threads
  <1>7. CASE Shutdown
    BY <1>7, TearDownTracked DEF Shutdown, Threads
  <1>8. CASE Timeout
    <2>1. CASE TearDown("tearing", "tail", FALSE)
      BY <1>8, <2>1, TearDownTracked DEF Timeout, Threads
    <2>2. CASE sup' = "tail" /\ UNCHANGED <<tearing, handle, quit, unevicted>>
      BY <1>8, <2>2 DEF Timeout, Threads, Tracked, Alive
    <2>. QED BY <1>8, <2>1, <2>2 DEF Timeout
  <1>9. ASSUME NEW w \in {"tearing", "closing"}, NEW n \in {"tail", "stopped"},
               Joined(w, n) \/ Detached(w, n)
        PROVE  Threads' /\ Tracked'
    BY <1>9 DEF Joined, Detached, TornDown, lisVars, Threads, Tracked, Alive
  <1>10. CASE Spawn
    <2>. DEFINE l == CHOOSE x \in Free : TRUE
    <2>1. l \in Listeners
      BY <1>10 DEF Spawn, Free
    <2>2. /\ sup = "tail" /\ sup' = "poll" /\ handle = None /\ ~locked /\ handle' = l
          /\ phase' = [phase EXCEPT ![l] = "spawned"]
          /\ UNCHANGED <<tearing, locked, stale, hung, quit, adrift>>
      BY <1>10 DEF Spawn, MaySpawn
    <2>. HIDE DEF l
    <2>. QED BY <2>1, <2>2 DEF Threads, Tracked, Alive, Phases
  <1>11. CASE SpawnFails
    BY <1>11 DEF SpawnFails, MaySpawn, lisVars, Threads, Tracked, Alive
  <1>. QED
    BY <1>1, <1>2, <1>3, <1>4, <1>5, <1>6, <1>7, <1>8, <1>9, <1>10, <1>11, SupervisorActions

LEMMA ListenersStep ==
    ASSUME HookSupervisorAssumption, Threads, Tracked, NEW l \in Listeners,
           ListenerStep(l) \/ Break(l) \/ Hang(l) \/ ComeBack(l) \/ GoDeaf(l)
    PROVE  Threads' /\ Tracked'
  <1>. DEFINE Goal == /\ \E p \in Phases \ {"none"} : phase' = [phase EXCEPT ![l] = p]
                      /\ Alive(l) \/ phase' = phase
                      /\ \/ adrift' = adrift
                         \/ adrift' = adrift \ {l} /\ phase'[l] = "done"
                      /\ stale' \in [Listeners -> BOOLEAN]
                      /\ hung' \in [Listeners -> BOOLEAN]
                      /\ quit' \in [Listeners -> BOOLEAN]
                      /\ UNCHANGED supVars
  <1>. USE DEF Threads, Runs, MovesTo, Alive, Phases, lisVars, history
  <1>1. CASE ListenerStep(l) \/ Break(l) \/ GoDeaf(l)
    <2>1. ASSUME Arm(l) \/ Install(l) \/ Unhook(l) PROVE Goal
      BY <2>1 DEF Arm, Install, Unhook
    <2>2. ASSUME Break(l) \/ GoDeaf(l) PROVE Goal
      BY <2>2 DEF Break, GoDeaf
    <2>3. ASSUME Report(l) PROVE Goal
      BY <2>3 DEF Report
    <2>4. Goal
      BY <1>1, <2>1, <2>2, <2>3 DEF ListenerStep
    <2>5. PICK p \in Phases \ {"none"} : phase' = [phase EXCEPT ![l] = p]
      BY <2>4
    <2>6. phase'[l] = p /\ \A k \in Listeners \ {l} : phase'[k] = phase[k]
      BY <2>5
    <2>7. Threads'
      BY <2>4, <2>5 DEF supVars
    <2>8. \A k \in Listeners : Alive(k)' => k = handle \/ k = tearing \/ k \in adrift'
      BY <2>4, <2>6 DEF Tracked
    <2>. QED BY <2>4, <2>6, <2>7, <2>8 DEF supVars, Tracked
  <1>2. CASE Hang(l)
    BY <1>2 DEF Hang, supVars, Tracked
  <1>3. CASE ComeBack(l)
    <2>1. /\ phase' = phase \/ (phase[l] = "hooked" /\ phase' = [phase EXCEPT ![l] = "deaf"])
          /\ UNCHANGED <<supVars, stale, quit, adrift>> /\ hung' \in [Listeners -> BOOLEAN]
      BY <1>3 DEF ComeBack
    <2>. QED BY <2>1 DEF supVars, Tracked
  <1>. QED BY <1>1, <1>2, <1>3

(* The rest of the world leaves the threads alone. *)
World == (\E elevated \in BOOLEAN : Press(elevated))
         \/ Outside \/ DeviceChange \/ DeviceSettles \/ DelayPasses \/ Tick

LEMMA WorldAside ==
    ASSUME World \/ UNCHANGED vars
    PROVE  UNCHANGED <<sup, tearing, handle, locked, seen, phase, stale, hung, quit, adrift,
                       unevicted>>
  BY DEF World, Press, Outside, DeviceChange, DeviceSettles, DelayPasses, Tick, supVars, lisVars,
         history, vars

LEMMA TrackedStep ==
    ASSUME HookSupervisorAssumption, Threads, Tracked, Flags, [Next]_vars
    PROVE  Threads' /\ Tracked'
  <1>1. CASE World \/ UNCHANGED vars
    BY <1>1, WorldAside DEF Threads, Tracked, Alive
  <1>. QED BY <1>1, ThreadsStep, ListenersStep DEF Next, World

(* How the channel changes: one event less at its head, or one more. *)
QueueMoves ==
    \/ queue' = queue
    \/ queue # <<>> /\ queue' = Tail(queue)
    \/ \E e \in EventKinds : Send(e)

LEMMA QueueStep == ASSUME [Next]_vars PROVE QueueMoves
  <1>1. CASE Supervisor \/ SpawnFails
    BY <1>1 DEF Supervisor, UnresponsiveLocked, UnresponsiveHeldBack, Recover, ListenerExited,
           Resume, Lock, Unlock, Shutdown, Timeout, Joined, Detached, TornDown, Spawn, NoSpawn,
           SpawnFails, Received, QueueMoves, EventKinds
  <1>2. ASSUME NEW l \in Listeners,
               ListenerStep(l) \/ Break(l) \/ Hang(l) \/ ComeBack(l) \/ GoDeaf(l)
        PROVE  QueueMoves
    BY <1>2 DEF ListenerStep, Arm, Install, Unhook, Report, Break, Hang, ComeBack, GoDeaf,
           QueueMoves, EventKinds
  <1>3. CASE World \/ UNCHANGED vars
    BY <1>3 DEF World, Press, Outside, Power, DeviceChange, DeviceSettles, DelayPasses, Tick, vars,
           QueueMoves, EventKinds
  <1>. QED BY <1>1, <1>2, <1>3 DEF Next, World

LEMMA QueueTyped == ASSUME queue \in Seq(EventKinds), QueueMoves PROVE queue' \in Seq(EventKinds)
  <1>1. CASE queue # <<>> /\ queue' = Tail(queue)
    BY <1>1
  <1>2. ASSUME NEW e \in EventKinds, queue' = Append(queue, e) PROVE queue' \in Seq(EventKinds)
    BY <1>2
  <1>. QED BY <1>1, <1>2 DEF QueueMoves, Send

LEMMA FlagsStep == ASSUME Flags, [Next]_vars PROVE Flags'
  <1>. USE DEF Flags
  <1>1. queue' \in Seq(EventKinds)
    BY QueueStep, QueueTyped
  <1>2. CASE Supervisor \/ SpawnFails
    <2>1. CASE UnresponsiveLocked \/ UnresponsiveHeldBack \/ ListenerExited \/ NoSpawn
      <3>1. CASE UnresponsiveLocked
        BY <1>1, <3>1 DEF UnresponsiveLocked, supVars, healthVars, outside, history
      <3>2. CASE UnresponsiveHeldBack
        BY <1>1, <3>2 DEF UnresponsiveHeldBack, healthVars, outside, history
      <3>3. CASE ListenerExited
        BY <1>1, <3>3 DEF ListenerExited, healthVars, outside
      <3>4. CASE NoSpawn
        BY <1>1, <3>4 DEF NoSpawn, healthVars, outside, history
      <3>. QED BY <2>1, <3>1, <3>2, <3>3, <3>4
    <2>2. CASE Recover
      BY <1>1, <2>2 DEF Recover, TearDown, outside
    <2>3. CASE Resume \/ Lock \/ Unlock \/ Shutdown
      BY <1>1, <2>3 DEF Resume, Lock, Unlock, Shutdown, TearDown, healthVars, outside
    <2>4. CASE Timeout
      BY <1>1, <2>4 DEF Timeout, TearDown, healthVars, outside
    <2>5. CASE \E w \in {"tearing", "closing"}, n \in {"tail", "stopped"} :
                   Joined(w, n) \/ Detached(w, n)
      BY <1>1, <2>5 DEF Joined, Detached, TornDown, healthVars, outside
    <2>6. CASE Spawn \/ SpawnFails
      BY <1>1, <2>6 DEF Spawn, SpawnFails, outside
    <2>. QED BY <1>2, <2>1, <2>2, <2>3, <2>4, <2>5, <2>6, SupervisorActions
  <1>3. ASSUME NEW l \in Listeners,
               ListenerStep(l) \/ Break(l) \/ Hang(l) \/ ComeBack(l) \/ GoDeaf(l)
        PROVE  Flags'
    <2>1. CASE Arm(l)
      BY <1>1, <2>1 DEF Arm, supVars, outside, history
    <2>6. CASE Install(l)
      BY <1>1, <2>6 DEF Install, supVars, healthVars, outside, history
    <2>7. CASE Unhook(l)
      BY <1>1, <2>7 DEF Unhook, supVars, healthVars, outside, history
    <2>2. CASE Report(l)
      BY <1>1, <2>2 DEF Report, supVars, healthVars, outside
    <2>3. CASE Break(l)
      BY <1>1, <2>3 DEF Break, supVars, healthVars
    <2>4. CASE Hang(l) \/ GoDeaf(l)
      BY <1>1, <2>4 DEF Hang, GoDeaf, supVars, healthVars, history
    <2>5. CASE ComeBack(l)
      BY <1>1, <2>5 DEF ComeBack, supVars, healthVars, outside, history
    <2>. QED BY <1>3, <2>1, <2>2, <2>3, <2>4, <2>5, <2>6, <2>7 DEF ListenerStep
  <1>4. ASSUME NEW elevated \in BOOLEAN, Press(elevated) PROVE Flags'
    <2>1. acked' \in BOOLEAN /\ complained' \in BOOLEAN
      BY <1>4 DEF Press
    <2>. QED BY <1>1, <1>4, <2>1 DEF Press, supVars, history
  <1>5. CASE Outside
    BY <1>1, <1>5 DEF Outside, Power, supVars, healthVars, history
  <1>6. CASE DeviceChange \/ DeviceSettles \/ DelayPasses
    BY <1>1, <1>6 DEF DeviceChange, DeviceSettles, DelayPasses, supVars, healthVars, outside,
           history
  <1>7. CASE Tick
    BY <1>1, <1>7 DEF Tick, healthVars
  <1>8. CASE UNCHANGED vars
    BY <1>1, <1>8 DEF supVars, healthVars, outside, history, vars
  <1>. QED BY <1>2, <1>3, <1>4, <1>5, <1>6, <1>7, <1>8 DEF Next, World

LEMMA CappedIn ==
    ASSUME NEW cap \in Nat, NEW n \in Nat PROVE Capped(n, cap) \in 0..cap /\ Capped(n, cap) <= n
  BY DEF Capped

LEMMA MissesWrap ==
    ASSUME NEW n \in Nat, NEW m \in Nat \ {0} PROVE n % m \in 0..(m - 1)
  OBVIOUS

LEMMA ClocksStep ==
    ASSUME HookSupervisorAssumption, Clocks, [Next]_vars PROVE Clocks'
  <1>. USE HookSupervisorAssumption DEF Clocks
  <1>0. /\ 0 \in 0..BackoffCap /\ 0 \in 0..Startup /\ 0 \in 0..(MissedPressThreshold - 1)
        /\ 0 \in 0..Newborn
        /\ Capped(streak + 1, BackoffCap) \in 0..BackoffCap
        /\ Capped(sinceRecovery + 1, BackoffCap) \in 0..BackoffCap
        /\ Capped(sinceSeen + 1, Startup) \in 0..Startup
        /\ Capped(age + 1, Newborn) \in 0..Newborn
    <2>1. /\ streak + 1 \in Nat /\ sinceRecovery + 1 \in Nat /\ sinceSeen + 1 \in Nat
          /\ age + 1 \in Nat
          /\ BackoffCap \in Nat /\ Startup \in Nat /\ Newborn \in Nat
          /\ MissedPressThreshold \in Nat \ {0}
      BY DEF HookSupervisorAssumption
    <2>2. 0 \in 0..(MissedPressThreshold - 1)
      BY <2>1
    <2>3. \A n, cap \in Nat : Capped(n, cap) \in 0..cap
      BY CappedIn
    <2>4. 0 \in 0..BackoffCap /\ 0 \in 0..Startup /\ 0 \in 0..Newborn
      BY <2>1
    <2>. HIDE DEF Clocks
    <2>. QED BY <2>1, <2>2, <2>3, <2>4
  <1>1. CASE Supervisor \/ SpawnFails
    <2>1. /\ streak' \in {streak, 0, Capped(streak + 1, BackoffCap)}
          /\ sinceRecovery' \in {sinceRecovery, 0} /\ sinceSeen' \in {sinceSeen, 0}
          /\ misses' \in {misses, 0} /\ age' \in {age, 0}
          /\ UNCHANGED events \/ Befalls
      BY <1>1 DEF Supervisor, UnresponsiveLocked, UnresponsiveHeldBack, Recover, ListenerExited,
           Resume, Lock, Unlock, Shutdown, Timeout, Joined, Detached, TornDown, Spawn, NoSpawn,
           SpawnFails, supVars, healthVars, outside, history
    <2>. QED BY <1>0, <2>1 DEF Befalls
  <1>2. ASSUME NEW l \in Listeners,
               ListenerStep(l) \/ Break(l) \/ Hang(l) \/ ComeBack(l) \/ GoDeaf(l)
        PROVE  Clocks'
    <2>1. /\ UNCHANGED <<streak, sinceRecovery, sinceSeen, age>> /\ misses' \in {misses, 0}
          /\ UNCHANGED events \/ Befalls
      BY <1>2 DEF ListenerStep, Arm, Install, Unhook, Report, Break, Hang, ComeBack, GoDeaf,
             supVars, healthVars, outside, history
    <2>. QED BY <1>0, <2>1 DEF Befalls
  <1>3. ASSUME NEW elevated \in BOOLEAN, Press(elevated) PROVE Clocks'
    <2>1. (misses + 1) % MissedPressThreshold \in 0..(MissedPressThreshold - 1)
      BY MissesWrap DEF HookSupervisorAssumption
    <2>2. /\ UNCHANGED <<streak, sinceRecovery, sinceSeen, age>>
          /\ misses' \in {0, (misses + 1) % MissedPressThreshold}
          /\ UNCHANGED events \/ Befalls
      BY <1>3 DEF Press, supVars, history
    <2>. QED BY <1>0, <2>1, <2>2 DEF Befalls
  <1>4. CASE Outside \/ DeviceChange \/ DeviceSettles \/ DelayPasses
    <2>1. /\ UNCHANGED <<streak, sinceRecovery, sinceSeen, age, misses>>
          /\ UNCHANGED events \/ Befalls
      BY <1>4 DEF Outside, Power, DeviceChange, DeviceSettles, DelayPasses, supVars, healthVars,
             outside, history
    <2>. QED BY <2>1 DEF Befalls
  <1>5. CASE Tick
    BY <1>0, <1>5 DEF Tick, healthVars
  <1>6. CASE UNCHANGED vars
    BY <1>6 DEF vars, supVars, healthVars, outside, history
  <1>. QED BY <1>1, <1>2, <1>3, <1>4, <1>5, <1>6 DEF Next

-----------------------------------------------------------------------------
LEMMA TailOf ==
    ASSUME NEW S, NEW q \in Seq(S), q # <<>>
    PROVE  /\ Len(q) \in Nat /\ DOMAIN Tail(q) = 1..(Len(q) - 1)
           /\ \A i \in 1..(Len(q) - 1) : i + 1 \in DOMAIN q /\ Tail(q)[i] = q[i + 1]
  OBVIOUS

LEMMA AppendOf ==
    ASSUME NEW S, NEW q \in Seq(S), NEW e \in S
    PROVE  /\ Len(q) \in Nat /\ DOMAIN Append(q, e) = 1..(Len(q) + 1)
           /\ Append(q, e)[Len(q) + 1] = e
           /\ \A i \in 1..(Len(q) + 1) :
                  i = Len(q) + 1 \/ (i \in DOMAIN q /\ Append(q, e)[i] = q[i])
  OBVIOUS

(* No exit in the channel, and none is added *)
LEMMA NoExit ==
    ASSUME queue \in Seq(EventKinds), \A i \in DOMAIN queue : queue[i] # "exited",
           \/ queue' = queue
           \/ queue # <<>> /\ queue' = Tail(queue)
           \/ \E e \in EventKinds \ {"exited"} : Send(e)
    PROVE  \A i \in DOMAIN queue' : queue'[i] # "exited"
  <1>1. CASE queue # <<>> /\ queue' = Tail(queue)
    BY <1>1, TailOf
  <1>2. ASSUME NEW e \in EventKinds \ {"exited"}, queue' = Append(queue, e)
        PROVE  \A i \in DOMAIN queue' : queue'[i] # "exited"
    BY <1>2, AppendOf
  <1>. QED BY <1>1, <1>2 DEF Send

LEMMA SilentStep ==
    ASSUME HookSupervisorAssumption, Threads, Flags, Tracked, Silent, [Next]_vars PROVE Silent'
  <1>. SUFFICES ASSUME ~unevicted'
                PROVE  /\ \A l \in Listeners : quit'[l] \/ phase'[l] = "returned" => stale'[l]
                       /\ \A l \in Listeners : phase'[l] # "failed"
                       /\ \A i \in DOMAIN queue' : queue'[i] # "exited"
    BY DEF Silent
  <1>. DEFINE Quiet == \/ queue' = queue
                       \/ queue # <<>> /\ queue' = Tail(queue)
                       \/ \E e \in EventKinds \ {"exited"} : Send(e)
              Outdated == /\ \A l \in Listeners : quit'[l] \/ phase'[l] = "returned" => stale'[l]
                          /\ \A l \in Listeners : phase'[l] # "failed"
  <1>0. ~unevicted
    <2>1. CASE Supervisor \/ SpawnFails
      BY <2>1 DEF Supervisor, UnresponsiveLocked, UnresponsiveHeldBack, Recover, ListenerExited,
           Resume, Lock, Unlock, Shutdown, Timeout, TearDown, Joined, Detached, TornDown, Spawn,
           NoSpawn, SpawnFails, history
    <2>2. ASSUME NEW l \in Listeners,
                 ListenerStep(l) \/ Break(l) \/ Hang(l) \/ ComeBack(l) \/ GoDeaf(l)
          PROVE  ~unevicted
      BY <2>2 DEF ListenerStep, Arm, Install, Unhook, Report, Break, Hang, ComeBack, GoDeaf, history
    <2>3. CASE World \/ UNCHANGED vars
      BY <2>3, WorldAside
    <2>. QED BY <2>1, <2>2, <2>3 DEF Next, World
  <1>1. /\ \A l \in Listeners : quit[l] \/ phase[l] = "returned" => stale[l]
        /\ \A l \in Listeners : phase[l] # "failed"
        /\ \A i \in DOMAIN queue : queue[i] # "exited"
    BY <1>0 DEF Silent
  <1>. SUFFICES Quiet /\ Outdated
    BY <1>1, NoExit DEF Flags
  <1>. USE DEF Received, EventKinds
  <1>2. CASE Supervisor \/ SpawnFails
    <2>1. CASE UnresponsiveLocked \/ UnresponsiveHeldBack \/ ListenerExited \/ NoSpawn
      BY <1>1, <2>1 DEF UnresponsiveLocked, UnresponsiveHeldBack, ListenerExited, NoSpawn, lisVars
    <2>2. CASE Recover
      <3>1. CASE handle \in Listeners
        <4>1. /\ phase[handle] \notin {"none", "spawned"}
              /\ quit' = [quit EXCEPT ![handle] = phase[handle] # "done"] \/ quit' = quit
              /\ phase' = phase /\ Quiet
          BY <2>2, <3>1 DEF Recover, TearDown, Tracked
        <4>2. /\ \A l \in Listeners : stale[l] => stale'[l]
              /\ phase[handle] # "done" => stale'[handle]
          BY <2>2, <3>1, <4>1 DEF Recover, NewEpoch, Threads, Phases
        <4>. QED BY <1>1, <3>1, <4>1, <4>2 DEF Threads
      <3>2. CASE handle \notin Listeners
        BY <1>1, <2>2, <3>2 DEF Recover, TearDown, NewEpoch
      <3>. QED BY <3>1, <3>2
    <2>3. CASE Resume \/ Lock \/ Unlock \/ Shutdown
      BY <1>1, <2>3 DEF Resume, Lock, Unlock, Shutdown, TearDown
    <2>4. CASE Timeout
      BY <1>1, <2>4 DEF Timeout, TearDown
    <2>5. CASE \E w \in {"tearing", "closing"}, n \in {"tail", "stopped"} :
                   Joined(w, n) \/ Detached(w, n)
      BY <1>1, <2>5 DEF Joined, Detached, TornDown, lisVars
    <2>6. CASE Spawn
      <3>. DEFINE l == CHOOSE x \in Free : TRUE
      <3>1. phase' = [phase EXCEPT ![l] = "spawned"] /\ UNCHANGED <<queue, stale, quit>>
        BY <2>6 DEF Spawn
      <3>. QED BY <1>1, <3>1 DEF Threads
    <2>7. ~SpawnFails
      BY DEF SpawnFails
    <2>. QED BY <1>2, <2>1, <2>2, <2>3, <2>4, <2>5, <2>6, <2>7, SupervisorActions
  <1>3. ASSUME NEW l \in Listeners,
               ListenerStep(l) \/ Break(l) \/ Hang(l) \/ ComeBack(l) \/ GoDeaf(l)
        PROVE  Quiet /\ Outdated
    <2>. USE DEF Runs, MovesTo, Threads
    <2>1. ~Break(l)
      BY DEF Break
    <2>2. CASE Arm(l) \/ Install(l) \/ Unhook(l)
      BY <1>1, <2>2 DEF Arm, Install, Unhook
    <2>3. CASE Report(l)
      <3>1. phase[l] = "returned" /\ stale[l]
        BY <1>1, <2>3 DEF Report
      <3>. QED BY <1>1, <2>3, <3>1 DEF Report, Evicted
    <2>4. CASE Hang(l) \/ ComeBack(l) \/ GoDeaf(l)
      BY <1>1, <2>4 DEF Hang, ComeBack, GoDeaf
    <2>. QED BY <1>3, <2>1, <2>2, <2>3, <2>4 DEF ListenerStep
  <1>4. CASE World \/ UNCHANGED vars
    <2>1. UNCHANGED <<phase, stale, quit>>
      BY <1>4, WorldAside
    <2>2. Quiet
      BY <1>4 DEF World, Press, Outside, Power, DeviceChange, DeviceSettles, DelayPasses, Tick, vars
    <2>. QED BY <1>1, <2>1, <2>2
  <1>. QED BY <1>2, <1>3, <1>4 DEF Next, World

LEMMA NotedStep ==
    ASSUME HookSupervisorAssumption, Clocks, Flags, Noted, [Next]_vars PROVE Noted'
  <1>. USE HookSupervisorAssumption DEF Noted, Clocks, HookSupervisorAssumption
  <1>1. CASE Supervisor \/ SpawnFails
    <2>1. \/ ~seen'
          \/ age' = age /\ (seen' => seen) /\ sinceSeen' = sinceSeen
          \/ age' = age /\ sinceSeen' = 0
      BY <1>1 DEF Supervisor, UnresponsiveLocked, UnresponsiveHeldBack, Recover, ListenerExited,
           Resume, Lock, Unlock, Shutdown, Timeout, Joined, Detached, TornDown, Spawn, NoSpawn,
           SpawnFails, supVars, history
    <2>2. 0 <= age
      OBVIOUS
    <2>. QED BY <2>1, <2>2
  <1>2. ASSUME NEW l \in Listeners,
               ListenerStep(l) \/ Break(l) \/ Hang(l) \/ ComeBack(l) \/ GoDeaf(l)
        PROVE  Noted'
    BY <1>2 DEF ListenerStep, Arm, Install, Unhook, Report, Break, Hang, ComeBack, GoDeaf,
           supVars, history
  <1>3. ASSUME NEW elevated \in BOOLEAN, Press(elevated) PROVE Noted'
    BY <1>3 DEF Press, supVars, history
  <1>4. CASE Outside \/ DeviceChange \/ DeviceSettles \/ DelayPasses
    BY <1>4 DEF Outside, DeviceChange, DeviceSettles, DelayPasses, supVars, history
  <1>5. CASE Tick
    BY <1>5 DEF Tick, Capped
  <1>6. CASE UNCHANGED vars
    BY <1>6 DEF vars, supVars, history
  <1>. QED BY <1>1, <1>2, <1>3, <1>4, <1>5, <1>6 DEF Next

-----------------------------------------------------------------------------
LEMMA InitInv == Init => IInv
  <1>. SUFFICES ASSUME Init PROVE IInv
    OBVIOUS
  <1>. USE HookSupervisorAssumption DEF Init
  <1>0. Threads
    BY DEF Threads, Phases
  <1>1. Flags
    <2>1. queue \in Seq(EventKinds)
      OBVIOUS
    <2>. QED BY <2>1 DEF Flags
  <1>2. Clocks
    BY DEF HookSupervisorAssumption, Clocks
  <1>3. Tracked
    BY DEF HookSupervisorAssumption, Tracked, Alive
  <1>4. Silent /\ Noted
    BY DEF Silent, Noted
  <1>. QED BY <1>0, <1>1, <1>2, <1>3, <1>4 DEF IInv

LEMMA NextInv == IInv /\ [Next]_vars => IInv'
  BY HookSupervisorAssumption, TrackedStep, FlagsStep, ClocksStep, SilentStep, NotedStep DEF IInv

(* The state keeps its types. *)
THEOREM SupervisorTyped == Spec => []TypeOK
  <1>1. IInv => TypeOK
    BY DEF IInv, Threads, Flags, Clocks, TypeOK
  <1>. QED BY InitInv, NextInv, <1>1, PTL DEF Spec

(* At most one listener of the supervisor's handles the keyboard, however  *)
(* many hang, fail or are let go of.                                       *)
THEOREM OneHandler == Spec => []OneHandlerUnlessAdrift
  <1>1. IInv => OneHandlerUnlessAdrift
    <2>. SUFFICES ASSUME IInv PROVE OneHandlerUnlessAdrift
      OBVIOUS
    <2>. DEFINE H == Handling \ adrift
    <2>1. \A l \in H : Alive(l) /\ (l = handle \/ l = tearing)
      BY DEF IInv, Tracked, Handling, Alive
    <2>2. \A l, k \in H : l = k
      BY <2>1, HookSupervisorAssumption DEF IInv, Tracked, Threads, Handling,
         HookSupervisorAssumption
    <2>. HIDE DEF H
    <2>3. H = {} \/ \E l : H = {l}
      BY <2>2
    <2>4. CASE H = {}
      BY <2>4, FS_EmptySet DEF OneHandlerUnlessAdrift, H
    <2>5. ASSUME NEW l, H = {l} PROVE Cardinality(H) = 1
      BY <2>5, FS_Singleton
    <2>. QED BY <2>3, <2>4, <2>5 DEF OneHandlerUnlessAdrift, H
  <1>. QED BY InitInv, NextInv, <1>1, PTL DEF Spec

(* No listener of the supervisor's keeps the keyboard of a locked session. *)
THEOREM LockedUnhooked == Spec => []UnhookedWhileLocked
  <1>1. IInv => UnhookedWhileLocked
    BY HookSupervisorAssumption DEF IInv, Tracked, Threads, Alive, Handling, UnhookedWhileLocked
  <1>. QED BY InitInv, NextInv, <1>1, PTL DEF Spec

(* A successor keeps its handle as long as listeners are only evicted. *)
THEOREM SuccessorKept == Spec => EvictionKeepsSuccessor
  <1>1. IInv => (ListenerExited /\ handle \in Listeners /\ phase[handle] # "done" => unevicted)
    <2>. SUFFICES ASSUME IInv, ListenerExited PROVE unevicted
      OBVIOUS
    <2>1. queue # <<>> /\ Head(queue) = "exited" /\ queue \in Seq(EventKinds)
      BY DEF ListenerExited, Received, IInv, Flags
    <2>2. 1 \in DOMAIN queue /\ queue[1] = "exited"
      BY <2>1
    <2>. QED BY <2>2 DEF IInv, Silent
  <1>. QED BY InitInv, NextInv, <1>1, PTL DEF Spec, EvictionKeepsSuccessor

(* A newborn listener is only torn down for missed keys while its start is *)
(* not yet noted.                                                          *)
THEOREM NewbornSpared == Spec => NewbornCondemnedOnlyIf
  <1>1. IInv => (Recover /\ handle \in Listeners /\ age < Newborn => ~seen)
    BY HookSupervisorAssumption DEF HookSupervisorAssumption, IInv, Noted, Clocks, Recover,
       NewbornHeld
  <1>. QED BY InitInv, NextInv, <1>1, PTL DEF Spec, NewbornCondemnedOnlyIf
================================================================================
