---------------------------- MODULE HookSupervisor ----------------------------
(***************************************************************************)
(* The keyboard hook and the threads that keep it alive on Windows         *)
(* (daemon/src/hook/supervisor.rs, listener/windows.rs, listener/mod.rs,   *)
(* raw_input.rs and input/hook_health.rs).                                 *)
(*                                                                         *)
(* A listener thread captures LISTENER_EPOCH, installs the low-level hook  *)
(* and pumps messages until WM_QUIT.  The supervisor thread reads events   *)
(* from an unbounded channel: power and session events, exit reports of    *)
(* listeners, and the raw-input watchdog's complaint that three presses    *)
(* went past the hook.  It tears a listener down, waiting two seconds at   *)
(* most, and starts the next one.  An exit report names neither its        *)
(* listener nor its epoch, so the supervisor takes each for its own's.     *)
(***************************************************************************)
EXTENDS Naturals, Sequences, FiniteSets

CONSTANTS Listeners,  \* names for listener threads, used again once one is done
          None,
          Unspawned,  \* the handle of a thread that could not be started
          MissedPressThreshold,
          Newborn,    \* NEWBORN_LISTENER_GRACE_MS, in seconds
          Startup,    \* the seconds a listener has to enter its grab
          BackoffCap, \* the cap of recovery_backoff_secs
          MaxQueue,   \* bound: events waiting when a press may add another
          MaxEvents   \* bound: power and session events, device changes, failures
                      \* and hangs, all together

ASSUME HookSupervisorAssumption ==
    /\ None # Unspawned
    /\ {None, Unspawned} \cap Listeners = {}
    /\ Newborn \in Nat /\ Startup \in Nat /\ BackoffCap \in Nat /\ MaxQueue \in Nat
    /\ MaxEvents \in Nat
    /\ Newborn <= Startup
    /\ MissedPressThreshold \in Nat \ {0}

VARIABLES
    queue,         \* the supervisor's channel
    sup,           \* where the supervisor thread is
    tearing,       \* the listener tear_down_listener waits for
    handle,        \* listener_handle
    held,          \* next_spawn_allowed_after lies ahead
    locked,        \* is_session_locked
    streak,        \* unresponsive_streak
    sinceRecovery, \* last_unresponsive_recovery.elapsed(), in seconds
    seen,          \* last_seen_started_unix is the newest start
    sinceSeen,     \* last_seen_started_instant.elapsed(), in seconds
    phase,         \* where each listener thread is
    stale,         \* its my_epoch is no longer LISTENER_EPOCH
    hung,          \* its thread does not run
    quit,          \* WM_QUIT is in its message queue
    entered,       \* hook_entered_grab_at_unix_ms is set
    acked,         \* a key event came after last_fired_event_mark
    misses,        \* consecutive_missed_raw_inputs
    deviceHeld,    \* within DEVICE_CHANGE_GRACE_MS of a device change
    sessionLocked, \* the session, as Windows knows it
    complained,    \* bound: the watchdog complains once a second at most
    events,        \* bound: how many outside events there have been
    age,           \* history: seconds since the newest start
    adrift,        \* history: running listeners whose handle was dropped
    unevicted      \* history: a listener ended, or was told to, in its own epoch

supVars == <<sup, tearing, handle, held, locked, streak, sinceRecovery, seen, sinceSeen>>
lisVars == <<phase, stale, hung, quit>>
healthVars == <<entered, acked, misses>>
outside == <<deviceHeld, sessionLocked, complained, events>>
history == <<age, adrift, unevicted>>
vars == <<queue, supVars, lisVars, healthVars, outside, history>>

(* A thread is "spawned", captures the epoch ("armed"), installs its hook  *)
(* ("hooked"; "deaf" once Windows has silently removed it), comes back     *)
(* from windows_grab ("returned", or "failed" with an error) and is "done" *)
(* after its report.                                                       *)
Phases == {"none", "spawned", "armed", "hooked", "deaf", "returned", "failed", "done"}
EventKinds == {"unresponsive", "exited", "resume", "lock", "unlock", "shutdown"}

Send(event) == queue' = Append(queue, event)

Capped(n, cap) == IF n < cap THEN n ELSE cap

(* recovery_backoff_secs: 1, 2, 4, ... up to the cap *)
RecoveryBackoff(n) == Capped(2 ^ n, BackoffCap)

(* The listeners that process keys: installed, and of the current epoch.  *)
(* The callback of an outdated one passes every event on.                 *)
Handling == {l \in Listeners : phase[l] = "hooked" /\ ~stale[l]}

Init ==
    /\ queue = <<>>
    /\ sup = "tail"
    /\ tearing = None
    /\ handle = None
    /\ held = FALSE
    /\ locked = FALSE
    /\ streak = 0
    /\ sinceRecovery = BackoffCap
    /\ seen = FALSE
    /\ sinceSeen = 0
    /\ phase = [l \in Listeners |-> "none"]
    /\ stale = [l \in Listeners |-> FALSE]
    /\ hung = [l \in Listeners |-> FALSE]
    /\ quit = [l \in Listeners |-> FALSE]
    /\ entered = FALSE
    /\ acked = FALSE
    /\ misses = 0
    /\ deviceHeld = FALSE
    /\ sessionLocked = FALSE
    /\ complained = FALSE
    /\ events = 0
    /\ age = 0
    /\ adrift = {}
    /\ unevicted = FALSE

(* Something happens to the daemon from outside. *)
Befalls ==
    /\ events < MaxEvents
    /\ events' = events + 1

-----------------------------------------------------------------------------
(* The supervisor thread *)

Received(kind) ==
    /\ sup = "poll"
    /\ queue # <<>>
    /\ Head(queue) = kind
    /\ queue' = Tail(queue)

(* Mutant: the handle is dropped and the thread not told. *)
TearDownUntold(wait, next, evicts) ==
    /\ handle' = None
    /\ sup' = next
    /\ UNCHANGED <<tearing, quit, unevicted>>

(* tear_down_listener, first half: take the handle and post WM_QUIT.  A    *)
(* thread that hangs before it has a message queue never gets the message. *)
TearDown(wait, next, evicts) ==
    /\ handle' = None
    /\ unevicted' = (unevicted \/ (handle \in Listeners /\ ~evicts))
    /\ IF handle \in Listeners
       THEN /\ sup' = wait
            /\ tearing' = handle
            /\ \/ quit' = [quit EXCEPT ![handle] = phase[handle] # "done"]
               \/ /\ hung[handle]
                  /\ phase[handle] \in {"spawned", "armed"}
                  /\ UNCHANGED quit
       ELSE /\ sup' = next
            /\ UNCHANGED <<tearing, quit>>

(* Mutant: misses of a newborn listener count. *)
NewbornNotHeld == FALSE

StormHeld   == sinceRecovery < RecoveryBackoff(streak)
NewbornHeld == sinceSeen < Newborn

(* LISTENER_EPOCH.fetch_add: whatever has captured its epoch is outdated *)
NewEpoch ==
    stale' = [l \in Listeners |->
                 stale[l] \/ phase[l] \in {"armed", "hooked", "deaf", "returned", "failed"}]

(* HookUnresponsive is ignored while the session is locked, and skips the  *)
(* rest of the loop                                                        *)
UnresponsiveLocked ==
    /\ Received("unresponsive")
    /\ locked
    /\ UNCHANGED <<supVars, lisVars, healthVars, outside, history>>

(* Mutant: a complaint that is held back starts the delay again. *)
UnresponsiveRestartsDelay ==
    /\ Received("unresponsive")
    /\ ~locked
    /\ StormHeld \/ NewbornHeld \/ deviceHeld
    /\ sup' = "tail"
    /\ sinceRecovery' = 0
    /\ UNCHANGED <<tearing, handle, held, locked, streak, seen, sinceSeen, lisVars, healthVars,
                   outside, history>>

(* HookUnresponsive during the storm delay, the grace of a newborn         *)
(* listener, or a device change                                            *)
UnresponsiveHeldBack ==
    /\ Received("unresponsive")
    /\ ~locked
    /\ StormHeld \/ NewbornHeld \/ deviceHeld
    /\ sup' = "tail"
    /\ UNCHANGED <<tearing, handle, held, locked, streak, sinceRecovery, seen, sinceSeen,
                   lisVars, healthVars, outside, history>>

(* HookUnresponsive: a new epoch, and the listener is torn down *)
Recover ==
    /\ Received("unresponsive")
    /\ ~locked /\ ~StormHeld /\ ~NewbornHeld /\ ~deviceHeld
    /\ sinceRecovery' = 0
    /\ acked' = FALSE
    /\ streak' = Capped(streak + 1, BackoffCap)
    /\ NewEpoch
    /\ TearDown("tearing", "tail", handle \in Listeners => phase[handle] # "spawned")
    /\ held' = FALSE
    /\ UNCHANGED <<locked, seen, sinceSeen, phase, hung, entered, misses, outside, age, adrift>>

(* ListenerExited: the handle there is, whoever's it is, is let go of *)
ListenerExited ==
    /\ Received("exited")
    /\ handle' = None
    /\ held' = TRUE
    /\ sup' = "tail"
    /\ adrift' = adrift \cup {l \in {handle} \cap Listeners : phase[l] # "done"}
    /\ UNCHANGED <<tearing, locked, streak, sinceRecovery, seen, sinceSeen,
                   lisVars, healthVars, outside, age, unevicted>>

(* ResumeAutomatic, ResumeFromSuspend *)
Resume ==
    /\ Received("resume")
    /\ TearDown("tearing", "tail", FALSE)
    /\ held' = TRUE
    /\ UNCHANGED <<locked, streak, sinceRecovery, seen, sinceSeen, phase, stale, hung,
                   healthVars, outside, age, adrift>>

(* SessionLock *)
Lock ==
    /\ Received("lock")
    /\ locked' = TRUE
    /\ TearDown("tearing", "tail", FALSE)
    /\ UNCHANGED <<held, streak, sinceRecovery, seen, sinceSeen, phase, stale, hung,
                   healthVars, outside, age, adrift>>

(* SessionUnlock, SessionLogon *)
Unlock ==
    /\ Received("unlock")
    /\ locked' = FALSE
    /\ TearDown("tearing", "tail", FALSE)
    /\ held' = TRUE
    /\ UNCHANGED <<streak, sinceRecovery, seen, sinceSeen, phase, stale, hung,
                   healthVars, outside, age, adrift>>

Shutdown ==
    /\ Received("shutdown")
    /\ TearDown("closing", "stopped", FALSE)
    /\ UNCHANGED <<held, locked, streak, sinceRecovery, seen, sinceSeen, phase, stale, hung,
                   healthVars, outside, age, adrift>>

SilentExit == handle = Unspawned \/ (handle \in Listeners /\ phase[handle] = "done")

(* The watchdog, after half a second without an event: it forgives the     *)
(* streak, notes a new start, and restarts a listener that hangs before    *)
(* its grab or whose thread is gone                                        *)
Timeout ==
    /\ sup = "poll"
    /\ queue = <<>>
    /\ streak' = IF acked THEN 0 ELSE streak
    /\ IF locked \/ handle = None
       THEN /\ sup' = "tail"
            /\ UNCHANGED <<tearing, handle, seen, sinceSeen, quit, unevicted>>
       ELSE /\ seen' = TRUE
            /\ sinceSeen' = IF seen THEN sinceSeen ELSE 0
            /\ IF (~entered /\ sinceSeen' >= Startup) \/ SilentExit
               THEN TearDown("tearing", "tail", FALSE)
               ELSE sup' = "tail" /\ UNCHANGED <<tearing, handle, quit, unevicted>>
    /\ UNCHANGED <<queue, held, locked, sinceRecovery, phase, stale, hung, healthVars, outside,
                   age, adrift>>

TornDown(wait, next) ==
    /\ sup = wait
    /\ sup' = next
    /\ tearing' = None
    /\ UNCHANGED <<queue, handle, held, locked, streak, sinceRecovery, seen, sinceSeen, lisVars,
                   healthVars, outside, age, unevicted>>

(* tear_down_listener, second half: the thread has finished, or two        *)
(* seconds have passed and it is left to itself.  Only a thread that hangs *)
(* or never got the message takes that long.                               *)
Joined(wait, next) ==
    /\ TornDown(wait, next)
    /\ phase[tearing] = "done"
    /\ UNCHANGED adrift

Detached(wait, next) ==
    /\ TornDown(wait, next)
    /\ phase[tearing] # "done"
    /\ hung[tearing] \/ ~quit[tearing]
    /\ adrift' = adrift \cup {tearing}

(* A name that nothing refers to any more *)
Free == {l \in Listeners \ {handle} : phase[l] \in {"none", "done"}}

(* Mutant: the lock does not hold back a new listener. *)
MaySpawnLocked == handle = None /\ ~held

MaySpawn == handle = None /\ ~locked /\ ~held

(* The end of the loop: spawn_windows_hook_listener when there is none *)
Spawn ==
    /\ sup = "tail"
    /\ MaySpawn
    /\ Free # {}
    /\ sup' = "poll"
    /\ LET l == CHOOSE x \in Free : TRUE
       IN  /\ handle' = l
           /\ phase' = [phase EXCEPT ![l] = "spawned"]
    /\ age' = 0
    /\ seen' = FALSE
    /\ misses' = 0
    /\ UNCHANGED <<queue, tearing, held, locked, streak, sinceRecovery, sinceSeen, stale, hung,
                   quit, entered, acked, outside, adrift, unevicted>>

(* The thread cannot be started, or is killed before it names itself *)
SpawnFails ==
    /\ sup = "tail"
    /\ MaySpawn
    /\ Befalls
    /\ sup' = "poll"
    /\ handle' = Unspawned
    /\ Send("exited")
    /\ age' = 0
    /\ seen' = FALSE
    /\ misses' = 0
    /\ unevicted' = TRUE
    /\ UNCHANGED <<tearing, held, locked, streak, sinceRecovery, sinceSeen, lisVars, entered,
                   acked, deviceHeld, sessionLocked, complained, adrift>>

NoSpawn ==
    /\ sup = "tail"
    /\ ~MaySpawn
    /\ sup' = "poll"
    /\ UNCHANGED <<queue, tearing, handle, held, locked, streak, sinceRecovery, seen, sinceSeen,
                   lisVars, healthVars, outside, history>>

Supervisor ==
    \/ UnresponsiveLocked \/ UnresponsiveHeldBack \/ Recover \/ ListenerExited
    \/ Resume \/ Lock \/ Unlock \/ Shutdown \/ Timeout
    \/ Joined("tearing", "tail") \/ Joined("closing", "stopped")
    \/ Detached("tearing", "tail") \/ Detached("closing", "stopped")
    \/ Spawn \/ NoSpawn

-----------------------------------------------------------------------------
(* A listener thread *)

Runs(l, at) == phase[l] \in at /\ ~hung[l]
MovesTo(l, to) == phase' = [phase EXCEPT ![l] = to]

(* run_listener_once: capture the epoch, mark the grab as entered *)
Arm(l) ==
    /\ Runs(l, {"spawned"})
    /\ MovesTo(l, "armed")
    /\ entered' = TRUE
    /\ misses' = 0
    /\ UNCHANGED <<queue, supVars, stale, hung, quit, acked, outside, history>>

(* windows_grab: SetWindowsHookExW *)
Install(l) ==
    /\ Runs(l, {"armed"})
    /\ MovesTo(l, "hooked")
    /\ UNCHANGED <<queue, supVars, stale, hung, quit, healthVars, outside, history>>

(* windows_grab fails to install a hook, or its message loop breaks *)
Break(l) ==
    /\ Befalls
    /\ \/ Runs(l, {"armed"}) /\ MovesTo(l, "failed")
       \/ Runs(l, {"hooked", "deaf"}) /\ MovesTo(l, "returned")
    /\ unevicted' = TRUE
    /\ UNCHANGED <<queue, supVars, stale, hung, quit, healthVars, deviceHeld, sessionLocked,
                   complained, age, adrift>>

(* windows_grab: WM_QUIT ends the message loop, and it unhooks *)
Unhook(l) ==
    /\ Runs(l, {"hooked", "deaf"})
    /\ quit[l]
    /\ MovesTo(l, "returned")
    /\ UNCHANGED <<queue, supVars, stale, hung, quit, healthVars, outside, history>>

(* Mutant: an evicted listener reports too. *)
EvictedNever(l) == FALSE

(* Only a listener that returned without an error knows its epoch, and is  *)
(* silent when it was evicted                                              *)
Evicted(l) == phase[l] = "returned" /\ stale[l]

(* The end of the thread: report the exit unless evicted *)
Report(l) ==
    /\ Runs(l, {"returned", "failed"})
    /\ MovesTo(l, "done")
    /\ IF Evicted(l) THEN UNCHANGED queue ELSE Send("exited")
    /\ stale' = [stale EXCEPT ![l] = FALSE]
    /\ quit' = [quit EXCEPT ![l] = FALSE]
    /\ adrift' = adrift \ {l}
    /\ UNCHANGED <<supVars, hung, healthVars, outside, age, unevicted>>

ListenerStep(l) == Arm(l) \/ Install(l) \/ Unhook(l) \/ Report(l)

(* A callback or a system call blocks; when it comes back, Windows may     *)
(* have dropped the hook that did not answer                               *)
Hang(l) ==
    /\ Runs(l, {"spawned", "armed", "hooked"})
    /\ \A other \in Listeners : ~hung[other]   \* bound: one hang at a time
    /\ Befalls
    /\ hung' = [hung EXCEPT ![l] = TRUE]
    /\ UNCHANGED <<queue, supVars, phase, stale, quit, healthVars, deviceHeld, sessionLocked,
                   complained, history>>

ComeBack(l) ==
    /\ hung[l]
    /\ hung' = [hung EXCEPT ![l] = FALSE]
    /\ \/ UNCHANGED phase
       \/ phase[l] = "hooked" /\ MovesTo(l, "deaf")
    /\ UNCHANGED <<queue, supVars, stale, quit, healthVars, outside, history>>

(* Windows silently removes a hook that was too slow *)
GoDeaf(l) ==
    /\ Runs(l, {"hooked"})
    /\ Befalls
    /\ MovesTo(l, "deaf")
    /\ UNCHANGED <<queue, supVars, stale, hung, quit, healthVars, deviceHeld, sessionLocked,
                   complained, history>>

-----------------------------------------------------------------------------
(* The user, the session and time *)

(* A physical press: the hook callback records it, or the raw-input window *)
(* counts it as missed and complains at the third, except over an elevated *)
(* window                                                                  *)
Press(elevated) ==
    /\ sup # "stopped"
    /\ Len(queue) < MaxQueue /\ ~complained
    /\ IF \E l \in Handling : ~hung[l]
       THEN acked' = TRUE /\ misses' = 0 /\ UNCHANGED <<queue, complained>>
       ELSE /\ misses' = (misses + 1) % MissedPressThreshold
            /\ complained' = (misses' = 0)
            /\ IF complained' /\ ~elevated THEN Send("unresponsive") ELSE UNCHANGED queue
            /\ UNCHANGED acked
    /\ IF elevated THEN Befalls ELSE UNCHANGED events
    /\ UNCHANGED <<supVars, lisVars, entered, deviceHeld, sessionLocked, history>>

(* power.rs, window_proc *)
Power ==
    \/ Befalls /\ Send("resume") /\ UNCHANGED sessionLocked
    \/ ~sessionLocked /\ Befalls /\ Send("lock") /\ sessionLocked' = TRUE
    \/ sessionLocked /\ Send("unlock") /\ sessionLocked' = FALSE /\ UNCHANGED events
    \/ Befalls /\ Send("shutdown") /\ UNCHANGED sessionLocked

Outside ==
    /\ Power
    /\ UNCHANGED <<supVars, lisVars, healthVars, deviceHeld, complained, history>>

(* device_monitor::mark_device_change, and the end of its grace *)
DeviceChange ==
    /\ Befalls
    /\ deviceHeld' = TRUE
    /\ UNCHANGED <<queue, supVars, lisVars, healthVars, sessionLocked, complained, history>>

DeviceSettles ==
    /\ deviceHeld
    /\ deviceHeld' = FALSE
    /\ UNCHANGED <<queue, supVars, lisVars, healthVars, sessionLocked, complained, events,
                   history>>

(* The 50 to 200 ms before a new listener may start *)
DelayPasses ==
    /\ held
    /\ held' = FALSE
    /\ UNCHANGED <<queue, sup, tearing, handle, locked, streak, sinceRecovery, seen, sinceSeen,
                   lisVars, healthVars, outside, history>>

(* A thread that can run does so within a second: delays beyond that are   *)
(* the hang of a listener                                                  *)
Blocked(l) ==
    \/ hung[l] \/ phase[l] \in {"none", "done"}
    \/ phase[l] \in {"hooked", "deaf"} /\ ~quit[l]

Idle ==
    /\ ~held
    /\ \A l \in Listeners : Blocked(l)
    /\ \/ sup = "poll" /\ queue = <<>>
       \/ sup \in {"tearing", "closing"} /\ phase[tearing] # "done"
       \/ sup = "stopped"

Tick ==
    /\ Idle
    /\ sinceRecovery' = Capped(sinceRecovery + 1, BackoffCap)
    /\ sinceSeen' = Capped(sinceSeen + 1, Startup)
    /\ age' = Capped(age + 1, Newborn)
    /\ complained' = FALSE
    /\ UNCHANGED <<queue, sup, tearing, handle, held, locked, streak, seen, lisVars, healthVars,
                   deviceHeld, sessionLocked, events, adrift, unevicted>>

Next ==
    \/ Supervisor \/ SpawnFails
    \/ \E l \in Listeners : ListenerStep(l) \/ Break(l) \/ Hang(l) \/ ComeBack(l) \/ GoDeaf(l)
    \/ \E elevated \in BOOLEAN : Press(elevated)
    \/ Outside \/ DeviceChange \/ DeviceSettles \/ DelayPasses \/ Tick

Spec == Init /\ [][Next]_vars

(* The supervisor and every listener thread that does not hang run on,     *)
(* time passes, and the user goes on typing in ordinary windows.  A hang   *)
(* need not end.                                                           *)
Fairness ==
    /\ WF_vars(Supervisor)
    /\ \A l \in Listeners : WF_vars(ListenerStep(l))
    /\ WF_vars(Press(FALSE))
    /\ WF_vars(DeviceSettles) /\ WF_vars(DelayPasses) /\ SF_vars(Tick)

FairSpec == Spec /\ Fairness

-----------------------------------------------------------------------------
TypeOK ==
    /\ queue \in Seq(EventKinds)
    /\ sup \in {"poll", "tearing", "closing", "tail", "stopped"}
    /\ tearing \in Listeners \cup {None}
    /\ handle \in Listeners \cup {None, Unspawned}
    /\ held \in BOOLEAN /\ locked \in BOOLEAN /\ seen \in BOOLEAN
    /\ streak \in 0..BackoffCap /\ sinceRecovery \in 0..BackoffCap
    /\ sinceSeen \in 0..Startup
    /\ phase \in [Listeners -> Phases]
    /\ stale \in [Listeners -> BOOLEAN]
    /\ hung \in [Listeners -> BOOLEAN]
    /\ quit \in [Listeners -> BOOLEAN]
    /\ entered \in BOOLEAN /\ acked \in BOOLEAN
    /\ misses \in 0..(MissedPressThreshold - 1)
    /\ deviceHeld \in BOOLEAN /\ sessionLocked \in BOOLEAN /\ complained \in BOOLEAN
    /\ events \in 0..MaxEvents
    /\ age \in 0..Newborn
    /\ adrift \subseteq Listeners
    /\ unevicted \in BOOLEAN

(* A key is processed by one listener.  A second one takes part only when  *)
(* the supervisor let go of a listener that still ran: after two seconds   *)
(* of waiting for it, or because the exit report of another was taken for  *)
(* its own (supervisor.rs, tear_down_listener and ListenerExited).         *)
OneHandlerUnlessAdrift == Cardinality(Handling \ adrift) <= 1

(* While the session is locked no listener of the supervisor's keeps the   *)
(* keyboard, so that the secure desktop has it (SessionLock).              *)
UnhookedWhileLocked ==
    locked /\ sup = "poll" => handle = None /\ Handling \subseteq adrift

(* An evicted listener is silent: as long as listeners are only replaced   *)
(* by recoveries, each after its listener has captured its epoch, and none *)
(* fails, no exit report costs a successor its handle (windows.rs,         *)
(* is_evicted).                                                            *)
EvictionKeepsSuccessor ==
    [][ListenerExited /\ handle \in Listeners /\ phase[handle] # "done" => unevicted]_vars

(* A listener younger than NEWBORN_LISTENER_GRACE_MS is torn down for      *)
(* missed keys only when the supervisor has not yet noted its start, which *)
(* it does after half a second without an event and at no other time.      *)
NewbornCondemnedOnlyIf ==
    [][Recover /\ handle \in Listeners /\ age < Newborn => ~seen]_vars

(* Whatever fails, hangs, or is silently unhooked, the keyboard is in the  *)
(* end hooked for good, unless the session stays locked or the supervisor  *)
(* was shut down.                                                          *)
HookComesBack == <>[](sup = "stopped" \/ locked \/ Handling # {})
=============================================================================
