----------------------------- MODULE PauseControl -----------------------------
(***************************************************************************)
(* Pausing the daemon: the shared flag "paused", everybody who changes it, *)
(* and everybody who has to follow it.                                     *)
(*                                                                         *)
(* The flag is changed by the burst counter of the pause hotkey            *)
(* (input/hotkey.rs), by the pause and resume RPCs (services/server.rs),   *)
(* which the tray menu and the command line call, and by a snooze that     *)
(* expires (services/tray/snooze.rs, native.rs, linux.rs).  Each changes   *)
(* the flag first and reports the change afterwards, into a bounded        *)
(* channel from which the coordinator (lib.rs) suspends and restores the   *)
(* clipboard listener, the fullscreen listener and the voice model.  The   *)
(* tray polls the flag, and an icon hint flipped by each press.            *)
(***************************************************************************)
EXTENDS Naturals, Sequences, SequencesExt

CONSTANTS Calls,        \* bound: RPCs under way at a time
          Timers,       \* bound: the snoozes that may be started
          None,
          Platforms,    \* the trays checked: "native" (Windows, macOS), "linux"
          ChannelSize,  \* the capacity of the transition channel
          MaxInputs     \* bound: presses of the chord, menu clicks, commands of
                        \* the client and crashes of the tray together

ASSUME PauseAssumption ==
    /\ None \notin Timers
    /\ "counter" \notin Calls \cup Timers
    /\ Calls \cap Timers = {}
    /\ Platforms \subseteq {"native", "linux"}
    /\ ChannelSize \in Nat \ {0} /\ MaxInputs \in Nat

VARIABLES
    platform,   \* which tray runs; constant
    paused,     \* the flag
    preview,    \* PAUSE_ICON_PREVIEW
    tokens,     \* tokens in the press channel
    counter,    \* the burst counter: where it is, its count's parity, its value
    call,       \* each RPC: what it asks for and how far it is
    ofSnooze,   \* history: the pause RPCs that a snooze begins with
    reports,    \* the transition channel
    coordinator,\* the value it applies, or None
    suspended,  \* the subsystems are suspended
    tray,       \* the tray thread: the steps its handler still has to take
    last,       \* last_paused
    icon,       \* the icon shown: TRUE for the paused one
    active,     \* SnoozeController.active, with target_time
    current,    \* the snooze whose token is SnoozeController.version, or None
    timer,      \* where each snooze task is
    orphan,     \* snoozes of a controller that a crash of the tray dropped
    inputs,     \* counts towards MaxInputs
    unreported, \* history: who changed the flag and has not reported, in order
    snoozed,    \* history: a snooze asked for the present pause
    excuses     \* history: what went wrong

rpcVars == <<call, ofSnooze>>
trayVars == <<tray, last, icon, active, current>>
vars == <<platform, paused, preview, tokens, counter, rpcVars, reports, coordinator, suspended,
          trayVars, timer, orphan, inputs, unreported, snoozed, excuses>>

(* What can go wrong between the flag and those who follow it: a report    *)
(* that a full channel drops, one that overtakes an earlier change's, a    *)
(* change nobody reports; an icon hint stored after the flag moved on; a   *)
(* pause whose end the tray did not see; a snooze that a tray crash forgot, or *)
(* that had found itself current before it was replaced; a snooze whose    *)
(* pause never reached the daemon.                                         *)
Excuses == {"dropped", "overtaken", "unreported", "staleHint", "unseen", "forgotten", "raced",
            "lostPause"}

Init ==
    /\ platform \in Platforms
    /\ paused = FALSE
    /\ preview = FALSE
    /\ tokens = 0
    /\ counter = [at |-> "idle", odd |-> FALSE, value |-> FALSE]
    /\ call = [c \in Calls |-> "idle"]
    /\ ofSnooze = {}
    /\ reports = <<>>
    /\ coordinator = None
    /\ suspended = FALSE
    /\ tray = <<>>
    /\ last = FALSE
    /\ icon = FALSE
    /\ active = FALSE
    /\ current = None
    /\ timer = [t \in Timers |-> "none"]
    /\ orphan = {}
    /\ inputs = 0
    /\ unreported = <<>>
    /\ snoozed = FALSE
    /\ excuses = {}

Input ==
    /\ inputs < MaxInputs
    /\ inputs' = inputs + 1

-----------------------------------------------------------------------------
(* Changing the flag and reporting it *)

(* The flag takes a value; its reporter owes a report. *)
SetFlag(value, reporter) ==
    /\ paused' = value
    /\ unreported' = Append(unreported, reporter)

Others(reporter) == RemoveFirst(unreported, reporter)

Overtakes(reporter) == Head(unreported) # reporter

(* notify_pause_transition: try_send *)
Report(value, reporter) ==
    /\ unreported' = Others(reporter)
    /\ IF Len(reports) < ChannelSize
       THEN /\ reports' = Append(reports, value)
            /\ excuses' = excuses \cup (IF Overtakes(reporter) THEN {"overtaken"} ELSE {})
       ELSE /\ excuses' = excuses \cup {"dropped"}
            /\ UNCHANGED reports

Expiring == {t \in Timers : timer[t] \in {"passed", "quiet"}}

(* An expiry past its check goes on, whatever replaces its snooze *)
Races == IF Expiring # {} THEN {"raced"} ELSE {}

(* Back at what the tray last saw, the flag changed twice behind its back; *)
(* a pause can also begin before the tray has cancelled the last snooze.   *)
Misses(value) ==
    IF value = paused THEN {}
    ELSE (IF value = last THEN {"unseen"} ELSE {})
         \cup (IF value /\ tray # <<>> /\ Head(tray) = "cancel" THEN {"raced"} ELSE {})
         \cup (IF value THEN Races ELSE {})

-----------------------------------------------------------------------------
(* The pause hotkey *)

(* The hook thread, on a press of the chord: flip the hint, queue a token. *)
(* Nothing that happens in between tells the two apart.                    *)
Press ==
    /\ Input
    /\ preview' = ~preview
    /\ tokens' = tokens + 1
    /\ UNCHANGED <<platform, paused, counter, rpcVars, reports, coordinator, suspended, trayVars,
                   timer, orphan, unreported, snoozed, excuses>>

(* spawn_pause_counter: recv of the first token, recv_timeout of the rest *)
CountPress ==
    /\ counter.at \in {"idle", "counting"}
    /\ tokens > 0
    /\ tokens' = tokens - 1
    /\ counter' = [counter EXCEPT !.at = "counting", !.odd = ~@]
    /\ UNCHANGED <<platform, paused, preview, rpcVars, reports, coordinator, suspended,
                   trayVars, timer, orphan, inputs, unreported, snoozed, excuses>>

(* QUIET_WINDOW_MS without a press: an odd burst flips the flag *)
SettleOdd ==
    /\ counter.at = "counting" /\ tokens = 0
    /\ counter.odd
    /\ SetFlag(~paused, "counter")
    /\ counter' = [at |-> "hint", odd |-> TRUE, value |-> ~paused]
    /\ snoozed' = FALSE
    /\ excuses' = excuses \cup Misses(~paused)
    /\ UNCHANGED <<platform, preview, tokens, rpcVars, reports, coordinator, suspended,
                   trayVars, timer, orphan, inputs>>

(* an even one only loads it *)
SettleEven ==
    /\ counter.at = "counting" /\ tokens = 0
    /\ ~counter.odd
    /\ counter' = [at |-> "hint", odd |-> FALSE, value |-> paused]
    /\ UNCHANGED <<platform, paused, preview, tokens, rpcVars, reports, coordinator,
                   suspended, trayVars, timer, orphan, inputs, unreported, snoozed,
                   excuses>>

(* Mutant: the counter leaves the hint alone. *)
CounterLeavesHint ==
    /\ counter.at = "hint"
    /\ counter' = IF counter.odd THEN [counter EXCEPT !.at = "report"]
                  ELSE [counter EXCEPT !.at = "idle"]
    /\ UNCHANGED <<platform, paused, preview, tokens, rpcVars, reports, coordinator,
                   suspended, trayVars, timer, orphan, inputs, unreported, snoozed,
                   excuses>>

(* sync_pause_icon_preview *)
CounterSyncsHint ==
    /\ counter.at = "hint"
    /\ preview' = counter.value
    /\ excuses' = excuses \cup (IF counter.value # paused THEN {"staleHint"} ELSE {})
    /\ counter' = IF counter.odd THEN [counter EXCEPT !.at = "report"]
                  ELSE [counter EXCEPT !.at = "idle"]
    /\ UNCHANGED <<platform, paused, tokens, rpcVars, reports, coordinator, suspended,
                   trayVars, timer, orphan, inputs, unreported, snoozed>>

CounterReports ==
    /\ counter.at = "report"
    /\ Report(counter.value, "counter")
    /\ counter' = [counter EXCEPT !.at = "idle", !.odd = FALSE]
    /\ UNCHANGED <<platform, paused, preview, tokens, rpcVars, coordinator, suspended,
                   trayVars, timer, orphan, inputs, snoozed>>

-----------------------------------------------------------------------------
(* The RPCs *)

(* A call is sent: spawn_daemon_call, handle_pause, handle_resume *)
Sends(what, forSnooze) ==
    LET c == CHOOSE d \in Calls : call[d] = "idle"
    IN  /\ \E d \in Calls : call[d] = "idle"
        /\ call' = [call EXCEPT ![c] = what]
        /\ ofSnooze' = IF forSnooze THEN ofSnooze \cup {c} ELSE ofSnooze

(* The command line pauses or resumes *)
ClientCalls(what) ==
    /\ Input
    /\ Sends(what, FALSE)
    /\ UNCHANGED <<platform, paused, preview, tokens, counter, reports, coordinator,
                   suspended, trayVars, timer, orphan, unreported, snoozed, excuses>>

(* A call that does not reach the daemon is logged and forgotten *)
CallFails(c) ==
    /\ call[c] \in {"pause", "resume"}
    /\ call' = [call EXCEPT ![c] = "idle"]
    /\ ofSnooze' = ofSnooze \ {c}
    /\ excuses' = IF c \in ofSnooze THEN excuses \cup {"lostPause"} ELSE excuses
    /\ UNCHANGED <<platform, paused, preview, tokens, counter, reports, coordinator,
                   suspended, trayVars, timer, orphan, inputs, unreported, snoozed>>

(* pause, resume: swap; there is nothing to report when the flag was there *)
Serve(c) ==
    /\ call[c] \in {"pause", "resume"}
    /\ LET value == call[c] = "pause"
       IN  /\ IF paused = value
              THEN /\ call' = [call EXCEPT ![c] = "idle"]
                   /\ UNCHANGED <<paused, unreported>>
              ELSE /\ SetFlag(value, c)
                   /\ call' = [call EXCEPT ![c] = IF value THEN "reportPause" ELSE "reportResume"]
           /\ snoozed' = (value /\ (c \in ofSnooze \/ (paused /\ snoozed)))
           /\ excuses' = excuses \cup Misses(value)
    /\ ofSnooze' = ofSnooze \ {c}
    /\ UNCHANGED <<platform, preview, tokens, counter, reports, coordinator, suspended,
                   trayVars, timer, orphan, inputs>>

CallReports(c) ==
    /\ call[c] \in {"reportPause", "reportResume"}
    /\ Report(call[c] = "reportPause", c)
    /\ call' = [call EXCEPT ![c] = "idle"]
    /\ UNCHANGED <<platform, paused, preview, tokens, counter, ofSnooze, coordinator, suspended,
                   trayVars, timer, orphan, inputs, snoozed>>

-----------------------------------------------------------------------------
(* The coordinator *)

(* recv, then try_recv until the channel is empty: the latest counts *)
TakeReports ==
    /\ coordinator = None
    /\ reports # <<>>
    /\ coordinator' = Last(reports)
    /\ reports' = <<>>
    /\ UNCHANGED <<platform, paused, preview, tokens, counter, rpcVars, suspended, trayVars,
                   timer, orphan, inputs, unreported, snoozed, excuses>>

(* stop and suspend the listeners, reset the evaluator and unload the      *)
(* model, or start the listeners again                                     *)
ApplyReport ==
    /\ coordinator # None
    /\ suspended' = coordinator
    /\ coordinator' = None
    /\ UNCHANGED <<platform, paused, preview, tokens, counter, rpcVars, reports, trayVars,
                   timer, orphan, inputs, unreported, snoozed, excuses>>

-----------------------------------------------------------------------------
(* The snoozes *)

(* start_snooze: the controller's version becomes the new task's token.    *)
(* Atomic, as cancel is: a task that is past its version check does the    *)
(* same whatever it finds, and one that is not compares afterwards.  The   *)
(* abort that usually spares a replaced task its wakeup is left out, for   *)
(* the task then finds another version and ends.                           *)
StartSnooze(t) ==
    /\ timer' = [timer EXCEPT ![t] = "sleeping"]
    /\ current' = t
    /\ active' = TRUE

(* Mutant: cancel leaves the version to its task. *)
CancelKeepsVersion ==
    /\ active' = FALSE
    /\ snoozed' = FALSE
    /\ UNCHANGED <<timer, current>>

(* cancel *)
CancelSnooze ==
    /\ current' = None
    /\ active' = FALSE
    /\ snoozed' = FALSE
    /\ UNCHANGED timer

(* Mutant: an expiry does not look at the version. *)
OwnsAny(t) == TRUE

(* version == token; an orphan finds its own controller unchanged *)
Owns(t) == t = current \/ t \in orphan

(* The sleep ends.  A snooze lasts minutes, so the call it began with has  *)
(* been served or lost by then.                                            *)
Wake(t) ==
    /\ timer[t] = "sleeping"
    /\ ofSnooze = {} /\ \A i \in DOMAIN tray : tray[i] # "snoozePause"
    /\ timer' = [timer EXCEPT ![t] = IF Owns(t) THEN "passed" ELSE "done"]
    /\ UNCHANGED <<platform, paused, preview, tokens, counter, rpcVars, reports, coordinator,
                   suspended, trayVars, orphan, inputs, unreported, snoozed, excuses>>

(* active, target_time and current_abort are cleared, the current snooze's *)
(* or a later one's                                                        *)
Quiet(t) ==
    /\ timer[t] = "passed"
    /\ timer' = [timer EXCEPT ![t] = "quiet"]
    /\ active' = (active /\ t \in orphan)
    /\ UNCHANGED <<platform, paused, preview, tokens, counter, rpcVars, reports, coordinator,
                   suspended, tray, last, icon, current, orphan, inputs, unreported,
                   snoozed, excuses>>

(* on_expire stores the flag; only native.rs then reports it *)
Expire(t) ==
    /\ timer[t] = "quiet"
    /\ snoozed' = FALSE
    /\ IF platform = "native"
       THEN /\ SetFlag(FALSE, t)
            /\ timer' = [timer EXCEPT ![t] = "report"]
            /\ excuses' = excuses \cup Misses(FALSE)
       ELSE /\ paused' = FALSE
            /\ timer' = [timer EXCEPT ![t] = "call"]
            /\ excuses' = excuses \cup Misses(FALSE) \cup IF paused THEN {"unreported"} ELSE {}
            /\ UNCHANGED unreported
    /\ UNCHANGED <<platform, preview, tokens, counter, rpcVars, reports, coordinator,
                   suspended, trayVars, orphan, inputs>>

(* Mutant: the expiry leaves it to the call to report. *)
ExpirySilent(t) ==
    /\ timer[t] = "report"
    /\ unreported' = Others(t)
    /\ timer' = [timer EXCEPT ![t] = "call"]
    /\ UNCHANGED <<platform, paused, preview, tokens, counter, rpcVars, reports, coordinator,
                   suspended, trayVars, orphan, inputs, snoozed, excuses>>

(* notify_tray_transition *)
ExpiryReports(t) ==
    /\ timer[t] = "report"
    /\ Report(FALSE, t)
    /\ timer' = [timer EXCEPT ![t] = "call"]
    /\ UNCHANGED <<platform, paused, preview, tokens, counter, rpcVars, coordinator, suspended,
                   trayVars, orphan, inputs, snoozed>>

(* spawn_daemon_call("resume"), handle_resume *)
ExpiryCalls(t) ==
    /\ timer[t] = "call"
    /\ Sends("resume", FALSE)
    /\ timer' = [timer EXCEPT ![t] = "done"]
    /\ UNCHANGED <<platform, paused, preview, tokens, counter, reports, coordinator, suspended,
                   trayVars, orphan, inputs, unreported, snoozed, excuses>>

-----------------------------------------------------------------------------
(* The tray *)

(* A click: the menu offers to pause or to resume by the state it shows.   *)
(* native.rs starts a snooze before it calls, linux.rs after.              *)
Click(steps) ==
    /\ tray = <<>>
    /\ Input
    /\ tray' = steps
    /\ UNCHANGED <<platform, paused, preview, tokens, counter, rpcVars, reports, coordinator,
                   suspended, last, icon, active, current, timer, orphan, unreported,
                   snoozed, excuses>>

ClickSnooze ==
    /\ ~last
    /\ \E t \in Timers : timer[t] = "none"
    /\ Click(IF platform = "native" THEN <<"snooze", "snoozePause">>
             ELSE <<"snoozePause", "snooze">>)

ClickPause == ~last /\ Click(<<"cancel", "pause">>)

ClickResume == last /\ Click(<<"cancel", "resume">>)

TraySnoozes ==
    /\ tray # <<>> /\ Head(tray) = "snooze"
    /\ \E t \in Timers : timer[t] = "none"
    /\ StartSnooze(CHOOSE t \in Timers : timer[t] = "none")
    /\ excuses' = excuses \cup Races
    /\ tray' = Tail(tray)
    /\ UNCHANGED <<platform, paused, preview, tokens, counter, rpcVars, reports, coordinator,
                   suspended, last, icon, orphan, inputs, unreported, snoozed>>

TrayCancels ==
    /\ tray # <<>> /\ Head(tray) = "cancel"
    /\ CancelSnooze
    /\ excuses' = excuses \cup Races
    /\ tray' = Tail(tray)
    /\ UNCHANGED <<platform, paused, preview, tokens, counter, rpcVars, reports, coordinator,
                   suspended, last, icon, orphan, inputs, unreported>>

TrayCalls ==
    /\ tray # <<>> /\ Head(tray) \in {"pause", "snoozePause", "resume"}
    /\ Sends(IF Head(tray) = "resume" THEN "resume" ELSE "pause", Head(tray) = "snoozePause")
    /\ tray' = Tail(tray)
    /\ UNCHANGED <<platform, paused, preview, tokens, counter, reports, coordinator, suspended,
                   last, icon, active, current, timer, orphan, inputs, unreported,
                   snoozed, excuses>>

(* The poll finds the flag changed; a pause that ended cancels the snooze *)
PollChange ==
    /\ tray = <<>>
    /\ paused # last
    /\ last' = paused
    /\ tray' = IF last THEN <<"cancel", "sync">> ELSE <<"sync">>
    /\ UNCHANGED <<platform, paused, preview, tokens, counter, rpcVars, reports, coordinator,
                   suspended, icon, active, current, timer, orphan, inputs, unreported,
                   snoozed, excuses>>

(* sync_pause_icon_preview, and the icon *)
TraySyncs ==
    /\ tray # <<>> /\ Head(tray) = "sync"
    /\ preview' = last
    /\ icon' = last
    /\ tray' = Tail(tray)
    /\ UNCHANGED <<platform, paused, tokens, counter, rpcVars, reports, coordinator, suspended,
                   last, active, current, timer, orphan, inputs, unreported, snoozed,
                   excuses>>

(* The poll finds the flag as it was: the icon follows the hint *)
PollHint ==
    /\ tray = <<>>
    /\ paused = last
    /\ icon # preview
    /\ icon' = preview
    /\ UNCHANGED <<platform, paused, preview, tokens, counter, rpcVars, reports, coordinator,
                   suspended, tray, last, active, current, timer, orphan, inputs,
                   unreported, snoozed, excuses>>

(* The native tray's thread panics and runs anew, with another controller *)
TrayRestarts ==
    /\ platform = "native"
    /\ tray = <<>>
    /\ Input
    /\ preview' = paused
    /\ last' = paused
    /\ icon' = paused
    /\ current' = None
    /\ active' = FALSE
    /\ orphan' = IF current # None THEN orphan \cup {current} ELSE orphan
    /\ excuses' = IF current # None THEN excuses \cup {"forgotten"} ELSE excuses
    /\ UNCHANGED <<platform, paused, tokens, counter, rpcVars, reports, coordinator, suspended,
                   tray, timer, unreported, snoozed>>

-----------------------------------------------------------------------------
CounterStep == CountPress \/ SettleOdd \/ SettleEven \/ CounterSyncsHint \/ CounterReports
CallStep(c) == Serve(c) \/ CallReports(c)
CoordinatorStep == TakeReports \/ ApplyReport
ExpiryStep(t) == Quiet(t) \/ Expire(t) \/ ExpiryReports(t) \/ ExpiryCalls(t)
TrayStep ==
    \/ TraySnoozes \/ TrayCancels \/ TrayCalls \/ PollChange \/ TraySyncs \/ PollHint

UserStep ==
    \/ Press
    \/ \E what \in {"pause", "resume"} : ClientCalls(what)
    \/ ClickSnooze \/ ClickPause \/ ClickResume
    \/ TrayRestarts

Next ==
    \/ UserStep
    \/ CounterStep
    \/ \E c \in Calls : CallStep(c) \/ CallFails(c)
    \/ CoordinatorStep
    \/ \E t \in Timers : Wake(t) \/ ExpiryStep(t)
    \/ TrayStep

(* The user, a lost call and the minutes of a snooze owe nothing; every    *)
(* thread and task goes on.                                                *)
Fairness ==
    /\ WF_vars(CounterStep)
    /\ \A c \in Calls : WF_vars(CallStep(c))
    /\ WF_vars(CoordinatorStep)
    /\ \A t \in Timers : WF_vars(ExpiryStep(t))
    /\ WF_vars(TrayStep)

Spec == Init /\ [][Next]_vars
FairSpec == Spec /\ Fairness

-----------------------------------------------------------------------------
Reporters == Calls \cup Timers \cup {"counter"}

(* Every variable keeps its type, and a reporter owes at most one report:  *)
(* the counter, a call and an expiry finish one flip before another.       *)
TypeOK ==
    /\ platform \in Platforms
    /\ {paused, preview, suspended, last, icon, active, snoozed} \subseteq BOOLEAN
    /\ tokens \in 0..MaxInputs
    /\ counter \in [at : {"idle", "counting", "hint", "report"}, odd : BOOLEAN, value : BOOLEAN]
    /\ call \in [Calls -> {"idle", "pause", "resume", "reportPause", "reportResume"}]
    /\ ofSnooze \subseteq Calls
    /\ Len(reports) <= ChannelSize
    /\ coordinator \in BOOLEAN \cup {None}
    /\ Len(tray) <= 2
    /\ current \in Timers \cup {None}
    /\ timer \in [Timers -> {"none", "sleeping", "passed", "quiet", "report", "call", "done"}]
    /\ orphan \subseteq Timers
    /\ \A i \in DOMAIN unreported : unreported[i] \in Reporters
    /\ \A i, j \in DOMAIN unreported : unreported[i] = unreported[j] => i = j
    /\ excuses \subseteq Excuses

(* A snooze that expires ends the pause it began and no other: the tray    *)
(* that sees a pause end cancels the snooze (native.rs, linux.rs), so a    *)
(* later pause made by the hotkey or a client lasts -- unless the tray     *)
(* never saw the end, forgot the snooze in a restart, came after the       *)
(* version check, or the snooze's own pause was lost.                      *)
ExpiryUnpausesOwn ==
    [][\A t \in Timers :
          (timer[t] = "quiet" /\ timer'[t] # "quiet" /\ paused)
              => (snoozed \/ excuses \cap {"unseen", "forgotten", "raced", "lostPause"} # {})]_vars

(* While a snooze of the tray's controller runs, the controller says so    *)
(* and the menu counts it down, unless an expiry past its version check    *)
(* cleared what a later start_snooze set (snooze.rs).                      *)
SnoozeShownUnlessRaced ==
    \A t \in Timers : (timer[t] = "sleeping" /\ t = current) => (active \/ "raced" \in excuses)

(* Once the user rests, the listeners and the voice model are suspended    *)
(* exactly while the daemon is paused, unless a report was dropped by a    *)
(* full channel, overtook an earlier one, or was never sent (lib.rs).      *)
SubsystemsFollow ==
    <>[](suspended = paused \/ excuses \cap {"dropped", "overtaken", "unreported"} # {})

(* What the comment of native.rs asks for the expiry of a snooze, taken as *)
(* the rule of both trays: the coordinator learns about every change, so   *)
(* only a report lost or overtaken in the channel leaves it behind.        *)
CoordinatorLearns ==
    <>[](suspended = paused \/ excuses \cap {"dropped", "overtaken"} # {})

(* Once the user rests, the icon shows what the flag is: whatever hint the *)
(* presses left, the counter or the tray corrects it, unless the counter   *)
(* stored its value after the flag and the tray had moved on, or a call    *)
(* changed the flag back before the tray polled (hotkey.rs, server.rs).    *)
IconSettles == <>[](icon = paused \/ excuses \cap {"staleHint", "unseen"} # {})
=============================================================================
