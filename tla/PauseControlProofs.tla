-------------------------- MODULE PauseControlProofs --------------------------
(***************************************************************************)
(* That the countdown of a snooze is shown while it runs, and that its     *)
(* expiry ends its own pause only, for any number of calls, snoozes and    *)
(* inputs, and a channel of any size; and the types.                       *)
(***************************************************************************)
EXTENDS PauseControl, SequenceTheorems, TLAPS

TimerStates == {"none", "sleeping", "passed", "quiet", "report", "call", "done"}

TimersOK == timer \in [Timers -> TimerStates]

(* An expiry that is past its version check and about to clear "active" is *)
(* the present controller's, unless a start or a cancel has raced with it. *)
PassedIsCurrent ==
    \A t \in Timers :
        (timer[t] = "passed" /\ t \notin orphan) => (t = current \/ "raced" \in excuses)

IInv == TimersOK /\ SnoozeShownUnlessRaced /\ PassedIsCurrent

LEMMA InitInv == Init => IInv
BY PauseAssumption DEF Init, IInv, TimersOK, TimerStates, SnoozeShownUnlessRaced, PassedIsCurrent

(* What the steps that leave the snoozes alone have in common: no timer,   *)
(* controller or orphan changes, and the history only grows.               *)
Aside ==
    /\ UNCHANGED <<timer, current, active, orphan>>
    /\ "raced" \in excuses => "raced" \in excuses'

LEMMA AsideInv == IInv /\ Aside => IInv'
BY DEF IInv, Aside, TimersOK, SnoozeShownUnlessRaced, PassedIsCurrent

LEMMA InputsAside ==
    Press \/ ClickSnooze \/ ClickPause \/ ClickResume
        \/ (\E what \in {"pause", "resume"} : ClientCalls(what)) => Aside
BY DEF Press, ClickSnooze, ClickPause, ClickResume, Click, ClientCalls, Aside, trayVars

LEMMA CounterAside == CounterStep => Aside
BY DEF CounterStep, CountPress, SettleOdd, SettleEven, CounterSyncsHint, CounterReports, Report,
       Aside, trayVars

LEMMA CallAside == ASSUME NEW c \in Calls PROVE CallStep(c) \/ CallFails(c) => Aside
BY DEF CallStep, CallFails, Serve, CallReports, Report, Aside, trayVars

LEMMA CoordinatorAside == CoordinatorStep => Aside
BY DEF CoordinatorStep, TakeReports, ApplyReport, Aside, trayVars

LEMMA TrayAside == TrayCalls \/ PollChange \/ TraySyncs \/ PollHint => Aside
BY DEF TrayCalls, PollChange, TraySyncs, PollHint, Aside

(* A snooze begins or is cancelled: an expiry past its check is raced. *)
LEMMA ControllerInv == IInv /\ (TraySnoozes \/ TrayCancels) => IInv'
<1>1. ASSUME IInv, TraySnoozes PROVE IInv'
  <2> DEFINE n == CHOOSE t \in Timers : timer[t] = "none"
  <2>1. n \in Timers /\ timer[n] = "none"
    BY <1>1 DEF TraySnoozes
  <2> HIDE DEF n
  <2>2. /\ timer' = [timer EXCEPT ![n] = "sleeping"] /\ current' = n /\ active' = TRUE
        /\ orphan' = orphan /\ excuses' = excuses \cup Races
    BY <1>1 DEF TraySnoozes, StartSnooze, n
  <2> QED
    BY <1>1, <2>1, <2>2 DEF IInv, TimersOK, TimerStates, SnoozeShownUnlessRaced, PassedIsCurrent,
       Races, Expiring
<1>2. ASSUME IInv, TrayCancels PROVE IInv'
  BY <1>2, PauseAssumption DEF TrayCancels, CancelSnooze, IInv, TimersOK, TimerStates,
     SnoozeShownUnlessRaced, PassedIsCurrent, Races, Expiring
<1> QED
  BY <1>1, <1>2

(* The controller of a tray that crashed leaves its snooze as an orphan. *)
LEMMA RestartInv == IInv /\ TrayRestarts => IInv'
BY PauseAssumption DEF TrayRestarts, IInv, TimersOK, SnoozeShownUnlessRaced, PassedIsCurrent

LEMMA TimerInv == ASSUME NEW t \in Timers, IInv, Wake(t) \/ ExpiryStep(t) PROVE IInv'
<1>1. CASE Wake(t)
  BY <1>1 DEF Wake, Owns, IInv, TimersOK, TimerStates, SnoozeShownUnlessRaced, PassedIsCurrent,
     trayVars
<1>2. CASE Quiet(t)
  <2>1. t \in orphan \/ t = current \/ "raced" \in excuses
    BY <1>2 DEF Quiet, IInv, PassedIsCurrent
  <2> QED
    BY <1>2, <2>1 DEF Quiet, IInv, TimersOK, TimerStates, SnoozeShownUnlessRaced, PassedIsCurrent
<1>3. CASE Expire(t)
  <2>1. /\ timer[t] = "quiet" /\ UNCHANGED <<current, active, orphan>>
        /\ "raced" \in excuses => "raced" \in excuses'
        /\ \E s \in {"report", "call"} : timer' = [timer EXCEPT ![t] = s]
    BY <1>3 DEF Expire, trayVars
  <2> QED
    BY <2>1 DEF IInv, TimersOK, TimerStates, SnoozeShownUnlessRaced, PassedIsCurrent
<1>4. CASE ExpiryReports(t) \/ ExpiryCalls(t)
  <2>1. /\ timer[t] \in {"report", "call"} /\ UNCHANGED <<current, active, orphan>>
        /\ "raced" \in excuses => "raced" \in excuses'
        /\ \E s \in {"call", "done"} : timer' = [timer EXCEPT ![t] = s]
    BY <1>4 DEF ExpiryReports, ExpiryCalls, Report, trayVars
  <2> QED
    BY <2>1 DEF IInv, TimersOK, TimerStates, SnoozeShownUnlessRaced, PassedIsCurrent
<1> QED
  BY <1>1, <1>2, <1>3, <1>4 DEF ExpiryStep

LEMMA NextInv == IInv /\ [Next]_vars => IInv'
<1> SUFFICES ASSUME IInv, [Next]_vars PROVE IInv'
  OBVIOUS
<1>1. CASE UserStep
  BY <1>1, InputsAside, RestartInv, AsideInv DEF UserStep
<1>2. CASE CounterStep \/ CoordinatorStep
  BY <1>2, CounterAside, CoordinatorAside, AsideInv
<1>3. CASE \E c \in Calls : CallStep(c) \/ CallFails(c)
  BY <1>3, CallAside, AsideInv
<1>4. CASE \E t \in Timers : Wake(t) \/ ExpiryStep(t)
  BY <1>4, TimerInv
<1>5. CASE TrayStep
  BY <1>5, TrayAside, ControllerInv, AsideInv DEF TrayStep
<1>6. CASE UNCHANGED vars
  BY <1>6, AsideInv DEF Aside, vars, trayVars
<1> QED
  BY <1>1, <1>2, <1>3, <1>4, <1>5, <1>6 DEF Next

(* While a snooze of the tray's controller runs, the controller is active  *)
(* and the menu counts it down, unless an expiry past its version check    *)
(* cleared what a later start_snooze set (services/tray/snooze.rs).        *)
THEOREM SnoozeShown == Spec => []SnoozeShownUnlessRaced
<1>1. IInv => SnoozeShownUnlessRaced
  BY DEF IInv
<1> QED
  BY InitInv, NextInv, <1>1, PTL DEF Spec

-----------------------------------------------------------------------------
(* What is left of the tray's handlers: native.rs starts a snooze before   *)
(* it calls, linux.rs after.                                               *)
Handlers ==
    {<<>>, <<"cancel", "pause">>, <<"pause">>, <<"cancel", "resume">>, <<"resume">>,
     <<"cancel", "sync">>, <<"sync">>}
        \cup IF platform = "native" THEN {<<"snooze", "snoozePause">>, <<"snoozePause">>}
             ELSE {<<"snoozePause", "snooze">>, <<"snooze">>}

At(step) == tray # <<>> /\ Head(tray) = step

Unexcused == excuses \cap {"unseen", "forgotten", "raced", "lostPause"} = {}

(* The pause a snooze begins with has yet to be made. *)
PausePending == ofSnooze # {} \/ \E i \in DOMAIN tray : tray[i] = "snoozePause"

(* The pause is a snooze's, or it is over and the tray knows or will. *)
Traced == IF paused THEN snoozed ELSE last \/ At("cancel")

OwnInv ==
    /\ tray \in Handlers
    /\ {paused, last} \subseteq BOOLEAN
    /\ ofSnooze \subseteq Calls /\ \A c \in ofSnooze : call[c] = "pause"
    /\ At("snooze") \/ At("snoozePause") => ~last
    /\ Unexcused =>
           /\ orphan = {}
           /\ \A t \in Timers : timer[t] \in {"passed", "quiet"} => t = current /\ Traced
           /\ \A t \in Timers : timer[t] = "sleeping" /\ t = current => PausePending \/ Traced
           /\ tray = <<"snooze">> /\ ofSnooze = {} => paused /\ snoozed

LEMMA OwnFrame ==
    ASSUME OwnInv, excuses \subseteq excuses', \A c \in ofSnooze : call'[c] = call[c],
           UNCHANGED <<platform, paused, last, snoozed, tray, ofSnooze, timer, current, orphan>>
    PROVE  OwnInv'
BY DEF OwnInv, Handlers, At, Unexcused, PausePending, Traced

(* Whoever changes the flag keeps it so: a pause's end that the tray has   *)
(* not seen the beginning of is excused, and so is a pause that begins     *)
(* before the tray has cancelled the snooze of the last one.               *)
LEMMA FlagKeepsTrace ==
    ASSUME OwnInv, NEW value \in BOOLEAN, paused' = value, excuses \cup Misses(value) \subseteq excuses',
           value /\ paused /\ snoozed => snoozed', UNCHANGED <<last, tray>>, Unexcused'
    PROVE  /\ Unexcused
           /\ Traced => Traced'
           /\ At("snooze") /\ paused /\ snoozed => paused' /\ snoozed'
<1>1. {paused, last} \subseteq BOOLEAN
  BY DEF OwnInv
<1>2. Unexcused
  BY DEF Unexcused
<1>3. value # paused => value # last /\ ~(value /\ At("cancel"))
  BY DEF Misses, At, Unexcused
<1>4. Traced => Traced'
  BY <1>1, <1>3 DEF Traced, At
<1>5. At("snooze") => ~last
  BY DEF OwnInv
<1> QED
  BY <1>1, <1>2, <1>3, <1>4, <1>5

LEMMA FlagInv ==
    ASSUME OwnInv, NEW value \in BOOLEAN, paused' = value, excuses \cup Misses(value) \subseteq excuses',
           value /\ paused /\ snoozed => snoozed', \A c \in ofSnooze : call'[c] = call[c],
           UNCHANGED <<platform, last, tray, ofSnooze, current, orphan>>,
           \A t \in Timers : timer'[t] \in {"sleeping", "passed", "quiet"} => timer'[t] = timer[t]
    PROVE  OwnInv'
<1>1. /\ (tray \in Handlers)' /\ {paused, last}' \subseteq BOOLEAN
      /\ ofSnooze' \subseteq Calls /\ (\A c \in ofSnooze : call[c] = "pause")'
  BY DEF OwnInv, Handlers
<1>2. (At("snooze") \/ At("snoozePause") => ~last)'
  BY DEF OwnInv, At
<1>3. ASSUME Unexcused'
      PROVE  /\ orphan' = {}
             /\ \A t \in Timers : timer'[t] \in {"passed", "quiet"} => t = current' /\ Traced'
             /\ \A t \in Timers :
                    timer'[t] = "sleeping" /\ t = current' => PausePending' \/ Traced'
             /\ tray' = <<"snooze">> /\ ofSnooze' = {} => paused' /\ snoozed'
  <2>1. /\ Unexcused
        /\ Traced => Traced'
        /\ At("snooze") /\ paused /\ snoozed => paused' /\ snoozed'
    BY <1>3, FlagKeepsTrace
  <2>2. PausePending' <=> PausePending
    BY DEF PausePending
  <2>3. tray = <<"snooze">> => At("snooze")
    BY DEF At
  <2> QED
    BY <2>1, <2>2, <2>3 DEF OwnInv
<1> QED
  BY <1>1, <1>2, <1>3 DEF OwnInv

LEMMA CounterOwn == ASSUME OwnInv, CounterStep PROVE OwnInv'
<1>1. CASE SettleOdd
  <2>1. (~paused) \in BOOLEAN
    OBVIOUS
  <2>2. /\ paused' = ~paused /\ excuses \cup Misses(~paused) \subseteq excuses'
        /\ UNCHANGED <<platform, last, tray, call, ofSnooze, current, orphan, timer>>
    BY <1>1 DEF SettleOdd, SetFlag, rpcVars, trayVars
  <2> QED
    BY <2>1, <2>2, FlagInv
<1>2. CASE CountPress \/ SettleEven \/ CounterSyncsHint \/ CounterReports
  <2>1. /\ excuses \subseteq excuses'
        /\ UNCHANGED <<platform, paused, last, snoozed, tray, call, ofSnooze, timer, current, orphan>>
    BY <1>2 DEF CountPress, SettleEven, CounterSyncsHint, CounterReports, Report, rpcVars, trayVars
  <2> QED
    BY <2>1, OwnFrame
<1> QED
  BY <1>1, <1>2 DEF CounterStep

CallsOK == call \in [Calls -> {"idle", "pause", "resume", "reportPause", "reportResume"}]

LEMMA CallOwn == ASSUME OwnInv, CallsOK, NEW c \in Calls, CallStep(c) \/ CallFails(c) PROVE OwnInv'
<1>1. CASE Serve(c)
  <2> DEFINE value == call[c] = "pause"
  <2>1. /\ value \in BOOLEAN /\ paused' = value
        /\ excuses' = excuses \cup Misses(value)
        /\ snoozed' = (value /\ (c \in ofSnooze \/ (paused /\ snoozed)))
        /\ ofSnooze' = ofSnooze \ {c}
        /\ \A d \in Calls \ {c} : call'[d] = call[d]
        /\ UNCHANGED <<platform, last, tray, timer, current, orphan>>
    BY <1>1 DEF Serve, SetFlag, trayVars, CallsOK, OwnInv
  <2>2. CASE c \notin ofSnooze
    <3>1. ofSnooze' = ofSnooze
      BY <2>1, <2>2
    <3>2. \A d \in ofSnooze : call'[d] = call[d]
      BY <2>1, <2>2 DEF OwnInv
    <3> QED
      BY <2>1, <2>2, <3>1, <3>2, FlagInv
  <2>3. CASE c \in ofSnooze
    <3>1. paused' = TRUE /\ snoozed' = TRUE
      BY <2>1, <2>3 DEF OwnInv
    <3>2. \A d \in ofSnooze' : call'[d] = "pause"
      BY <2>1 DEF OwnInv
    <3>3. Unexcused' => Unexcused
      BY <2>1 DEF Unexcused
    <3>4. Traced'
      BY <3>1 DEF Traced
    <3> QED
      BY <2>1, <3>1, <3>2, <3>3, <3>4 DEF OwnInv, Handlers, At
  <2> QED
    BY <2>2, <2>3
<1>2. CASE CallReports(c)
  <2>1. /\ excuses \subseteq excuses' /\ c \notin ofSnooze
        /\ call' = [call EXCEPT ![c] = "idle"]
        /\ UNCHANGED <<platform, paused, last, snoozed, tray, ofSnooze, timer, current, orphan>>
    BY <1>2 DEF CallReports, Report, trayVars, OwnInv
  <2>2. \A d \in ofSnooze : call'[d] = call[d]
    BY <2>1 DEF CallsOK
  <2> QED
    BY <2>1, <2>2, OwnFrame
<1>3. CASE CallFails(c)
  <2>1. /\ call' = [call EXCEPT ![c] = "idle"] /\ ofSnooze' = ofSnooze \ {c}
        /\ excuses' = IF c \in ofSnooze THEN excuses \cup {"lostPause"} ELSE excuses
        /\ UNCHANGED <<platform, paused, last, snoozed, tray, timer, current, orphan>>
    BY <1>3 DEF CallFails, trayVars
  <2>2. CASE c \notin ofSnooze
    <3>1. ofSnooze' = ofSnooze /\ \A d \in ofSnooze : call'[d] = call[d]
      BY <2>1, <2>2 DEF CallsOK
    <3> QED
      BY <2>1, <2>2, <3>1, OwnFrame
  <2>3. CASE c \in ofSnooze
    <3>1. ~Unexcused'
      BY <2>1, <2>3 DEF Unexcused
    <3>2. \A d \in ofSnooze' : call'[d] = "pause"
      BY <2>1 DEF OwnInv, CallsOK
    <3> QED
      BY <2>1, <3>1, <3>2 DEF OwnInv, Handlers, At
  <2> QED
    BY <2>2, <2>3
<1> QED
  BY <1>1, <1>2, <1>3 DEF CallStep

LEMMA SendsOK ==
    ASSUME OwnInv, CallsOK, NEW what \in {"pause", "resume"}, NEW forSnooze \in BOOLEAN,
           Sends(what, forSnooze)
    PROVE  /\ CallsOK'
           /\ \A d \in Calls : call[d] # "idle" => call'[d] = call[d]
           /\ \A d \in ofSnooze : call'[d] = call[d]
           /\ ~forSnooze => ofSnooze' = ofSnooze
           /\ forSnooze => \E c \in Calls : ofSnooze' = ofSnooze \cup {c} /\ call'[c] = what
<1> DEFINE c == CHOOSE d \in Calls : call[d] = "idle"
<1>1. c \in Calls /\ call[c] = "idle"
  BY DEF Sends
<1>2. /\ call' = [call EXCEPT ![c] = what]
      /\ ofSnooze' = IF forSnooze THEN ofSnooze \cup {c} ELSE ofSnooze
  BY DEF Sends
<1> HIDE DEF c
<1>3. c \notin ofSnooze
  BY <1>1 DEF OwnInv
<1> QED
  BY <1>1, <1>2, <1>3 DEF CallsOK, OwnInv

(* A step of the tray's that moves its handler on and no more. *)
LEMMA HandlerInv ==
    ASSUME OwnInv, \A c \in ofSnooze : call'[c] = call[c],
           UNCHANGED <<platform, paused, snoozed, ofSnooze, timer, current, orphan, excuses>>,
           tray' \in Handlers, last' \in BOOLEAN, tray' # <<"snooze">>,
           (At("snooze") \/ At("snoozePause"))' => ~last',
           \A i \in DOMAIN tray : tray[i] # "snoozePause",
           ~paused /\ (last \/ At("cancel")) => last' \/ At("cancel")'
    PROVE  OwnInv'
<1>1. Traced => Traced'
  BY DEF Traced
<1>2. PausePending => PausePending'
  BY DEF PausePending
<1>3. (tray \in Handlers)'
  BY DEF Handlers
<1> QED
  BY <1>1, <1>2, <1>3 DEF OwnInv, Unexcused

LEMMA ClickOwn == ASSUME OwnInv, ClickSnooze \/ ClickPause \/ ClickResume PROVE OwnInv'
<1>1. /\ tray = <<>> /\ last \in BOOLEAN
      /\ UNCHANGED <<platform, paused, last, snoozed, call, ofSnooze, timer, current, orphan, excuses>>
  BY DEF ClickSnooze, ClickPause, ClickResume, Click, rpcVars, OwnInv
<1>2. /\ tray' \in Handlers /\ tray' # <<"snooze">>
      /\ (At("snooze") \/ At("snoozePause"))' => ~last'
  BY <1>1 DEF ClickSnooze, ClickPause, ClickResume, Click, Handlers, At
<1>3. (\A i \in DOMAIN tray : tray[i] # "snoozePause") /\ ~At("cancel")
  BY <1>1 DEF At
<1> QED
  BY <1>1, <1>2, <1>3, HandlerInv

LEMMA PollOwn == ASSUME OwnInv, PollChange PROVE OwnInv'
<1>1. /\ tray = <<>> /\ {paused, last} \subseteq BOOLEAN /\ paused # last /\ last' = paused
      /\ tray' = IF last THEN <<"cancel", "sync">> ELSE <<"sync">>
      /\ UNCHANGED <<platform, paused, snoozed, call, ofSnooze, timer, current, orphan, excuses>>
  BY DEF PollChange, rpcVars, OwnInv
<1>2. /\ tray' \in Handlers /\ tray' # <<"snooze">>
      /\ ~(At("snooze") \/ At("snoozePause"))'
      /\ ~paused => At("cancel")'
  BY <1>1 DEF Handlers, At
<1>3. \A i \in DOMAIN tray : tray[i] # "snoozePause"
  BY <1>1
<1> QED
  BY <1>1, <1>2, <1>3, HandlerInv

LEMMA SyncOwn == ASSUME OwnInv, TraySyncs PROVE OwnInv'
<1>1. tray = <<"sync">>
  BY DEF TraySyncs, OwnInv, Handlers
<1>2. /\ tray' = <<>> /\ last \in BOOLEAN
      /\ UNCHANGED <<platform, paused, last, snoozed, call, ofSnooze, timer, current, orphan, excuses>>
  BY <1>1 DEF TraySyncs, rpcVars, OwnInv
<1>3. /\ tray' \in Handlers /\ tray' # <<"snooze">>
      /\ ~(At("snooze") \/ At("snoozePause"))' /\ ~At("cancel")
  BY <1>1, <1>2 DEF Handlers, At
<1>4. \A i \in DOMAIN tray : tray[i] # "snoozePause"
  BY <1>1
<1> QED
  BY <1>2, <1>3, <1>4, HandlerInv

LEMMA HandlerTails ==
    /\ Tail(<<"snooze", "snoozePause">>) = <<"snoozePause">> /\ Tail(<<"snoozePause">>) = <<>>
    /\ Tail(<<"snoozePause", "snooze">>) = <<"snooze">> /\ Tail(<<"snooze">>) = <<>>
    /\ Tail(<<"cancel", "pause">>) = <<"pause">> /\ Tail(<<"cancel", "resume">>) = <<"resume">>
    /\ Tail(<<"cancel", "sync">>) = <<"sync">>
OBVIOUS

(* A call of the tray's: the one a snooze begins with pends in the RPC *)
(* instead of the handler.                                             *)
LEMMA TrayCallOwn == ASSUME OwnInv, CallsOK, TrayCalls PROVE OwnInv' /\ CallsOK'
<1> DEFINE what == IF Head(tray) = "resume" THEN "resume" ELSE "pause"
<1>1. /\ tray # <<>> /\ Head(tray) \in {"pause", "snoozePause", "resume"}
      /\ tray' = Tail(tray)
      /\ UNCHANGED <<platform, paused, last, snoozed, timer, current, orphan, excuses>>
  BY DEF TrayCalls
<1>6. Sends(what, Head(tray) = "snoozePause")
  BY DEF TrayCalls
<1>2. what \in {"pause", "resume"} /\ (Head(tray) = "snoozePause") \in BOOLEAN
  OBVIOUS
<1>3. /\ CallsOK'
      /\ \A d \in ofSnooze : call'[d] = call[d]
      /\ Head(tray) # "snoozePause" => ofSnooze' = ofSnooze
      /\ Head(tray) = "snoozePause" => \E c \in Calls : ofSnooze' = ofSnooze \cup {c} /\ call'[c] = what
  BY <1>2, <1>6, SendsOK
<1> HIDE DEF what
<1>4. CASE Head(tray) # "snoozePause"
  <2>1. tray \in {<<"pause">>, <<"resume">>}
    BY <1>1, <1>4 DEF OwnInv, Handlers
  <2>2. tray' = <<>> /\ (\A i \in DOMAIN tray : tray[i] # "snoozePause") /\ ~At("cancel")
    BY <1>1, <2>1 DEF At
  <2>3. /\ tray' \in Handlers /\ tray' # <<"snooze">> /\ last' \in BOOLEAN
        /\ ~(At("snooze") \/ At("snoozePause"))'
    <3>1. last' \in BOOLEAN
      BY <1>1 DEF OwnInv
    <3> QED
      BY <2>2, <3>1 DEF Handlers, At
  <2> QED
    BY <1>1, <1>3, <1>4, <2>2, <2>3, HandlerInv
<1>5. CASE Head(tray) = "snoozePause"
  <2>1. (tray \in Handlers)' /\ ~At("cancel")
    <3>1. \/ platform = "native" /\ tray = <<"snoozePause">>
          \/ platform # "native" /\ tray = <<"snoozePause", "snooze">>
      BY <1>1, <1>5 DEF OwnInv, Handlers
    <3>2. tray' = Tail(tray) /\ platform' = platform
      BY <1>1
    <3>3. platform = "native" => tray' = <<>>
      BY <3>1, <3>2, HandlerTails, Zenon
    <3>4. platform # "native" => tray' = <<"snooze">>
      BY <3>1, <3>2, HandlerTails, Zenon
    <3>5. platform' = platform /\ tray' = IF platform = "native" THEN <<>> ELSE <<"snooze">>
      BY <3>2, <3>3, <3>4
    <3>6. Head(tray) # "cancel"
      BY <1>5
    <3>7. tray' \in IF platform = "native" THEN {<<>>} ELSE {<<"snooze">>}
      BY <3>5
    <3> QED
      BY <3>5, <3>6, <3>7 DEF Handlers, At
  <2>2. ~last /\ last' = last
    BY <1>1, <1>5 DEF OwnInv, At
  <2>3. ofSnooze' \subseteq Calls /\ (\A c \in ofSnooze' : call'[c] = "pause") /\ ofSnooze' # {}
    BY <1>3, <1>5 DEF what, OwnInv
  <2>4. PausePending'
    BY <2>3 DEF PausePending
  <2>5. Traced => Traced'
    BY <1>1, <2>1 DEF Traced
  <2>6. (At("snooze") \/ At("snoozePause") => ~last)' /\ {paused, last}' \subseteq BOOLEAN
    BY <1>1, <2>2 DEF OwnInv
  <2>7. Unexcused' => Unexcused
    BY <1>1 DEF Unexcused
  <2>8. ASSUME Unexcused'
        PROVE  /\ orphan' = {}
               /\ \A t \in Timers : timer'[t] \in {"passed", "quiet"} => t = current' /\ Traced'
               /\ \A t \in Timers :
                      timer'[t] = "sleeping" /\ t = current' => PausePending' \/ Traced'
               /\ tray' = <<"snooze">> /\ ofSnooze' = {} => paused' /\ snoozed'
    <3>1. \A t \in Timers : timer[t] \in {"passed", "quiet"} => t = current /\ Traced
      BY <2>7, <2>8 DEF OwnInv
    <3>2. orphan = {}
      BY <2>7, <2>8 DEF OwnInv
    <3> QED
      BY <1>1, <2>3, <2>4, <2>5, <3>1, <3>2
  <2> QED
    BY <1>3, <2>1, <2>3, <2>6, <2>8 DEF OwnInv
<1> QED
  BY <1>3, <1>4, <1>5, Zenon

(* A snooze begins: its pause pends in the handler (native.rs), pends in   *)
(* the call, or has been made (linux.rs).  No other expiry is under way,   *)
(* or it races.                                                            *)
LEMMA SnoozeOwn == ASSUME OwnInv, TimersOK, TraySnoozes PROVE OwnInv'
<1> DEFINE n == CHOOSE t \in Timers : timer[t] = "none"
<1>1. n \in Timers
  BY DEF TraySnoozes
<1>2. timer' = [timer EXCEPT ![n] = "sleeping"] /\ current' = n
  BY DEF TraySnoozes, StartSnooze
<1> HIDE DEF n
<1>3. /\ tray # <<>> /\ Head(tray) = "snooze"
      /\ excuses' = excuses \cup Races /\ tray' = Tail(tray)
      /\ UNCHANGED <<platform, paused, last, snoozed, call, ofSnooze, orphan>>
  BY DEF TraySnoozes, rpcVars
<1>4. \/ platform = "native" /\ tray = <<"snooze", "snoozePause">>
      \/ platform # "native" /\ tray = <<"snooze">>
  <2>1. tray \in Handlers /\ Head(tray) = "snooze" /\ tray # <<>>
    BY <1>3 DEF OwnInv
  <2>2. CASE platform = "native"
    BY <2>1, <2>2 DEF Handlers
  <2>3. CASE platform # "native"
    BY <2>1, <2>3 DEF Handlers
  <2> QED
    BY <2>2, <2>3
<1>5. tray' = Tail(tray) /\ platform' = platform
  BY <1>3
<1>6. tray' = IF platform = "native" THEN <<"snoozePause">> ELSE <<>>
  BY <1>4, <1>5, HandlerTails, Zenon
<1>7. (tray \in Handlers)' /\ tray' # <<"snooze">> /\ ~At("snooze")'
  <2>1. CASE platform = "native"
    <3>1. tray' = <<"snoozePause">> /\ platform' = "native"
      BY <1>5, <1>6, <2>1
    <3> QED
      BY <3>1 DEF Handlers, At
  <2>2. CASE platform # "native"
    <3>1. tray' = <<>>
      BY <1>6, <2>2
    <3> QED
      BY <3>1 DEF Handlers, At
  <2> QED
    BY <2>1, <2>2
<1>8. ~last /\ {paused, last} \subseteq BOOLEAN
  BY <1>3 DEF OwnInv, At
<1>9. ASSUME Unexcused'
      PROVE  /\ orphan' = {}
             /\ \A t \in Timers : timer'[t] \notin {"passed", "quiet"}
             /\ PausePending' \/ Traced'
  <2>1. Unexcused /\ Races = {}
    BY <1>3, <1>9 DEF Unexcused, Races
  <2>2. Expiring = {}
    BY <2>1 DEF Races
  <2>3. \A t \in Timers : timer'[t] \notin {"passed", "quiet"}
    BY <1>1, <1>2, <2>2 DEF Expiring, TimersOK
  <2>4. orphan' = {}
    BY <1>3, <2>1 DEF OwnInv
  <2>5. CASE platform = "native"
    <3>1. tray' = <<"snoozePause">>
      BY <1>6, <2>5
    <3> QED
      BY <2>3, <2>4, <3>1 DEF PausePending
  <2>6. CASE platform # "native"
    <3>1. ofSnooze = {} => paused /\ snoozed
      BY <1>4, <2>1, <2>6 DEF OwnInv
    <3> QED
      BY <1>3, <2>3, <2>4, <3>1 DEF PausePending, Traced
  <2> QED
    BY <2>5, <2>6
<1>10. ofSnooze' \subseteq Calls /\ \A c \in ofSnooze' : call'[c] = "pause"
  BY <1>3 DEF OwnInv
<1>11. {paused, last}' \subseteq BOOLEAN /\ ~last'
  BY <1>3, <1>8
<1> QED
  BY <1>7, <1>9, <1>10, <1>11 DEF OwnInv

LEMMA CancelOwn == ASSUME OwnInv, TimersOK, TrayCancels PROVE OwnInv'
<1>1. /\ tray # <<>> /\ Head(tray) = "cancel" /\ current' = None
      /\ excuses' = excuses \cup Races /\ tray' = Tail(tray)
      /\ UNCHANGED <<platform, paused, last, timer, call, ofSnooze, orphan>>
  BY DEF TrayCancels, CancelSnooze, rpcVars
<1>2. tray \in {<<"cancel", "pause">>, <<"cancel", "resume">>, <<"cancel", "sync">>}
  BY <1>1 DEF OwnInv, Handlers
<1>3. tray' = Tail(tray)
  BY <1>1
<1>4. tray' \in {<<"pause">>, <<"resume">>, <<"sync">>}
  BY <1>2, <1>3, HandlerTails
<1>5. (tray \in Handlers)' /\ tray' # <<"snooze">> /\ ~(At("snooze") \/ At("snoozePause"))'
  BY <1>4 DEF Handlers, At
<1>6. ASSUME Unexcused'
      PROVE  orphan' = {} /\ \A t \in Timers : timer'[t] \notin {"passed", "quiet"} /\ t # current'
  <2>1. Unexcused /\ Races = {}
    BY <1>1, <1>6 DEF Unexcused, Races
  <2> QED
    BY <1>1, <2>1, PauseAssumption DEF OwnInv, Races, Expiring
<1>7. ofSnooze' \subseteq Calls /\ (\A c \in ofSnooze' : call'[c] = "pause")
      /\ {paused, last}' \subseteq BOOLEAN
  BY <1>1 DEF OwnInv
<1> QED
  BY <1>5, <1>6, <1>7 DEF OwnInv

(* A crash of the tray that leaves a snooze behind is excused. *)
LEMMA RestartOwn == ASSUME OwnInv, TrayRestarts PROVE OwnInv'
<1>1. /\ tray = <<>> /\ last' = paused /\ current' = None
      /\ orphan' = (IF current # None THEN orphan \cup {current} ELSE orphan)
      /\ excuses' = (IF current # None THEN excuses \cup {"forgotten"} ELSE excuses)
      /\ UNCHANGED <<platform, paused, snoozed, tray, timer, call, ofSnooze>>
  BY DEF TrayRestarts, rpcVars
<1>2. ASSUME Unexcused'
      PROVE  orphan' = {} /\ \A t \in Timers : timer'[t] \notin {"passed", "quiet"} /\ t # current'
  <2>1. Unexcused /\ current = None
    BY <1>1, <1>2 DEF Unexcused
  <2> QED
    BY <1>1, <2>1, PauseAssumption DEF OwnInv
<1>3. (tray \in Handlers)' /\ tray' # <<"snooze">> /\ ~(At("snooze") \/ At("snoozePause"))'
  BY <1>1 DEF Handlers, At
<1>4. ofSnooze' \subseteq Calls /\ (\A c \in ofSnooze' : call'[c] = "pause")
      /\ {paused, last}' \subseteq BOOLEAN
  BY <1>1 DEF OwnInv
<1> QED
  BY <1>2, <1>3, <1>4 DEF OwnInv

(* A snooze that wakes past its check is the present one, its pause made. *)
LEMMA WakeOwn == ASSUME OwnInv, TimersOK, NEW t \in Timers, Wake(t) PROVE OwnInv'
<1>1. /\ timer[t] = "sleeping" /\ ~PausePending
      /\ timer' = [timer EXCEPT ![t] = IF Owns(t) THEN "passed" ELSE "done"]
      /\ UNCHANGED <<platform, paused, last, snoozed, tray, call, ofSnooze, current, orphan, excuses>>
  BY DEF Wake, PausePending, rpcVars, trayVars
<1>2. (tray \in Handlers)' /\ (At("snooze") \/ At("snoozePause") => ~last)'
  BY <1>1 DEF OwnInv, Handlers, At
<1>3. ASSUME Unexcused'
      PROVE  /\ orphan' = {}
             /\ \A u \in Timers : timer'[u] \in {"passed", "quiet"} => u = current' /\ Traced'
             /\ \A u \in Timers :
                    timer'[u] = "sleeping" /\ u = current' => PausePending' \/ Traced'
             /\ tray' = <<"snooze">> /\ ofSnooze' = {} => paused' /\ snoozed'
  <2>1. Unexcused /\ (Traced' <=> Traced)
    BY <1>1, <1>3 DEF Unexcused, Traced, At
  <2>2. Owns(t) => t = current /\ Traced
    BY <1>1, <2>1 DEF OwnInv, Owns
  <2>3. \A u \in Timers : timer'[u] \in {"passed", "quiet"} => u = current /\ Traced
    BY <1>1, <2>1, <2>2 DEF OwnInv, TimersOK
  <2>4. \A u \in Timers : timer'[u] = "sleeping" => timer[u] = "sleeping"
    BY <1>1 DEF TimersOK
  <2> QED
    BY <1>1, <2>1, <2>3, <2>4 DEF OwnInv
<1>4. ofSnooze' \subseteq Calls /\ (\A c \in ofSnooze' : call'[c] = "pause")
      /\ {paused, last}' \subseteq BOOLEAN
  BY <1>1 DEF OwnInv
<1> QED
  BY <1>2, <1>3, <1>4 DEF OwnInv

(* The later steps of an expiry. *)
LEMMA TimerFrame ==
    ASSUME OwnInv, excuses \subseteq excuses', \A c \in ofSnooze : call'[c] = call[c],
           UNCHANGED <<platform, paused, last, snoozed, tray, ofSnooze, current, orphan>>,
           \A t \in Timers : timer'[t] = "sleeping" => timer[t] = "sleeping",
           \A t \in Timers : timer'[t] \in {"passed", "quiet"} => timer[t] \in {"passed", "quiet"}
    PROVE  OwnInv'
<1>1. (tray \in Handlers)' /\ (At("snooze") \/ At("snoozePause") => ~last)'
  BY DEF OwnInv, Handlers, At
<1>2. /\ Unexcused' => Unexcused
      /\ Traced' <=> Traced
      /\ PausePending' <=> PausePending
  BY DEF Unexcused, Traced, At, PausePending
<1> QED
  BY <1>1, <1>2 DEF OwnInv

LEMMA ExpiryOwn ==
    ASSUME OwnInv, CallsOK, TimersOK, NEW t \in Timers, ExpiryStep(t)
    PROVE  OwnInv'
<1>1. CASE Quiet(t)
  <2>1. /\ timer[t] = "passed" /\ timer' = [timer EXCEPT ![t] = "quiet"]
        /\ UNCHANGED <<platform, paused, last, snoozed, tray, call, ofSnooze, current, orphan, excuses>>
    BY <1>1 DEF Quiet, rpcVars
  <2>2. /\ \A u \in Timers : timer'[u] = "sleeping" => timer[u] = "sleeping"
        /\ \A u \in Timers : timer'[u] \in {"passed", "quiet"} => timer[u] \in {"passed", "quiet"}
    BY <2>1 DEF TimersOK
  <2> QED
    BY <2>1, <2>2, TimerFrame
<1>2. CASE Expire(t)
  <2>1. /\ paused' = FALSE /\ excuses \cup Misses(FALSE) \subseteq excuses'
        /\ UNCHANGED <<platform, last, tray, call, ofSnooze, current, orphan>>
        /\ \E s \in {"report", "call"} : timer' = [timer EXCEPT ![t] = s]
    BY <1>2 DEF Expire, SetFlag, rpcVars, trayVars
  <2>2. \A u \in Timers : timer'[u] \in {"sleeping", "passed", "quiet"} => timer'[u] = timer[u]
    BY <2>1 DEF TimersOK
  <2>3. FALSE \in BOOLEAN
    OBVIOUS
  <2> QED
    BY <2>1, <2>2, <2>3, FlagInv
<1>3. CASE ExpiryReports(t)
  <2>1. /\ timer[t] = "report" /\ timer' = [timer EXCEPT ![t] = "call"]
        /\ excuses \subseteq excuses'
        /\ UNCHANGED <<platform, paused, last, snoozed, tray, call, ofSnooze, current, orphan>>
    BY <1>3 DEF ExpiryReports, Report, rpcVars, trayVars
  <2>2. /\ \A u \in Timers : timer'[u] = "sleeping" => timer[u] = "sleeping"
        /\ \A u \in Timers : timer'[u] \in {"passed", "quiet"} => timer[u] \in {"passed", "quiet"}
    BY <2>1 DEF TimersOK
  <2> QED
    BY <2>1, <2>2, TimerFrame
<1>4. CASE ExpiryCalls(t)
  <2>1. /\ timer' = [timer EXCEPT ![t] = "done"]
        /\ UNCHANGED <<platform, paused, last, snoozed, tray, current, orphan, excuses>>
    BY <1>4 DEF ExpiryCalls, trayVars
  <2>2. /\ \A u \in Timers : timer'[u] = "sleeping" => timer[u] = "sleeping"
        /\ \A u \in Timers : timer'[u] \in {"passed", "quiet"} => timer[u] \in {"passed", "quiet"}
    BY <2>1 DEF TimersOK
  <2>3. Sends("resume", FALSE)
    BY <1>4 DEF ExpiryCalls
  <2>4. ofSnooze' = ofSnooze /\ \A d \in ofSnooze : call'[d] = call[d]
    BY <2>3, SendsOK
  <2> QED
    BY <2>1, <2>2, <2>4, TimerFrame
<1> QED
  BY <1>1, <1>2, <1>3, <1>4 DEF ExpiryStep

LEMMA OthersOwn ==
    ASSUME OwnInv, CallsOK,
           \/ Press \/ CoordinatorStep \/ PollHint
           \/ \E what \in {"pause", "resume"} : ClientCalls(what)
    PROVE  OwnInv'
<1>1. CASE Press \/ CoordinatorStep \/ PollHint
  <2>1. UNCHANGED <<platform, paused, last, snoozed, tray, call, ofSnooze, timer, current, orphan, excuses>>
    BY <1>1 DEF Press, CoordinatorStep, TakeReports, ApplyReport, PollHint, rpcVars, trayVars
  <2> QED
    BY <2>1, OwnFrame
<1>2. ASSUME NEW what \in {"pause", "resume"}, ClientCalls(what) PROVE OwnInv'
  <2>1. UNCHANGED <<platform, paused, last, snoozed, tray, timer, current, orphan, excuses>>
    BY <1>2 DEF ClientCalls, trayVars
  <2>2. Sends(what, FALSE)
    BY <1>2, Zenon DEF ClientCalls
  <2>3. ofSnooze' = ofSnooze /\ \A d \in ofSnooze : call'[d] = call[d]
    BY <2>2, SendsOK
  <2> QED
    BY <2>1, <2>3, OwnFrame
<1> QED
  BY <1>1, <1>2

LEMMA CallsKept == CallsOK /\ OwnInv /\ [Next]_vars => CallsOK'
<1> SUFFICES ASSUME CallsOK, OwnInv, [Next]_vars PROVE CallsOK'
  OBVIOUS
<1>1. ASSUME NEW what \in {"pause", "resume"}, ClientCalls(what) PROVE CallsOK'
  <2>1. Sends(what, FALSE)
    BY <1>1, Zenon DEF ClientCalls
  <2> QED
    BY <2>1, SendsOK
<1>2. ASSUME NEW c \in Calls, CallStep(c) \/ CallFails(c) PROVE CallsOK'
  BY <1>2 DEF CallStep, CallFails, Serve, CallReports, CallsOK
<1>3. ASSUME NEW t \in Timers, ExpiryCalls(t) PROVE CallsOK'
  <2>1. Sends("resume", FALSE)
    BY <1>3 DEF ExpiryCalls
  <2> QED
    BY <2>1, SendsOK
<1>4. CASE TrayCalls
  BY <1>4, TrayCallOwn
<1>5. CASE UNCHANGED call
  BY <1>5 DEF CallsOK
<1>6. CASE Press \/ ClickSnooze \/ ClickPause \/ ClickResume \/ TrayRestarts
  BY <1>5, <1>6 DEF Press, ClickSnooze, ClickPause, ClickResume, Click, TrayRestarts, rpcVars
<1>7. CASE CounterStep \/ CoordinatorStep
  BY <1>5, <1>7 DEF CounterStep, CountPress, SettleOdd, SettleEven, CounterSyncsHint,
     CounterReports, CoordinatorStep, TakeReports, ApplyReport, rpcVars
<1>8. ASSUME NEW t \in Timers, Wake(t) \/ Quiet(t) \/ Expire(t) \/ ExpiryReports(t) PROVE CallsOK'
  BY <1>5, <1>8 DEF Wake, Quiet, Expire, ExpiryReports, rpcVars
<1>9. CASE TraySnoozes \/ TrayCancels \/ PollChange \/ TraySyncs \/ PollHint
  BY <1>5, <1>9 DEF TraySnoozes, TrayCancels, PollChange, TraySyncs, PollHint, rpcVars
<1>10. CASE UNCHANGED vars
  BY <1>5, <1>10 DEF vars, rpcVars
<1> QED
  BY <1>1, <1>2, <1>3, <1>4, <1>6, <1>7, <1>8, <1>9, <1>10 DEF Next, UserStep, ExpiryStep, TrayStep

LEMMA OwnKept == OwnInv /\ CallsOK /\ TimersOK /\ [Next]_vars => OwnInv'
<1> SUFFICES ASSUME OwnInv, CallsOK, TimersOK, [Next]_vars PROVE OwnInv'
  OBVIOUS
<1>1. CASE UserStep
  BY <1>1, OthersOwn, ClickOwn, RestartOwn DEF UserStep
<1>2. CASE CounterStep \/ CoordinatorStep
  BY <1>2, CounterOwn, OthersOwn
<1>3. CASE \E c \in Calls : CallStep(c) \/ CallFails(c)
  BY <1>3, CallOwn
<1>4. CASE \E t \in Timers : Wake(t) \/ ExpiryStep(t)
  BY <1>4, WakeOwn, ExpiryOwn
<1>5. CASE TrayStep
  BY <1>5, SnoozeOwn, CancelOwn, TrayCallOwn, PollOwn, SyncOwn, OthersOwn DEF TrayStep
<1>6. CASE UNCHANGED vars
  BY <1>6, OwnFrame DEF vars, rpcVars, trayVars
<1> QED
  BY <1>1, <1>2, <1>3, <1>4, <1>5, <1>6 DEF Next

LEMMA InitOwn == Init => OwnInv /\ CallsOK
<1>1. ASSUME Init PROVE OwnInv
  BY <1>1, PauseAssumption DEF Init, OwnInv, Handlers, At, PausePending, Traced
<1> QED
  BY <1>1 DEF Init, CallsOK

(* A snooze that expires ends the pause it began and no other, unless the  *)
(* tray never saw the end of its pause, forgot the snooze in a restart, or *)
(* came after the version check, or the snooze's own pause was lost        *)
(* (native.rs, linux.rs, services/tray/snooze.rs).                         *)
THEOREM ExpiryEndsOwn == Spec => ExpiryUnpausesOwn
<1> DEFINE Inv == IInv /\ OwnInv /\ CallsOK
<1>1. Init => Inv
  BY InitInv, InitOwn
<1>2. Inv /\ [Next]_vars => Inv'
  BY NextInv, CallsKept, OwnKept DEF IInv
<1>3. Inv /\ [Next]_vars =>
          [\A t \in Timers :
              (timer[t] = "quiet" /\ timer'[t] # "quiet" /\ paused)
                  => (snoozed \/ excuses \cap {"unseen", "forgotten", "raced", "lostPause"} # {})]_vars
  <2> SUFFICES ASSUME Inv, Next, NEW t \in Timers,
                      timer[t] = "quiet", timer'[t] # "quiet", paused, Unexcused
               PROVE  snoozed
    BY DEF Unexcused
  <2> QED
    BY DEF OwnInv, Traced
<1> QED
  BY <1>1, <1>2, <1>3, PTL DEF Spec, ExpiryUnpausesOwn

-----------------------------------------------------------------------------
(* Who owes a report: a counter, call or expiry that has changed the flag. *)
Owing ==
    (IF counter.at = "report" \/ (counter.at = "hint" /\ counter.odd) THEN {"counter"} ELSE {})
        \cup {c \in Calls : call[c] \in {"reportPause", "reportResume"}}
        \cup {t \in Timers : timer[t] = "report"}

Distinct(s) == \A i, j \in DOMAIN s : s[i] = s[j] => i = j

(* They are in the history, once each. *)
OwedOK ==
    /\ unreported \in Seq(Reporters) /\ Distinct(unreported)
    /\ \A i \in DOMAIN unreported : unreported[i] \in Owing

LEMMA RemoveFirstOK ==
    ASSUME NEW S, NEW s \in Seq(S), NEW e, Distinct(s)
    PROVE  /\ RemoveFirst(s, e) \in Seq(S) /\ Distinct(RemoveFirst(s, e))
           /\ \A i \in DOMAIN RemoveFirst(s, e) :
                  RemoveFirst(s, e)[i] # e /\ \E j \in DOMAIN s : RemoveFirst(s, e)[i] = s[j]
<1>1. CASE \A i \in 1..Len(s) : s[i] # e
  <2>1. RemoveFirst(s, e) = s
    BY <1>1 DEF RemoveFirst
  <2> QED
    BY <1>1, <2>1
<1>2. ASSUME NEW k \in 1..Len(s), s[k] = e
      PROVE  /\ RemoveFirst(s, e) \in Seq(S) /\ Distinct(RemoveFirst(s, e))
             /\ \A i \in DOMAIN RemoveFirst(s, e) :
                    RemoveFirst(s, e)[i] # e /\ \E j \in DOMAIN s : RemoveFirst(s, e)[i] = s[j]
  <2>1. {i \in 1..Len(s) : s[i] = e} = {k}
    BY <1>2 DEF Distinct
  <2>2. Min({k}) = k
    BY DEF Min
  <2>3. RemoveFirst(s, e) = RemoveAt(s, k)
    BY <1>2, <2>1, <2>2 DEF RemoveFirst, SelectInSeq
  <2> DEFINE r == RemoveAt(s, k)
             a == SubSeq(s, 1, k - 1)
             b == SubSeq(s, k + 1, Len(s))
  <2>4. /\ k \in Nat /\ Len(s) \in Nat /\ 1 <= k /\ k <= Len(s)
        /\ \A i \in 1..Len(s) : s[i] \in S
    BY <1>2
  <2>5. a \in Seq(S) /\ Len(a) = k - 1 /\ \A i \in 1..Len(a) : a[i] = s[i]
    BY <2>4
  <2>6. b \in Seq(S) /\ Len(b) = Len(s) - k /\ \A i \in 1..Len(b) : b[i] = s[k + i]
    BY <2>4
  <2>7. r = a \o b
    BY DEF RemoveAt
  <2> HIDE DEF a, b, r
  <2>8. a \in Seq(S) /\ b \in Seq(S)
    BY <2>5, <2>6
  <2>9. /\ a \o b \in Seq(S) /\ Len(a \o b) = Len(a) + Len(b)
        /\ \A i \in 1..Len(a) + Len(b) : (a \o b)[i] = IF i <= Len(a) THEN a[i] ELSE b[i - Len(a)]
    BY <2>8, ConcatProperties, Zenon
  <2>10. r \in Seq(S) /\ Len(r) = Len(a) + Len(b)
    BY <2>7, <2>9, Zenon
  <2>11. Len(r) = Len(s) - 1
    BY <2>4, <2>5, <2>6, <2>10
  <2>12. \A i \in 1..Len(r) : r[i] = IF i < k THEN s[i] ELSE s[i + 1]
    <3>1. \A i \in 1..Len(a) + Len(b) : r[i] = IF i <= Len(a) THEN a[i] ELSE b[i - Len(a)]
      BY <2>7, <2>9, Zenon
    <3> SUFFICES ASSUME NEW i \in 1..Len(r)
                 PROVE  r[i] = IF i < k THEN s[i] ELSE s[i + 1]
      OBVIOUS
    <3>2. i \in 1..Len(a) + Len(b)
      BY <2>4, <2>5, <2>6, <2>11
    <3>3. CASE i < k
      <4>1. i \in 1..Len(a) /\ i <= Len(a)
        BY <2>4, <2>5, <2>11, <3>3
      <4> QED
        BY <2>5, <3>1, <3>2, <3>3, <4>1
    <3>4. CASE ~(i < k)
      <4>1. i - Len(a) \in 1..Len(b) /\ ~(i <= Len(a)) /\ k + (i - Len(a)) = i + 1
        BY <2>4, <2>5, <2>6, <2>11, <3>4
      <4> QED
        BY <2>6, <3>1, <3>2, <3>4, <4>1
    <3> QED
      BY <3>3, <3>4
  <2>13. DOMAIN r = 1..Len(r) /\ DOMAIN s = 1..Len(s)
    BY <2>10
  <2> DEFINE at(i) == IF i < k THEN i ELSE i + 1
  <2>14. \A i \in DOMAIN r : at(i) \in DOMAIN s /\ at(i) # k /\ r[i] = s[at(i)]
    BY <2>4, <2>11, <2>12, <2>13
  <2>15. \A i, j \in DOMAIN r : at(i) = at(j) => i = j
    BY <2>4, <2>11, <2>13
  <2> HIDE DEF at
  <2>16. \A i \in DOMAIN r : r[i] # e /\ \E j \in DOMAIN s : r[i] = s[j]
    BY <1>2, <2>13, <2>14 DEF Distinct
  <2>17. Distinct(r)
    <3> SUFFICES ASSUME NEW i \in DOMAIN r, NEW j \in DOMAIN r, r[i] = r[j] PROVE i = j
      BY DEF Distinct
    <3>1. at(i) = at(j)
      BY <2>14 DEF Distinct
    <3> QED
      BY <2>15, <3>1
  <2> QED
    BY <2>3, <2>10, <2>16, <2>17 DEF r
<1> QED
  BY <1>1, <1>2

LEMMA OwedFrame == ASSUME OwedOK, UNCHANGED unreported, Owing \subseteq Owing' PROVE OwedOK'
BY DEF OwedOK, Distinct

(* Who changes the flag owed nothing before. *)
LEMMA OwesMore ==
    ASSUME OwedOK, NEW r \in Reporters, unreported' = Append(unreported, r),
           r \notin Owing, r \in Owing', Owing \subseteq Owing'
    PROVE  OwedOK'
<1>1. /\ unreported' \in Seq(Reporters) /\ DOMAIN unreported' = 1..(Len(unreported) + 1)
      /\ \A i \in 1..Len(unreported) : unreported'[i] = unreported[i]
      /\ unreported'[Len(unreported) + 1] = r
  BY DEF OwedOK
<1>2. DOMAIN unreported = 1..Len(unreported) /\ Len(unreported) \in Nat
  BY DEF OwedOK
<1>3. Distinct(unreported)'
  BY <1>1, <1>2 DEF OwedOK, Distinct
<1>4. \A i \in DOMAIN unreported' : unreported'[i] \in Owing'
  BY <1>1, <1>2 DEF OwedOK
<1> QED
  BY <1>1, <1>3, <1>4 DEF OwedOK

(* Who reports owes nothing any more. *)
LEMMA OwesLess ==
    ASSUME OwedOK, NEW r \in Reporters, unreported' = Others(r), Owing \ {r} \subseteq Owing'
    PROVE  OwedOK'
<1>1. /\ unreported' \in Seq(Reporters) /\ Distinct(unreported')
      /\ \A i \in DOMAIN unreported' :
             unreported'[i] # r /\ \E j \in DOMAIN unreported : unreported'[i] = unreported[j]
  BY RemoveFirstOK DEF OwedOK, Others
<1>2. \A i \in DOMAIN unreported' : unreported'[i] \in Owing'
  BY <1>1 DEF OwedOK
<1> QED
  BY <1>1, <1>2 DEF OwedOK, Distinct

Kinds ==
    /\ platform \in Platforms
    /\ {paused, preview, suspended, last, icon, active, snoozed} \subseteq BOOLEAN
    /\ tokens \in 0..inputs /\ inputs \in 0..MaxInputs
    /\ counter \in [at : {"idle", "counting", "hint", "report"}, odd : BOOLEAN, value : BOOLEAN]
    /\ reports \in Seq(BOOLEAN) /\ Len(reports) <= ChannelSize
    /\ coordinator \in BOOLEAN \cup {None}
    /\ current \in Timers \cup {None} /\ orphan \subseteq Timers
    /\ excuses \subseteq Excuses

LEMMA MissesOK == \A value : Misses(value) \subseteq Excuses
BY DEF Misses, Races, Excuses

LEMMA ReportOK ==
    ASSUME Kinds, NEW value \in BOOLEAN, NEW r, Report(value, r)
    PROVE  /\ reports' \in Seq(BOOLEAN) /\ Len(reports') <= ChannelSize
           /\ excuses' \subseteq Excuses
<1>1. CASE Len(reports) < ChannelSize
  <2>1. reports' = Append(reports, value)
        /\ excuses' = excuses \cup (IF Overtakes(r) THEN {"overtaken"} ELSE {})
    BY <1>1, Zenon DEF Report
  <2> QED
    BY <1>1, <2>1, PauseAssumption DEF Kinds, Excuses
<1>2. CASE ~(Len(reports) < ChannelSize)
  <2>1. reports' = reports /\ excuses' = excuses \cup {"dropped"}
    BY <1>2, Zenon DEF Report
  <2> QED
    BY <2>1 DEF Kinds, Excuses
<1> QED
  BY <1>1, <1>2

LEMMA UserKinds == ASSUME Kinds, UserStep PROVE Kinds'
<1>1. CASE Press
  <2>1. inputs < MaxInputs /\ inputs' = inputs + 1 /\ tokens' = tokens + 1
    BY <1>1 DEF Press, Input
  <2>2. tokens' \in 0..inputs' /\ inputs' \in 0..MaxInputs
    BY <2>1, PauseAssumption DEF Kinds
  <2>3. preview' = ~preview
        /\ UNCHANGED <<platform, paused, suspended, last, icon, active, snoozed, counter, reports,
                       coordinator, current, orphan, excuses>>
    BY <1>1 DEF Press, trayVars
  <2> QED
    BY <2>2, <2>3 DEF Kinds
<1>2. CASE ClickSnooze \/ ClickPause \/ ClickResume
           \/ \E what \in {"pause", "resume"} : ClientCalls(what)
  <2>1. inputs < MaxInputs /\ inputs' = inputs + 1
        /\ UNCHANGED <<platform, paused, preview, suspended, last, icon, active, snoozed, tokens,
                       counter, reports, coordinator, current, orphan, excuses>>
    BY <1>2 DEF ClickSnooze, ClickPause, ClickResume, Click, ClientCalls, Input, trayVars
  <2>2. tokens' \in 0..inputs' /\ inputs' \in 0..MaxInputs
    BY <2>1, PauseAssumption DEF Kinds
  <2> QED
    BY <2>1, <2>2 DEF Kinds
<1>3. CASE TrayRestarts
  <2>1. inputs < MaxInputs /\ inputs' = inputs + 1 /\ tokens' = tokens
    BY <1>3 DEF TrayRestarts, Input
  <2>2. tokens' \in 0..inputs' /\ inputs' \in 0..MaxInputs
    BY <2>1, PauseAssumption DEF Kinds
  <2>3. /\ preview' = paused /\ last' = paused /\ icon' = paused
        /\ current' = None /\ active' = FALSE
        /\ orphan' = (IF current # None THEN orphan \cup {current} ELSE orphan)
        /\ excuses' = (IF current # None THEN excuses \cup {"forgotten"} ELSE excuses)
        /\ UNCHANGED <<platform, paused, suspended, snoozed, counter, reports, coordinator>>
    BY <1>3 DEF TrayRestarts
  <2> QED
    BY <2>2, <2>3 DEF Kinds, Excuses
<1> QED
  BY <1>1, <1>2, <1>3 DEF UserStep

LEMMA CounterKinds == ASSUME Kinds, CounterStep PROVE Kinds'
<1>1. CASE CountPress
  <2>1. /\ tokens' = tokens - 1 /\ tokens > 0
        /\ counter' = [counter EXCEPT !.at = "counting", !.odd = ~@]
        /\ UNCHANGED <<platform, paused, preview, suspended, last, icon, active, snoozed, inputs,
                       reports, coordinator, current, orphan, excuses>>
    BY <1>1 DEF CountPress, trayVars
  <2>2. tokens' \in 0..inputs' /\ inputs' \in 0..MaxInputs
    BY <2>1, PauseAssumption DEF Kinds
  <2>3. counter' \in [at : {"idle", "counting", "hint", "report"}, odd : BOOLEAN, value : BOOLEAN]
    BY <2>1 DEF Kinds
  <2> QED
    BY <2>1, <2>2, <2>3 DEF Kinds
<1>2. CASE SettleOdd
  <2>1. /\ paused' = ~paused /\ snoozed' = FALSE
        /\ counter' = [at |-> "hint", odd |-> TRUE, value |-> ~paused]
        /\ excuses' = excuses \cup Misses(~paused)
        /\ UNCHANGED <<platform, preview, suspended, last, icon, active, tokens, inputs, reports,
                       coordinator, current, orphan>>
    BY <1>2 DEF SettleOdd, SetFlag, trayVars
  <2>2. excuses' \subseteq Excuses
    BY <2>1, MissesOK, Zenon DEF Kinds
  <2> QED
    BY <2>1, <2>2 DEF Kinds
<1>3. CASE SettleEven
  <2>1. /\ counter' = [at |-> "hint", odd |-> FALSE, value |-> paused]
        /\ UNCHANGED <<platform, paused, preview, suspended, last, icon, active, snoozed, tokens,
                       inputs, reports, coordinator, current, orphan, excuses>>
    BY <1>3 DEF SettleEven, trayVars
  <2> QED
    BY <2>1 DEF Kinds
<1>4. CASE CounterSyncsHint
  <2>1. /\ preview' = counter.value
        /\ excuses' = excuses \cup (IF counter.value # paused THEN {"staleHint"} ELSE {})
        /\ counter' = (IF counter.odd THEN [counter EXCEPT !.at = "report"]
                       ELSE [counter EXCEPT !.at = "idle"])
        /\ UNCHANGED <<platform, paused, suspended, last, icon, active, snoozed, tokens, inputs,
                       reports, coordinator, current, orphan>>
    BY <1>4 DEF CounterSyncsHint, trayVars
  <2>2. excuses' \subseteq Excuses
    BY <2>1 DEF Kinds, Excuses
  <2>3. /\ counter' \in [at : {"idle", "counting", "hint", "report"}, odd : BOOLEAN, value : BOOLEAN]
        /\ preview' \in BOOLEAN
    BY <2>1 DEF Kinds
  <2> QED
    BY <2>1, <2>2, <2>3 DEF Kinds
<1>5. CASE CounterReports
  <2>1. /\ counter' = [counter EXCEPT !.at = "idle", !.odd = FALSE]
        /\ UNCHANGED <<platform, paused, preview, suspended, last, icon, active, snoozed, tokens,
                       inputs, coordinator, current, orphan>>
    BY <1>5 DEF CounterReports, trayVars
  <2>2. counter.value \in BOOLEAN /\ Report(counter.value, "counter")
    BY <1>5 DEF CounterReports, Kinds
  <2>3. reports' \in Seq(BOOLEAN) /\ Len(reports') <= ChannelSize /\ excuses' \subseteq Excuses
    BY <2>2, ReportOK
  <2>4. counter' \in [at : {"idle", "counting", "hint", "report"}, odd : BOOLEAN, value : BOOLEAN]
    BY <2>1 DEF Kinds
  <2> QED
    BY <2>1, <2>3, <2>4 DEF Kinds
<1> QED
  BY <1>1, <1>2, <1>3, <1>4, <1>5 DEF CounterStep

LEMMA CallKinds == ASSUME Kinds, NEW c \in Calls, CallStep(c) \/ CallFails(c) PROVE Kinds'
<1>1. CASE Serve(c)
  <2> DEFINE value == call[c] = "pause"
  <2>1. /\ paused' \in {paused, value}
        /\ excuses' = excuses \cup Misses(value)
        /\ snoozed' = (value /\ (c \in ofSnooze \/ (paused /\ snoozed)))
        /\ UNCHANGED <<platform, preview, suspended, last, icon, active, tokens, inputs, counter,
                       reports, coordinator, current, orphan>>
    BY <1>1 DEF Serve, SetFlag, trayVars
  <2>2. excuses' \subseteq Excuses
    BY <2>1, MissesOK, Zenon DEF Kinds
  <2>3. value \in BOOLEAN /\ snoozed' \in BOOLEAN
    BY <2>1
  <2> QED
    BY <2>1, <2>2, <2>3 DEF Kinds
<1>2. CASE CallReports(c)
  <2> DEFINE value == call[c] = "reportPause"
  <2>1. value \in BOOLEAN /\ Report(value, c)
    BY <1>2, Zenon DEF CallReports
  <2>2. UNCHANGED <<platform, paused, preview, suspended, last, icon, active, snoozed, tokens,
                    inputs, counter, coordinator, current, orphan>>
    BY <1>2 DEF CallReports, trayVars
  <2>3. reports' \in Seq(BOOLEAN) /\ Len(reports') <= ChannelSize /\ excuses' \subseteq Excuses
    BY <2>1, ReportOK
  <2> QED
    BY <2>2, <2>3 DEF Kinds
<1>3. CASE CallFails(c)
  <2>1. /\ excuses' = (IF c \in ofSnooze THEN excuses \cup {"lostPause"} ELSE excuses)
        /\ UNCHANGED <<platform, paused, preview, suspended, last, icon, active, snoozed, tokens,
                       inputs, counter, reports, coordinator, current, orphan>>
    BY <1>3 DEF CallFails, trayVars
  <2> QED
    BY <2>1 DEF Kinds, Excuses
<1> QED
  BY <1>1, <1>2, <1>3 DEF CallStep

LEMMA CoordinatorKinds == ASSUME Kinds, CoordinatorStep PROVE Kinds'
<1>1. CASE TakeReports
  <2>1. /\ reports # <<>> /\ coordinator' = Last(reports) /\ reports' = <<>>
        /\ UNCHANGED <<platform, paused, preview, suspended, last, icon, active, snoozed, tokens,
                       inputs, counter, current, orphan, excuses>>
    BY <1>1 DEF TakeReports, trayVars
  <2>2. coordinator' \in BOOLEAN
    BY <2>1 DEF Last, Kinds
  <2>3. reports' \in Seq(BOOLEAN) /\ Len(reports') <= ChannelSize
    BY <2>1, PauseAssumption
  <2> QED
    BY <2>1, <2>2, <2>3 DEF Kinds
<1>2. CASE ApplyReport
  <2>1. /\ coordinator # None /\ suspended' = coordinator /\ coordinator' = None
        /\ UNCHANGED <<platform, paused, preview, last, icon, active, snoozed, tokens, inputs,
                       counter, reports, current, orphan, excuses>>
    BY <1>2 DEF ApplyReport, trayVars
  <2> QED
    BY <2>1 DEF Kinds
<1> QED
  BY <1>1, <1>2 DEF CoordinatorStep

LEMMA TimerKinds == ASSUME Kinds, NEW t \in Timers, Wake(t) \/ ExpiryStep(t) PROVE Kinds'
<1>1. CASE Wake(t) \/ ExpiryCalls(t)
  <2>1. UNCHANGED <<platform, paused, preview, suspended, last, icon, active, snoozed, tokens,
                    inputs, counter, reports, coordinator, current, orphan, excuses>>
    BY <1>1 DEF Wake, ExpiryCalls, trayVars
  <2> QED
    BY <2>1 DEF Kinds
<1>2. CASE Quiet(t)
  <2>1. /\ active' = (active /\ t \in orphan)
        /\ UNCHANGED <<platform, paused, preview, suspended, last, icon, snoozed, tokens, inputs,
                       counter, reports, coordinator, current, orphan, excuses>>
    BY <1>2 DEF Quiet
  <2> QED
    BY <2>1 DEF Kinds
<1>3. CASE Expire(t)
  <2>1. /\ paused' = FALSE /\ snoozed' = FALSE
        /\ excuses' \subseteq excuses \cup Misses(FALSE) \cup {"unreported"}
        /\ UNCHANGED <<platform, preview, suspended, last, icon, active, tokens, inputs,
                       counter, reports, coordinator, current, orphan>>
    BY <1>3 DEF Expire, SetFlag, trayVars
  <2>2. "unreported" \in Excuses
    BY DEF Excuses
  <2>3. excuses' \subseteq Excuses
    BY <2>1, <2>2, MissesOK, Zenon DEF Kinds
  <2> QED
    BY <2>1, <2>3 DEF Kinds
<1>4. CASE ExpiryReports(t)
  <2>1. Report(FALSE, t) /\ FALSE \in BOOLEAN
    BY <1>4, Zenon DEF ExpiryReports
  <2>2. UNCHANGED <<platform, paused, preview, suspended, last, icon, active, snoozed, tokens,
                    inputs, counter, coordinator, current, orphan>>
    BY <1>4 DEF ExpiryReports, trayVars
  <2>3. reports' \in Seq(BOOLEAN) /\ Len(reports') <= ChannelSize /\ excuses' \subseteq Excuses
    BY <2>1, ReportOK
  <2> QED
    BY <2>2, <2>3 DEF Kinds
<1> QED
  BY <1>1, <1>2, <1>3, <1>4 DEF ExpiryStep

LEMMA TrayKinds == ASSUME Kinds, TrayStep PROVE Kinds'
<1>1. Races \subseteq Excuses
  BY DEF Races, Excuses
<1>2. CASE TraySnoozes
  <2>1. /\ current' = (CHOOSE t \in Timers : timer[t] = "none") /\ active' = TRUE
        /\ excuses' = excuses \cup Races
        /\ UNCHANGED <<platform, paused, preview, suspended, last, icon, snoozed, tokens, inputs,
                       counter, reports, coordinator, orphan>>
    BY <1>2 DEF TraySnoozes, StartSnooze
  <2>2. current' \in Timers
    BY <1>2, <2>1 DEF TraySnoozes
  <2> QED
    BY <1>1, <2>1, <2>2 DEF Kinds
<1>3. CASE TrayCancels
  <2>1. /\ current' = None /\ active' = FALSE /\ snoozed' = FALSE
        /\ excuses' = excuses \cup Races
        /\ UNCHANGED <<platform, paused, preview, suspended, last, icon, tokens, inputs,
                       counter, reports, coordinator, orphan>>
    BY <1>3 DEF TrayCancels, CancelSnooze
  <2> QED
    BY <1>1, <2>1 DEF Kinds
<1>4. CASE TrayCalls \/ PollChange \/ TraySyncs \/ PollHint
  <2>1. /\ last' \in {last, paused} /\ preview' \in {preview, last} /\ icon' \in {icon, last, preview}
        /\ UNCHANGED <<platform, paused, suspended, active, snoozed, tokens, inputs,
                       counter, reports, coordinator, current, orphan, excuses>>
    BY <1>4 DEF TrayCalls, PollChange, TraySyncs, PollHint
  <2> QED
    BY <2>1 DEF Kinds
<1> QED
  BY <1>2, <1>3, <1>4 DEF TrayStep

LEMMA KindsKept == Kinds /\ [Next]_vars => Kinds'
<1> SUFFICES ASSUME Kinds, [Next]_vars PROVE Kinds'
  OBVIOUS
<1>1. CASE UNCHANGED vars
  BY <1>1 DEF Kinds, vars, trayVars
<1> QED
  BY <1>1, UserKinds, CounterKinds, CallKinds, CoordinatorKinds, TimerKinds, TrayKinds DEF Next

(* A call that is sent takes a free place, and nobody's report with it. *)
LEMMA SendsOwed ==
    ASSUME OwnInv, CallsOK, OwedOK, NEW what \in {"pause", "resume"}, NEW forSnooze \in BOOLEAN,
           Sends(what, forSnooze), UNCHANGED <<counter, unreported>>,
           \A t \in Timers : timer[t] = "report" => timer'[t] = "report"
    PROVE  OwedOK'
<1>1. \A d \in Calls : call[d] # "idle" => call'[d] = call[d]
  BY SendsOK
<1>2. Owing \subseteq Owing'
  BY <1>1 DEF Owing
<1> QED
  BY <1>2, OwedFrame

LEMMA CounterOwed == ASSUME Kinds, OwedOK, CounterStep PROVE OwedOK'
<1>1. "counter" \in Reporters /\ "counter" \notin Calls \cup Timers
  BY PauseAssumption DEF Reporters
<1>2. CASE CountPress
  <2>1. counter.at \in {"idle", "counting"} /\ UNCHANGED <<call, timer, unreported>>
    BY <1>2 DEF CountPress, rpcVars
  <2> QED
    BY <2>1, OwedFrame DEF Owing
<1>3. CASE SettleOdd
  <2>1. /\ counter.at = "counting" /\ counter' = [at |-> "hint", odd |-> TRUE, value |-> ~paused]
        /\ unreported' = Append(unreported, "counter") /\ UNCHANGED <<call, timer>>
    BY <1>3 DEF SettleOdd, SetFlag, rpcVars
  <2>2. "counter" \notin Owing
    BY <1>1, <2>1 DEF Owing
  <2>3. "counter" \in Owing' /\ Owing \subseteq Owing'
    BY <2>1 DEF Owing
  <2> QED
    BY <1>1, <2>1, <2>2, <2>3, OwesMore
<1>4. CASE SettleEven
  <2>1. counter.at = "counting" /\ UNCHANGED <<call, timer, unreported>>
    BY <1>4 DEF SettleEven, rpcVars
  <2> QED
    BY <2>1, OwedFrame DEF Owing
<1>5. CASE CounterSyncsHint
  <2>1. /\ counter.at = "hint" /\ UNCHANGED <<call, timer, unreported>>
        /\ counter' = (IF counter.odd THEN [counter EXCEPT !.at = "report"]
                       ELSE [counter EXCEPT !.at = "idle"])
    BY <1>5 DEF CounterSyncsHint, rpcVars
  <2>2. counter.odd => counter'.at = "report"
    BY <2>1 DEF Kinds
  <2>3. Owing \subseteq Owing'
    BY <2>1, <2>2 DEF Owing
  <2> QED
    BY <2>1, <2>3, OwedFrame
<1>6. CASE CounterReports
  <2>1. unreported' = Others("counter") /\ UNCHANGED <<call, timer>>
    BY <1>6 DEF CounterReports, Report, rpcVars
  <2>2. Owing \ {"counter"} \subseteq Owing'
    BY <2>1 DEF Owing
  <2> QED
    BY <1>1, <2>1, <2>2, OwesLess
<1> QED
  BY <1>2, <1>3, <1>4, <1>5, <1>6 DEF CounterStep

LEMMA CallOwed ==
    ASSUME CallsOK, OwedOK, NEW c \in Calls, CallStep(c) \/ CallFails(c)
    PROVE  OwedOK'
<1>1. c \in Reporters /\ c # "counter" /\ c \notin Timers
  BY PauseAssumption DEF Reporters
<1>2. CASE Serve(c)
  <2>1. call[c] \in {"pause", "resume"} /\ UNCHANGED <<counter, timer>>
    BY <1>2 DEF Serve
  <2>2. c \notin Owing
    BY <1>1, <2>1 DEF Owing
  <2>3. CASE unreported' = unreported /\ call' = [call EXCEPT ![c] = "idle"]
    BY <2>1, <2>3, OwedFrame DEF Owing, CallsOK
  <2>4. CASE /\ unreported' = Append(unreported, c)
             /\ \E s \in {"reportPause", "reportResume"} : call' = [call EXCEPT ![c] = s]
    <3>1. c \in Owing' /\ Owing \subseteq Owing'
      BY <2>1, <2>4 DEF Owing, CallsOK
    <3> QED
      BY <1>1, <2>2, <2>4, <3>1, OwesMore
  <2> QED
    BY <1>2, <2>3, <2>4 DEF Serve, SetFlag
<1>3. CASE CallReports(c)
  <2>1. /\ unreported' = Others(c) /\ call' = [call EXCEPT ![c] = "idle"]
        /\ UNCHANGED <<counter, timer>>
    BY <1>3 DEF CallReports, Report
  <2>2. Owing \ {c} \subseteq Owing'
    BY <2>1 DEF Owing, CallsOK
  <2> QED
    BY <1>1, <2>1, <2>2, OwesLess
<1>4. CASE CallFails(c)
  <2>1. /\ call[c] \in {"pause", "resume"} /\ call' = [call EXCEPT ![c] = "idle"]
        /\ UNCHANGED <<counter, timer, unreported>>
    BY <1>4 DEF CallFails
  <2> QED
    BY <2>1, OwedFrame DEF Owing, CallsOK
<1> QED
  BY <1>2, <1>3, <1>4 DEF CallStep

LEMMA TimerOwed ==
    ASSUME OwnInv, CallsOK, TimersOK, OwedOK, NEW t \in Timers, Wake(t) \/ ExpiryStep(t)
    PROVE  OwedOK'
<1>1. t \in Reporters /\ t # "counter" /\ t \notin Calls
  BY PauseAssumption DEF Reporters
<1>2. CASE Wake(t) \/ Quiet(t)
  <2>1. /\ timer[t] # "report"
        /\ \E s \in {"passed", "done", "quiet"} : timer' = [timer EXCEPT ![t] = s]
        /\ UNCHANGED <<counter, call, unreported>>
    BY <1>2 DEF Wake, Quiet, rpcVars
  <2> QED
    BY <2>1, OwedFrame DEF Owing, TimersOK
<1>3. CASE Expire(t)
  <2>1. timer[t] = "quiet" /\ UNCHANGED <<counter, call>>
    BY <1>3 DEF Expire, rpcVars
  <2>2. t \notin Owing
    BY <1>1, <2>1 DEF Owing
  <2>3. CASE unreported' = Append(unreported, t) /\ timer' = [timer EXCEPT ![t] = "report"]
    <3>1. t \in Owing' /\ Owing \subseteq Owing'
      BY <2>1, <2>3 DEF Owing, TimersOK
    <3> QED
      BY <1>1, <2>2, <2>3, <3>1, OwesMore
  <2>4. CASE unreported' = unreported /\ timer' = [timer EXCEPT ![t] = "call"]
    BY <2>1, <2>4, OwedFrame DEF Owing, TimersOK
  <2> QED
    BY <1>3, <2>3, <2>4 DEF Expire, SetFlag
<1>4. CASE ExpiryReports(t)
  <2>1. /\ unreported' = Others(t) /\ timer' = [timer EXCEPT ![t] = "call"]
        /\ UNCHANGED <<counter, call>>
    BY <1>4 DEF ExpiryReports, Report, rpcVars
  <2>2. Owing \ {t} \subseteq Owing'
    BY <2>1 DEF Owing, TimersOK
  <2> QED
    BY <1>1, <2>1, <2>2, OwesLess
<1>5. CASE ExpiryCalls(t)
  <2>1. Sends("resume", FALSE)
    BY <1>5 DEF ExpiryCalls
  <2>2. /\ timer[t] = "call" /\ timer' = [timer EXCEPT ![t] = "done"]
        /\ UNCHANGED <<counter, unreported>>
    BY <1>5 DEF ExpiryCalls
  <2>3. \A u \in Timers : timer[u] = "report" => timer'[u] = "report"
    BY <2>2 DEF TimersOK
  <2> QED
    BY <2>1, <2>2, <2>3, SendsOwed
<1> QED
  BY <1>2, <1>3, <1>4, <1>5 DEF ExpiryStep

LEMMA OwedKept ==
    ASSUME OwnInv, CallsOK, TimersOK, Kinds, OwedOK, [Next]_vars
    PROVE  OwedOK'
<1>1. ASSUME NEW what \in {"pause", "resume"}, ClientCalls(what) PROVE OwedOK'
  <2>1. Sends(what, FALSE)
    BY <1>1, Zenon DEF ClientCalls
  <2>2. UNCHANGED <<timer, counter, unreported>>
    BY <1>1 DEF ClientCalls
  <2> QED
    BY <2>1, <2>2, SendsOwed
<1>2. CASE TrayCalls
  <2> DEFINE what == IF Head(tray) = "resume" THEN "resume" ELSE "pause"
  <2>1. Sends(what, Head(tray) = "snoozePause")
    BY <1>2, Zenon DEF TrayCalls
  <2>2. what \in {"pause", "resume"} /\ (Head(tray) = "snoozePause") \in BOOLEAN
    OBVIOUS
  <2>3. UNCHANGED <<timer, counter, unreported>>
    BY <1>2 DEF TrayCalls
  <2> QED
    BY <2>1, <2>2, <2>3, SendsOwed
<1>3. CASE TraySnoozes
  <2> DEFINE n == CHOOSE t \in Timers : timer[t] = "none"
  <2>1. /\ n \in Timers /\ timer[n] = "none" /\ timer' = [timer EXCEPT ![n] = "sleeping"]
        /\ UNCHANGED <<counter, call, unreported>>
    BY <1>3 DEF TraySnoozes, StartSnooze, rpcVars
  <2> HIDE DEF n
  <2> QED
    BY <2>1, OwedFrame DEF Owing, TimersOK
<1>4. CASE UNCHANGED <<timer, counter, call, unreported>>
  BY <1>4, OwedFrame DEF Owing
<1>5. CASE Press \/ ClickSnooze \/ ClickPause \/ ClickResume \/ TrayRestarts
  BY <1>4, <1>5 DEF Press, ClickSnooze, ClickPause, ClickResume, Click, TrayRestarts, rpcVars
<1>6. CASE CoordinatorStep \/ TrayCancels \/ PollChange \/ TraySyncs \/ PollHint
  BY <1>4, <1>6 DEF CoordinatorStep, TakeReports, ApplyReport, TrayCancels, CancelSnooze, PollChange,
     TraySyncs, PollHint, rpcVars
<1>7. CASE UNCHANGED vars
  BY <1>4, <1>7 DEF vars, rpcVars
<1> QED
  BY <1>1, <1>2, <1>3, <1>5, <1>6, <1>7, CounterOwed, CallOwed, TimerOwed
     DEF Next, UserStep, TrayStep

(* Every variable keeps its type, and the counter, a call or an expiry     *)
(* finishes with one flip of the flag before it makes another: each owes   *)
(* one report at most (hotkey.rs, server.rs, native.rs).                   *)
THEOREM PauseTyped == Spec => []TypeOK
<1> DEFINE Inv == IInv /\ OwnInv /\ CallsOK /\ Kinds /\ OwedOK
<1>1. Init => Inv
  <2>1. Init => IInv /\ OwnInv /\ CallsOK
    BY InitInv, InitOwn
  <2>2. ASSUME Init PROVE Kinds
    <3>1. reports = <<>> /\ tokens = 0 /\ inputs = 0
      BY <2>2 DEF Init
    <3>2. /\ reports \in Seq(BOOLEAN) /\ Len(reports) <= ChannelSize
          /\ tokens \in 0..inputs /\ inputs \in 0..MaxInputs
      BY <3>1, PauseAssumption
    <3> QED
      BY <2>2, <3>2 DEF Init, Kinds
  <2>3. ASSUME Init PROVE OwedOK
    BY <2>3 DEF Init, OwedOK, Distinct
  <2> QED
    BY <2>1, <2>2, <2>3
<1>2. Inv /\ [Next]_vars => Inv'
  BY NextInv, CallsKept, OwnKept, KindsKept, OwedKept DEF IInv
<1>3. Inv => TypeOK
  <2> SUFFICES ASSUME Inv PROVE TypeOK
    OBVIOUS
  <2>1. Len(tray) <= 2
    BY DEF OwnInv, Handlers
  <2>2. tokens \in 0..MaxInputs
    BY PauseAssumption DEF Kinds
  <2>3. /\ \A i \in DOMAIN unreported : unreported[i] \in Reporters
        /\ \A i, j \in DOMAIN unreported : unreported[i] = unreported[j] => i = j
    BY DEF OwedOK, Distinct
  <2> QED
    BY <2>1, <2>2, <2>3 DEF IInv, TimersOK, TimerStates, OwnInv, CallsOK, Kinds, TypeOK
<1> QED
  BY <1>1, <1>2, <1>3, PTL DEF Spec
=============================================================================
