----------------------------- MODULE InjectionGate -----------------------------
(***************************************************************************)
(* The injection gate (daemon/src/injector/gate.rs): two depth counters    *)
(* and the flag IS_INJECTING, which the keyboard hook and the clipboard    *)
(* monitor read to tell the daemon's own activity from the user's.         *)
(*                                                                         *)
(* A guard is an InjectionFlagGuard (a scope guard) or an                  *)
(* InjectionVisibilityGuard.  Each atomic access of begin_* and end_* is   *)
(* one step here, because the three accesses of one call interleave with   *)
(* those of every other thread.  A thread runs one gate call at a time,    *)
(* may hold several guards (the pool worker's, and the one its injection   *)
(* opens), and may move a guard into a task that another thread runs.      *)
(***************************************************************************)
EXTENDS Naturals, FiniteSets

CONSTANTS Threads,      \* pool workers, runtime workers, the evdev thread
          ScopeGuards,  \* the InjectionFlagGuard values that may be alive
          ViewGuards,   \* the InjectionVisibilityGuard values
          Nobody

Guards == ScopeGuards \cup ViewGuards

ASSUME GuardsAssumption ==
    /\ IsFiniteSet(ScopeGuards)
    /\ IsFiniteSet(ViewGuards)
    /\ ScopeGuards \cap ViewGuards = {}
    /\ Nobody \notin Threads

VARIABLES scopeDepth,       \* INJECTION_SCOPE_DEPTH
          visibilityDepth,  \* INJECTION_VISIBILITY_DEPTH
          isInjecting,      \* IS_INJECTING
          phase,            \* how far each guard's begin or end has come
          owner,            \* the thread that holds each guard
          remaining,        \* each end's local remaining_visibility_depth
          overlapped        \* history: a call began while another was under way

gateVars == <<scopeDepth, visibilityDepth, isInjecting, phase, owner, remaining, overlapped>>

(* A guard is absent, then its begin has counted it in the scope depth     *)
(* ("scoped") and in the visibility depth ("seen"), then it is "live"; its *)
(* end takes it out of the scope depth ("unscoped") and of the visibility  *)
(* depth ("unseen"), and the last store makes it absent again.             *)
Phases == {"absent", "scoped", "seen", "live", "unscoped", "unseen"}

InScope(g)      == g \in ScopeGuards /\ phase[g] \in {"scoped", "seen", "live"}
InVisibility(g) == phase[g] \in {"seen", "live", "unscoped"}
MidCall(g)      == phase[g] \notin {"absent", "live"}

Scoped  == {g \in Guards : InScope(g)}
Visible == {g \in Guards : InVisibility(g)}

Free(t) == \A g \in Guards : owner[g] = t => ~MidCall(g)
Quiet   == \A g \in Guards : ~MidCall(g)

(* The first access of a call: does it overlap a call of another thread? *)
StartCall == overlapped' = (overlapped \/ ~Quiet)

GateInit ==
    /\ scopeDepth = 0
    /\ visibilityDepth = 0
    /\ isInjecting = FALSE
    /\ phase = [g \in Guards |-> "absent"]
    /\ owner = [g \in Guards |-> Nobody]
    /\ remaining = [g \in Guards |-> 0]
    /\ overlapped = FALSE

-----------------------------------------------------------------------------
(* InjectionFlagGuard::begin -> begin_scope: scope_depth.fetch_add *)
BeginScope(t, g) ==
    /\ g \in ScopeGuards
    /\ phase[g] = "absent"
    /\ Free(t)
    /\ scopeDepth' = scopeDepth + 1
    /\ phase' = [phase EXCEPT ![g] = "scoped"]
    /\ owner' = [owner EXCEPT ![g] = t]
    /\ StartCall
    /\ UNCHANGED <<visibilityDepth, isInjecting, remaining>>

(* begin_scope: visibility_depth.fetch_add *)
CountVisible(g) ==
    /\ phase[g] = "scoped"
    /\ visibilityDepth' = visibilityDepth + 1
    /\ phase' = [phase EXCEPT ![g] = "seen"]
    /\ UNCHANGED <<scopeDepth, isInjecting, owner, remaining, overlapped>>

(* Mutant: begin_visibility opens a scope too. *)
BeginVisibilityAsScope(t, g) ==
    /\ g \in ViewGuards
    /\ phase[g] = "absent"
    /\ Free(t)
    /\ scopeDepth' = scopeDepth + 1
    /\ visibilityDepth' = visibilityDepth + 1
    /\ phase' = [phase EXCEPT ![g] = "seen"]
    /\ owner' = [owner EXCEPT ![g] = t]
    /\ StartCall
    /\ UNCHANGED <<isInjecting, remaining>>

(* InjectionVisibilityGuard::begin -> begin_visibility: fetch_add *)
BeginVisibility(t, g) ==
    /\ g \in ViewGuards
    /\ phase[g] = "absent"
    /\ Free(t)
    /\ visibilityDepth' = visibilityDepth + 1
    /\ phase' = [phase EXCEPT ![g] = "seen"]
    /\ owner' = [owner EXCEPT ![g] = t]
    /\ StartCall
    /\ UNCHANGED <<scopeDepth, isInjecting, remaining>>

(* begin_scope, begin_visibility: is_injecting.store(true) *)
RaiseFlag(g) ==
    /\ phase[g] = "seen"
    /\ isInjecting' = TRUE
    /\ phase' = [phase EXCEPT ![g] = "live"]
    /\ UNCHANGED <<scopeDepth, visibilityDepth, owner, remaining, overlapped>>

(* Drop for InjectionFlagGuard -> end_scope: scope_depth.fetch_sub *)
EndScope(g) ==
    /\ g \in ScopeGuards
    /\ phase[g] = "live"
    /\ Free(owner[g])
    /\ scopeDepth' = scopeDepth - 1
    /\ phase' = [phase EXCEPT ![g] = "unscoped"]
    /\ StartCall
    /\ UNCHANGED <<visibilityDepth, isInjecting, owner, remaining>>

(* end_scope, end_visibility: visibility_depth.fetch_sub, whose result is  *)
(* kept in a local for the store that follows                              *)
UncountVisible(g) ==
    /\ \/ phase[g] = "unscoped"
       \/ g \in ViewGuards /\ phase[g] = "live" /\ Free(owner[g])
    /\ visibilityDepth' = visibilityDepth - 1
    /\ remaining' = [remaining EXCEPT ![g] = visibilityDepth - 1]
    /\ phase' = [phase EXCEPT ![g] = "unseen"]
    /\ IF phase[g] = "live" THEN StartCall ELSE UNCHANGED overlapped
    /\ UNCHANGED <<scopeDepth, isInjecting, owner>>

(* Mutant: every end clears the flag. *)
SettleFlagAlwaysClear(g) ==
    /\ phase[g] = "unseen"
    /\ isInjecting' = FALSE
    /\ phase' = [phase EXCEPT ![g] = "absent"]
    /\ owner' = [owner EXCEPT ![g] = Nobody]
    /\ remaining' = [remaining EXCEPT ![g] = 0]
    /\ UNCHANGED <<scopeDepth, visibilityDepth, overlapped>>

(* end_scope, end_visibility: is_injecting.store(remaining > 0) *)
SettleFlag(g) ==
    /\ phase[g] = "unseen"
    /\ isInjecting' = (remaining[g] > 0)
    /\ phase' = [phase EXCEPT ![g] = "absent"]
    /\ owner' = [owner EXCEPT ![g] = Nobody]
    /\ remaining' = [remaining EXCEPT ![g] = 0]
    /\ UNCHANGED <<scopeDepth, visibilityDepth, overlapped>>

(* A guard moved into an async task: another thread will drop it.  Only    *)
(* launch_follow_up's scope guard is moved.                                *)
HandOver(g, t) ==
    /\ g \in ScopeGuards
    /\ phase[g] = "live"
    /\ Free(owner[g])
    /\ t # owner[g]
    /\ owner' = [owner EXCEPT ![g] = t]
    /\ UNCHANGED <<scopeDepth, visibilityDepth, isInjecting, phase, remaining, overlapped>>

Begin(g) == \E t \in Threads : BeginScope(t, g) \/ BeginVisibility(t, g)
Proceed(g) == CountVisible(g) \/ RaiseFlag(g) \/ UncountVisible(g) \/ SettleFlag(g)

GateNext ==
    \E g \in Guards :
        \/ Begin(g)
        \/ EndScope(g)
        \/ Proceed(g)
        \/ \E t \in Threads : HandOver(g, t)

GateSpec == GateInit /\ [][GateNext]_gateVars

-----------------------------------------------------------------------------
GateTypeOK ==
    /\ scopeDepth \in Nat
    /\ visibilityDepth \in Nat
    /\ isInjecting \in BOOLEAN
    /\ phase \in [Guards -> Phases]
    /\ \A g \in ViewGuards : phase[g] \notin {"scoped", "unscoped"}
    /\ owner \in [Guards -> Threads \cup {Nobody}]
    /\ remaining \in [Guards -> Nat]
    /\ overlapped \in BOOLEAN

(* The two counters count exactly the guards whose call has added itself   *)
(* and not yet taken itself out, however the calls of the threads          *)
(* interleave and whichever thread drops a guard; so the debug_asserts of  *)
(* end_scope and end_visibility ("depth underflow") never fire and the     *)
(* counters are zero when every guard is gone.                             *)
DepthsCountGuards ==
    /\ scopeDepth = Cardinality(Scoped)
    /\ visibilityDepth = Cardinality(Visible)

(* As long as no two calls have overlapped, the hook sees IS_INJECTING     *)
(* exactly while some guard is alive, in every nesting and order of drops: *)
(* suppression is neither lost under a live guard nor left behind by the   *)
(* last one (injector/tests.rs: it stays "active until" the overlapping    *)
(* frame finishes, and the last end "must fully release" it).              *)
SuppressionUnlessOverlapped ==
    ~overlapped /\ Quiet => (isInjecting <=> \E g \in Guards : phase[g] = "live")
=============================================================================
