----------------------------- MODULE DeferKretprobe -----------------------------
(***************************************************************************)
(* defer-kretprobe-registration.patch: dwc3_msm registers its kretprobes   *)
(* from a delayed work, so that the stop_machine() calls under             *)
(* register_kretprobe() come when the burst of load balancing at boot is   *)
(* over; the unload cancels the work or, when it has run, unregisters.     *)
(*                                                                         *)
(* A stop_machine() call that meets the burst may deadlock, and the        *)
(* detector of StopMachine then panics.  The tick is a second.             *)
(***************************************************************************)
EXTENDS Integers

CONSTANTS
    NProbes,      (* ARRAY_SIZE(dwc3_msm_probes)                               *)
    Defer,        (* DWC3_KRETPROBE_DEFER_MS                                   *)
    Bursts,       (* how long the burst may last                               *)
    MaxLoads      (* bound of the model on how often dwc3_msm is loaded        *)

Probes == 1 .. NProbes

ASSUME DeferAssumption ==
    NProbes \in Nat /\ Defer \in Nat /\ Bursts \subseteq Nat /\ MaxLoads \in Nat

VARIABLES
    length,       (* how long the burst lasts                                  *)
    burst,        (* ... and how much of it is left                            *)
    panicked,     (* the detector has ended a deadlock                         *)
    loads,        (* how often dwc3_msm has been loaded                        *)
    pc,           (* where the task that loads and unloads it is               *)
    j,            (* its loop variable                                         *)
    work,         (* dwc3_msm_kretprobe_work                                   *)
    left,         (* ticks until its timer fires                               *)
    i,            (* its loop variable                                         *)
    stopping,     (* it is in the stop_machine() of register_kretprobe()       *)
    registered,   (* dwc3_msm_kretprobe_registered                             *)
    armed,        (* the probes that are registered                            *)
    failed,       (* history: those whose registration failed in this load     *)
    warned        (* history: those unregistered without being registered      *)

clock  == <<length, burst, panicked>>
task   == <<loads, pc, j>>
worker == <<work, left, i, stopping, registered>>
probes == <<armed, failed, warned>>
vars   == <<clock, task, worker, probes>>

Init ==
    /\ length \in Bursts /\ burst = length /\ panicked = FALSE
    /\ loads = 0 /\ pc = "absent" /\ j = 1
    /\ work = "idle" /\ left = 0 /\ i = 1 /\ stopping = FALSE /\ registered = FALSE
    /\ armed = {} /\ failed = {} /\ warned = {}

--------------------------------------------------------------------------------
(* dwc3_msm_kretprobe_init(), in a module whose data are fresh.             *)
(* Variant: the delay is a tick short.                                      *)
LoadTickShort ==
    /\ pc = "absent" /\ loads < MaxLoads
    /\ loads' = loads + 1 /\ pc' = "loaded" /\ j' = 1
    /\ work' = "timer" /\ left' = Defer - 1
    /\ registered' = FALSE /\ failed' = {} /\ warned' = {}
    /\ UNCHANGED <<clock, i, stopping, armed>>

Load ==
    /\ pc = "absent" /\ loads < MaxLoads
    /\ loads' = loads + 1 /\ pc' = "loaded" /\ j' = 1
    /\ work' = "timer" /\ left' = Defer
    /\ registered' = FALSE /\ failed' = {} /\ warned' = {}
    /\ UNCHANGED <<clock, i, stopping, armed>>

(* The timer queues the work, and a worker takes it.                        *)
TimerFires ==
    /\ work = "timer" /\ left = 0
    /\ work' = "queued"
    /\ UNCHANGED <<clock, task, left, i, stopping, registered, probes>>

(* dwc3_msm_kretprobe_work_fn().                                            *)
WorkBegins ==
    /\ work = "queued"
    /\ work' = "running" /\ i' = 1
    /\ UNCHANGED <<clock, task, left, stopping, registered, probes>>

StopBegins ==
    /\ work = "running" /\ i <= NProbes /\ ~stopping
    /\ stopping' = TRUE
    /\ UNCHANGED <<clock, task, work, left, i, registered, probes>>

Registers ==
    /\ stopping
    /\ armed' = armed \cup {i} /\ i' = i + 1 /\ stopping' = FALSE
    /\ UNCHANGED <<clock, task, work, left, registered, failed, warned>>

(* Variant: a registration that fails is tried again.                       *)
RegisterFailsRetries ==
    /\ stopping
    /\ failed' = failed \cup {i} /\ stopping' = FALSE
    /\ UNCHANGED <<clock, task, work, left, i, registered, armed, warned>>

(* "Errors are logged but do not abort registration of remaining probes".   *)
RegisterFails ==
    /\ stopping
    /\ failed' = failed \cup {i} /\ i' = i + 1 /\ stopping' = FALSE
    /\ UNCHANGED <<clock, task, work, left, registered, armed, warned>>

(* Variant: the flag says that every probe has been registered.             *)
WorkEndsIfAll ==
    /\ work = "running" /\ i > NProbes
    /\ registered' = (failed = {}) /\ work' = "idle"
    /\ UNCHANGED <<clock, task, left, i, stopping, probes>>

WorkEnds ==
    /\ work = "running" /\ i > NProbes
    /\ registered' = TRUE /\ work' = "idle"
    /\ UNCHANGED <<clock, task, left, i, stopping, probes>>

--------------------------------------------------------------------------------
(* dwc3_msm_kretprobe_exit().                                               *)

Unload ==
    /\ pc = "loaded" /\ pc' = "cancel"
    /\ UNCHANGED <<clock, loads, j, worker, probes>>

(* Variant: what cancel_delayed_work_sync() returns is not looked at.       *)
CancelPendingGoesOn ==
    /\ pc = "cancel" /\ work \in {"timer", "queued"}
    /\ work' = "idle" /\ pc' = "unregister"
    /\ UNCHANGED <<clock, loads, j, left, i, stopping, registered, probes>>

(* cancel_delayed_work_sync() returns true: the work was pending.           *)
CancelPending ==
    /\ pc = "cancel" /\ work \in {"timer", "queued"}
    /\ work' = "idle" /\ pc' = "absent"
    /\ UNCHANGED <<clock, loads, j, left, i, stopping, registered, probes>>

(* Variant: cancel_delayed_work(), which waits for no one.                  *)
CancelWaitsNot ==
    /\ pc = "cancel" /\ work \in {"idle", "running"}
    /\ pc' = "check"
    /\ UNCHANGED <<clock, loads, j, worker, probes>>

(* It returns false, having waited for the work if that was running.        *)
CancelWaits ==
    /\ pc = "cancel" /\ work = "idle"
    /\ pc' = "check"
    /\ UNCHANGED <<clock, loads, j, worker, probes>>

CheckFlag ==
    /\ pc = "check"
    /\ pc' = IF registered THEN "unregister" ELSE "absent"
    /\ UNCHANGED <<clock, loads, j, worker, probes>>

(* unregister_kretprobe() warns of a probe that is not registered.          *)
Unregister ==
    /\ pc = "unregister" /\ j <= NProbes
    /\ armed' = armed \ {j} /\ j' = j + 1
    /\ warned' = warned \cup ({j} \ armed)
    /\ UNCHANGED <<clock, loads, pc, worker, failed>>

ExitOver ==
    /\ pc = "unregister" /\ j > NProbes
    /\ pc' = "absent"
    /\ UNCHANGED <<clock, loads, j, worker, probes>>

--------------------------------------------------------------------------------
(* During the burst a stop_machine() call, to patch a probe in or out, may   *)
(* find a stopper busy.                                                      *)
Deadlock ==
    /\ burst > 0
    /\ stopping \/ (pc = "unregister" /\ j \in armed)
    /\ panicked' = TRUE
    /\ UNCHANGED <<length, burst, task, worker, probes>>

Less(n) == IF n > 0 THEN n - 1 ELSE 0

Tick ==
    /\ burst > 0 \/ (work = "timer" /\ left > 0)
    /\ burst' = Less(burst) /\ left' = Less(left)
    /\ UNCHANGED <<length, panicked, task, work, i, stopping, registered, probes>>

WorkStep == WorkBegins \/ StopBegins \/ Registers \/ RegisterFails \/ WorkEnds
ExitStep == CancelPending \/ CancelWaits \/ CheckFlag \/ Unregister \/ ExitOver
Waits    == TimerFires \/ Tick

(* Nothing is left to do but, perhaps, to unload.                           *)
AtRest ==
    /\ panicked \/ (pc = "absent" /\ loads = MaxLoads /\ burst = 0)
    /\ UNCHANGED vars

DeferNext ==
    \/ ~panicked /\ (Load \/ Unload \/ WorkStep \/ ExitStep \/ Waits \/ Deadlock)
    \/ AtRest

DeferSpec == Init /\ [][DeferNext]_vars

(* Workers, the task that unloads, and time go on; nobody need load it, or   *)
(* unload it.                                                                *)
DeferFairSpec ==
    /\ DeferSpec
    /\ WF_vars(~panicked /\ WorkStep)
    /\ WF_vars(~panicked /\ ExitStep)
    /\ WF_vars(~panicked /\ Waits)

--------------------------------------------------------------------------------
DeferTypeOK ==
    /\ length \in Nat /\ burst \in 0 .. length /\ panicked \in BOOLEAN
    /\ loads \in 0 .. MaxLoads /\ j \in 1 .. NProbes + 1
    /\ pc \in {"absent", "loaded", "cancel", "check", "unregister"}
    /\ work \in {"idle", "timer", "queued", "running"}
    /\ left \in Nat /\ i \in 1 .. NProbes + 1
    /\ stopping \in BOOLEAN /\ registered \in BOOLEAN
    /\ armed \subseteq Probes /\ failed \subseteq Probes /\ warned \subseteq Probes

(* However the unload meets the timer, the worker and failures, it           *)
(* unregisters no probe that has not been through register_kretprobe(), so   *)
(* that the WARN_ON of Fix 1 (lines 50-55) needs a registration that failed. *)
WarnsOnlyAfterFailure == warned \subseteq failed

(* Once the module is gone, no probe is left that calls into it, and no work *)
(* is going to run in it (lines 218-247).                                    *)
NothingLeft == pc = "absent" => armed = {} /\ work = "idle"

(* "In normal operation this check is always true after cancel returns       *)
(* false" (lines 255-258), whatever has failed: else probes would stay.      *)
FlagAfterCancel == pc = "check" => registered

(* If the burst is over within the delay, no stop_machine() call of this     *)
(* driver meets it, in any load (lines 38-42).                               *)
NoStopInBurst == length <= Defer => ~panicked

(* The work neither outlives its module nor works on a table not its own;    *)
(* each probe up to where it is has been tried.                              *)
WorkOK ==
    /\ pc = "absent" => armed = {} /\ work = "idle"
    /\ pc \in {"check", "unregister"} => work = "idle" /\ registered
    /\ pc \in {"loaded", "cancel"} /\ work = "idle" => registered
    /\ work \in {"timer", "queued"} => armed = {}
    /\ work = "running" => \A p \in Probes : p < i => p \in armed \cup failed
    /\ pc \in {"loaded", "cancel"} => j = 1
    /\ pc # "absent" /\ work = "idle" =>
          \A p \in Probes : IF p < j THEN p \notin armed ELSE p \in armed \cup failed
    /\ stopping => work = "running" /\ i <= NProbes
    /\ warned \subseteq failed

(* A burst no longer than the delay ends before the timer does.              *)
BurstOver ==
    length <= Defer =>
        /\ ~panicked
        /\ work = "timer" => burst <= left
        /\ work \in {"queued", "running"} => burst = 0
        /\ pc # "absent" /\ work = "idle" => burst = 0

DeferIInv == DeferTypeOK /\ WorkOK /\ BurstOver

(* The unload comes to an end, though it waits for a work that waits for     *)
(* every CPU: it is over, or the detector has panicked.                      *)
UnloadEnds == pc = "cancel" ~> pc = "absent" \/ panicked
================================================================================
