----------------------------- MODULE Dwc3Kretprobe -----------------------------
(***************************************************************************)
(* The life cycle of dwc3_msm_kretprobe.c, the helper module that probes   *)
(* dwc3_msm: its own load and unload, the notifier through which dwc3_msm  *)
(* tells that it is live or going, the probes and tracepoint callbacks it  *)
(* registers, and the works its handlers defer to the system workqueue.    *)
(*                                                                         *)
(* Two tasks run the helper's code: "helper" loads and unloads the helper, *)
(* "dwc" loads and unloads dwc3_msm, and runs the helper's notifier.       *)
(***************************************************************************)
EXTENDS Integers, FiniteSets

CONSTANTS
    NProbes,      (* ARRAY_SIZE(dwc3_msm_probes)                               *)
    Foreign,      (* the probes of functions not in dwc3_msm: android_work(),  *)
                  (* usb_ep_set_maxpacket_limit()                              *)
    RunStop,      (* the probe of dwc3_gadget_run_stop(), which defers works   *)
    NTraces,      (* the tracepoints dwc3_tp_register_all() hooks              *)
    MaxWorks,     (* bound of the model on the deferred works pending at once  *)
    MaxLoads      (* bound of the model on how often dwc3_msm is loaded        *)

Probes == 1 .. NProbes
Traces == 1 .. NTraces
Tasks  == {"helper", "dwc"}

ASSUME Dwc3Assumption ==
    /\ NProbes \in Nat /\ NTraces \in Nat /\ MaxWorks \in Nat /\ MaxLoads \in Nat
    /\ Foreign \subseteq Probes /\ RunStop \in Probes

(* The table ends with dwc3_suspend_common(), which is dwc3_msm's: the patch *)
(* says so of all it probes (lines 12-13, 691-695).                         *)
ASSUME TableEnd == NProbes \notin Foreign

VARIABLES
    dwc,        (* the state of module dwc3_msm                                *)
    loads,      (* how often it has been loaded                                *)
    nb,         (* dwc3_msm_mod_nb is on the notifier chain                    *)
    armed,      (* the probes whose kretprobe is registered                    *)
    traced,     (* the tracepoints whose callback is registered                *)
    works,      (* deferred works that are pending                             *)
    pc,         (* where each task is                                          *)
    i,          (* its loop variable                                           *)
    j           (* ... and that of the loop that rolls back                    *)

hooks == <<armed, traced, works>>
loop  == <<i, j>>
vars  == <<dwc, loads, nb, hooks, pc, loop>>

InInit == {"arm", "rollback", "trace", "undo", "init_ok", "init_failed"}
InExit == {"disarm", "untrace", "flush", "exit_over"}

(* The helper's code is in memory until its load fails or its unload ends.  *)
HelperGone == pc["helper"] \in {"failed", "gone"}

(* dwc3_msm_mod_notifier_cb() is running, with the chain's lock held.       *)
InNotifier == pc["dwc"] \in InInit \cup InExit

Init ==
    /\ dwc = "absent" /\ loads = 0 /\ nb = FALSE
    /\ armed = {} /\ traced = {} /\ works = 0
    /\ pc = [t \in Tasks |-> "idle"]
    /\ i = [t \in Tasks |-> 0] /\ j = [t \in Tasks |-> 0]

Goto(t, label)    == pc' = [pc EXCEPT ![t] = label]
Loop(t, label, n) == Goto(t, label) /\ i' = [i EXCEPT ![t] = n] /\ j' = j

--------------------------------------------------------------------------------
(* dwc3_msm_kretprobe_init().                                               *)

(* register_kretprobe() fails on a probe that is registered already, and on *)
(* a function of a module that is going or gone; it may always fail         *)
(* otherwise.                                                               *)
CanArm(p) == p \notin armed /\ (dwc \in {"coming", "live"} \/ p \in Foreign)

ArmProbe(t) ==
    /\ pc[t] = "arm" /\ i[t] <= NProbes /\ CanArm(i[t])
    /\ armed' = armed \cup {i[t]}
    /\ Loop(t, "arm", i[t] + 1)
    /\ UNCHANGED <<dwc, loads, nb, traced, works>>

(* Variant: the loop goes on after a failure, as before the patch.           *)
ArmGoesOn(t) ==
    /\ pc[t] = "arm" /\ i[t] <= NProbes
    /\ Loop(t, "arm", i[t] + 1)
    /\ UNCHANGED <<dwc, loads, nb, hooks>>

ArmFails(t) ==
    /\ pc[t] = "arm" /\ i[t] <= NProbes
    /\ Goto(t, "rollback")
    /\ j' = [j EXCEPT ![t] = 1]
    /\ UNCHANGED <<dwc, loads, nb, hooks, i>>

(* for (j = 0; j < i; j++) unregister_kretprobe(&dwc3_msm_probes[j])       *)
RollBack(t) ==
    /\ pc[t] = "rollback"
    /\ IF j[t] >= i[t]
       THEN Goto(t, "init_failed") /\ UNCHANGED <<armed, loop>>
       ELSE /\ armed' = armed \ {j[t]}
            /\ j' = [j EXCEPT ![t] = j[t] + 1]
            /\ UNCHANGED <<pc, i>>
    /\ UNCHANGED <<dwc, loads, nb, traced, works>>

AllArmed(t) ==
    /\ pc[t] = "arm" /\ i[t] > NProbes
    /\ Loop(t, "trace", 1)
    /\ UNCHANGED <<dwc, loads, nb, hooks>>

(* dwc3_tp_register_all(): register_trace_*() refuses a callback it has.    *)
RegisterTrace(t) ==
    /\ pc[t] = "trace" /\ i[t] <= NTraces /\ i[t] \notin traced
    /\ traced' = traced \cup {i[t]}
    /\ Loop(t, "trace", i[t] + 1)
    /\ UNCHANGED <<dwc, loads, nb, armed, works>>

(* ... and returns on the first failure, with those before it registered.   *)
TraceFails(t) ==
    /\ pc[t] = "trace" /\ i[t] <= NTraces
    /\ Loop(t, "undo", 1)
    /\ UNCHANGED <<dwc, loads, nb, hooks>>

UndoProbe(t) ==
    /\ pc[t] = "undo"
    /\ IF i[t] > NProbes
       THEN Goto(t, "init_failed") /\ UNCHANGED <<armed, loop>>
       ELSE /\ armed' = armed \ {i[t]}
            /\ Loop(t, "undo", i[t] + 1)
    /\ UNCHANGED <<dwc, loads, nb, traced, works>>

AllTraced(t) ==
    /\ pc[t] = "trace" /\ i[t] > NTraces
    /\ Goto(t, "init_ok")
    /\ UNCHANGED <<dwc, loads, nb, hooks, loop>>

InitStep(t) ==
    \/ ArmProbe(t) \/ ArmFails(t) \/ RollBack(t) \/ AllArmed(t)
    \/ RegisterTrace(t) \/ TraceFails(t) \/ UndoProbe(t) \/ AllTraced(t)

--------------------------------------------------------------------------------
(* dwc3_msm_kretprobe_exit().                                               *)

(* Variant: off by one.                                                      *)
DisarmNext(t) ==
    /\ pc[t] = "disarm"
    /\ IF i[t] > NProbes
       THEN Goto(t, "untrace") /\ UNCHANGED <<armed, loop>>
       ELSE /\ armed' = armed \ {i[t] + 1}
            /\ Loop(t, "disarm", i[t] + 1)
    /\ UNCHANGED <<dwc, loads, nb, traced, works>>

(* unregister_kretprobe() waits for the handlers that are running.  Of a    *)
(* probe that is not registered it warns, and changes nothing.              *)
DisarmProbe(t) ==
    /\ pc[t] = "disarm"
    /\ IF i[t] > NProbes
       THEN Goto(t, "untrace") /\ UNCHANGED <<armed, loop>>
       ELSE /\ armed' = armed \ {i[t]}
            /\ Loop(t, "disarm", i[t] + 1)
    /\ UNCHANGED <<dwc, loads, nb, traced, works>>

(* dwc3_tp_unregister_all(), with the callbacks that are running.           *)
Untrace(t) ==
    /\ pc[t] = "untrace"
    /\ traced' = {}
    /\ Goto(t, "flush")
    /\ UNCHANGED <<dwc, loads, nb, armed, works, loop>>

(* flush_scheduled_work() *)
Flush(t) ==
    /\ pc[t] = "flush" /\ works = 0
    /\ Goto(t, "exit_over")
    /\ UNCHANGED <<dwc, loads, nb, hooks, loop>>

ExitStep(t) == DisarmProbe(t) \/ Untrace(t) \/ Flush(t)

--------------------------------------------------------------------------------
(* The handlers and what they defer.                                        *)

(* entry_dwc3_gadget_run_stop(): at most one work, for the first action     *)
(* that has a thread; without memory, none.                                 *)
HandlerDefers ==
    /\ RunStop \in armed /\ works < MaxWorks
    /\ works' = works + 1
    /\ UNCHANGED <<dwc, loads, nb, armed, traced, pc, loop>>

(* dwc3_irq_sched_work_fn() *)
WorkRuns ==
    /\ works > 0
    /\ works' = works - 1
    /\ UNCHANGED <<dwc, loads, nb, armed, traced, pc, loop>>

--------------------------------------------------------------------------------
(* The helper's load and unload.                                            *)

(* register_module_notifier(), which may fail; the load fails with it.      *)
RegisterNotifier ==
    /\ pc["helper"] = "idle"
    /\ \/ nb' = TRUE /\ Goto("helper", "check")
       \/ nb' = nb /\ Goto("helper", "failed")
    /\ UNCHANGED <<dwc, loads, hooks, loop>>

(* find_module() and its state, under module_mutex: armed at once if live.  *)
CheckLive ==
    /\ pc["helper"] = "check"
    /\ IF dwc = "live" THEN Loop("helper", "arm", 1)
       ELSE Goto("helper", "loaded") /\ UNCHANGED loop
    /\ UNCHANGED <<dwc, loads, nb, hooks>>

LoadOver ==
    /\ pc["helper"] = "init_ok"
    /\ Goto("helper", "loaded")
    /\ UNCHANGED <<dwc, loads, nb, hooks, loop>>

(* unregister_module_notifier() waits for a callback that is running.       *)
LoadFails ==
    /\ pc["helper"] = "init_failed" /\ ~InNotifier
    /\ nb' = FALSE
    /\ Goto("helper", "failed")
    /\ UNCHANGED <<dwc, loads, hooks, loop>>

(* Variant: unregister_module_notifier() forgotten.                          *)
UnloadKeepsNotifier ==
    /\ pc["helper"] = "loaded"
    /\ Loop("helper", "disarm", 1)
    /\ UNCHANGED <<dwc, loads, nb, hooks>>

(* dwc3_msm_kretprobe_module_exit() *)
Unload ==
    /\ pc["helper"] = "loaded" /\ ~InNotifier
    /\ nb' = FALSE
    /\ Loop("helper", "disarm", 1)
    /\ UNCHANGED <<dwc, loads, hooks>>

UnloadOver ==
    /\ pc["helper"] = "exit_over"
    /\ Goto("helper", "gone")
    /\ UNCHANGED <<dwc, loads, nb, hooks, loop>>

--------------------------------------------------------------------------------
(* dwc3_msm's load and unload.                                              *)

DwcComing ==
    /\ pc["dwc"] = "idle" /\ dwc = "absent" /\ loads < MaxLoads
    /\ dwc' = "coming" /\ loads' = loads + 1
    /\ UNCHANGED <<nb, hooks, pc, loop>>

(* The state changes first ...                                              *)
DwcLive ==
    /\ dwc = "coming"
    /\ dwc' = "live"
    /\ Goto("dwc", "tell_live")
    /\ UNCHANGED <<loads, nb, hooks, loop>>

DwcGoing ==
    /\ pc["dwc"] = "idle" /\ dwc = "live"
    /\ dwc' = "going"
    /\ Goto("dwc", "tell_going")
    /\ UNCHANGED <<loads, nb, hooks, loop>>

(* Variant: the callback ignores MODULE_STATE_GOING.                         *)
NotifyGoingIgnored ==
    /\ pc["dwc"] = "tell_going"
    /\ Goto("dwc", "free")
    /\ UNCHANGED <<dwc, loads, nb, hooks, loop>>

(* ... then the notifier chain is called, which may be empty.               *)
NotifyGoing ==
    /\ pc["dwc"] = "tell_going"
    /\ IF nb THEN Loop("dwc", "disarm", 1) ELSE Goto("dwc", "free") /\ UNCHANGED loop
    /\ UNCHANGED <<dwc, loads, nb, hooks>>

NotifyLive ==
    /\ pc["dwc"] = "tell_live"
    /\ IF nb THEN Loop("dwc", "arm", 1) ELSE Goto("dwc", "idle") /\ UNCHANGED loop
    /\ UNCHANGED <<dwc, loads, nb, hooks>>

(* NOTIFY_OK, whatever init returned.                                       *)
Notified ==
    /\ pc["dwc"] \in {"init_ok", "init_failed", "exit_over"}
    /\ Goto("dwc", IF pc["dwc"] = "exit_over" THEN "free" ELSE "idle")
    /\ UNCHANGED <<dwc, loads, nb, hooks, loop>>

(* dwc3_msm's text is freed.                                                *)
DwcFreed ==
    /\ pc["dwc"] = "free"
    /\ dwc' = "absent"
    /\ Goto("dwc", "idle")
    /\ UNCHANGED <<loads, nb, hooks, loop>>

--------------------------------------------------------------------------------
HelperStep ==
    \/ RegisterNotifier \/ CheckLive \/ LoadOver \/ LoadFails \/ Unload \/ UnloadOver
DwcStep ==
    DwcComing \/ DwcLive \/ NotifyLive \/ DwcGoing \/ NotifyGoing \/ Notified \/ DwcFreed

(* Nobody has to load or unload anything again.                             *)
Terminated == HelperGone /\ pc["dwc"] = "idle" /\ UNCHANGED vars

Next ==
    \/ \E t \in Tasks : InitStep(t) \/ ExitStep(t)
    \/ HandlerDefers \/ WorkRuns \/ HelperStep \/ DwcStep \/ Terminated

Spec == Init /\ [][Next]_vars

(* A task that is inside a system call goes on, and the workqueue runs its  *)
(* works; whether a module is ever loaded or unloaded is left open.         *)
Fairness ==
    /\ \A t \in Tasks : WF_vars(InitStep(t)) /\ WF_vars(ExitStep(t))
    /\ WF_vars(WorkRuns)
    /\ WF_vars(CheckLive \/ LoadOver \/ LoadFails \/ UnloadOver)
    /\ WF_vars(NotifyLive \/ NotifyGoing \/ Notified \/ DwcFreed)

FairSpec == Spec /\ Fairness

--------------------------------------------------------------------------------
Dwc3TypeOK ==
    /\ dwc \in {"absent", "coming", "live", "going"} /\ loads \in 0 .. MaxLoads
    /\ nb \in BOOLEAN
    /\ armed \subseteq Probes /\ traced \subseteq Traces /\ works \in 0 .. MaxWorks
    /\ pc \in [Tasks -> InInit \cup InExit \cup
                {"idle", "check", "loaded", "failed", "gone", "tell_live", "tell_going", "free"}]
    /\ i \in [Tasks -> 0 .. NProbes + NTraces + 1]
    /\ j \in [Tasks -> 0 .. NProbes + NTraces + 1]
    /\ \A t \in Tasks : pc[t] \in {"arm", "trace"} => i[t] >= 1

(* When the helper has been unloaded, nothing in the kernel refers to its   *)
(* code: no probe, no tracepoint callback, no notifier, no pending work.    *)
CleanAfterUnload ==
    pc["helper"] = "gone" =>
        ~nb /\ ~InNotifier /\ armed = {} /\ traced = {} /\ works = 0

(* Behind it: the unload begins when no callback of the notifier runs or    *)
(* can begin, so nothing takes back what each of its steps has undone.      *)
UnloadInv ==
    pc["helper"] \in InExit \cup {"gone"} =>
        /\ ~nb /\ ~InNotifier
        /\ \A p \in armed : pc["helper"] = "disarm" /\ p >= i["helper"]
        /\ pc["helper"] \in {"flush", "exit_over", "gone"} => traced = {}
        /\ pc["helper"] \in {"exit_over", "gone"} => works = 0

(* Where dwc3_msm's task is tells the state of the module.                  *)
DwcPhase ==
    /\ pc["dwc"] \in InInit \cup InExit \cup {"idle", "tell_live", "tell_going", "free"}
    /\ pc["dwc"] \in InInit \cup {"tell_live"}            => dwc = "live"
    /\ pc["dwc"] \in InExit \cup {"tell_going", "free"}   => dwc = "going"
    /\ pc["dwc"] = "idle"                                 => dwc # "going"

(* While the notifier is registered, the exit it runs takes back every probe *)
(* of dwc3_msm before the text goes, and no init arms one again meanwhile.  *)
TextInv ==
    /\ nb <=> pc["helper"] \in InInit \cup {"check", "loaded"}
    /\ InNotifier => nb
    /\ pc["helper"] = "idle" => armed = {}
    /\ nb /\ (dwc = "absent" \/ pc["dwc"] \in {"untrace", "flush", "exit_over", "free"})
          => armed \subseteq Foreign
    /\ nb /\ pc["dwc"] = "disarm" => \A p \in armed \ Foreign : p >= i["dwc"]

(* Two inits at once.  What the one that task t runs has registered of the  *)
(* table and not yet taken back; what a task that is through has left.      *)
Held(t) ==
    {p \in Probes : \/ pc[t] = "arm" /\ p < i[t]
                    \/ pc[t] = "rollback" /\ j[t] <= p /\ p < i[t]
                    \/ pc[t] \in {"trace", "init_ok"}
                    \/ pc[t] = "undo" /\ i[t] <= p}
Share(t, S) ==
    IF pc[t] \in {"idle", "loaded", "tell_going"} THEN S \in {{}, Probes} ELSE S = Held(t)

Stays == loads <= 1 /\ pc["helper"] \in InInit \cup {"idle", "check", "loaded"}

(* The table is empty until dwc3_msm is live; then every registered probe is *)
(* that of one task, since a registration fails on the probe of the other ... *)
NotYetLive == loads = 0 \/ dwc = "coming"
TableShared ==
    /\ dwc # "absent" => loads > 0
    /\ NotYetLive /\ Stays => armed = {} /\ pc["helper"] \notin InInit
    /\ (dwc = "live" \/ pc["dwc"] = "tell_going") /\ Stays =>
          \E A, B \in SUBSET Probes :
             /\ armed = A \cup B /\ A \cap B = {}
             /\ Share("helper", A) /\ Share("dwc", B)

(* ... and when dwc3_msm's exit has run, an init of the helper that is still *)
(* under way cannot come to the end of the table.                           *)
Through == \/ pc["helper"] \in {"idle", "check", "loaded", "trace", "init_ok"}
           \/ pc["helper"] = "arm" /\ i["helper"] > NProbes
TableCleared ==
    /\ Stays /\ Through
    /\ pc["dwc"] \in InExit \cup {"free"} \/ (dwc = "absent" /\ loads > 0)
    => \A p \in armed : pc["dwc"] = "disarm" /\ p >= i["dwc"]

Dwc3IInv ==
    /\ Dwc3TypeOK /\ UnloadInv /\ DwcPhase /\ TextInv
    /\ TableShared /\ TableCleared

(* Once both modules rest, the probes are registered all or none: init rolls *)
(* back, and two inits at once do not share the table between them.  (They   *)
(* may when dwc3_msm goes and comes again while the helper is inside init.)  *)
ProbesAllOrNone ==
    pc["helper"] = "loaded" /\ pc["dwc"] = "idle" /\ loads <= 1
        => armed \in {{}, Probes}

(* While the helper stays loaded, dwc3_msm's text is freed only with none   *)
(* of its functions patched.                                                *)
NoProbeInFreedText ==
    pc["helper"] = "loaded" /\ dwc = "absent" => armed \subseteq Foreign

(* An unload of either module comes to its end: flush_scheduled_work(),     *)
(* inside the notifier or not, waits for works that no handler renews, and  *)
(* unregister_module_notifier() for a callback that does not wait for it.   *)
UnloadsEnd ==
    /\ pc["helper"] = "disarm" ~> pc["helper"] = "gone"
    /\ dwc = "going" ~> dwc = "absent"

(* The patch, of the case that dwc3_msm is live already: "The notifier will *)
(* not fire retroactively, so check state explicitly."  It does fire when   *)
(* dwc3_msm becomes live between the two, and the helper whose load fails   *)
(* for that is freed with the notifier's probes registered.                 *)
NoProbeOutlivesHelper == pc["helper"] = "failed" => armed = {}
================================================================================
