-------------------------- MODULE Dwc3Kretprobe_proofs --------------------------
(***************************************************************************)
(* After the helper's unload nothing refers to its code, dwc3_msm's text   *)
(* is never freed under a probe, and two inits at once do not leave the    *)
(* table half registered: proved for any number of probes, tracepoints and *)
(* works and any number of loads of dwc3_msm, from the invariant Dwc3IInv. *)
(***************************************************************************)
EXTENDS Dwc3Kretprobe, TLAPS

Labels == InInit \cup InExit \cup
          {"idle", "check", "loaded", "failed", "gone", "tell_live", "tell_going", "free"}

(* The type invariant, by the variables an action changes together.         *)
ModuleOK == dwc \in {"absent", "coming", "live", "going"} /\ loads \in 0 .. MaxLoads
HooksOK  == armed \subseteq Probes /\ traced \subseteq Traces /\ works \in 0 .. MaxWorks
PcOK     == pc \in [Tasks -> Labels]
LoopOK   ==
    /\ i \in [Tasks -> 0 .. NProbes + NTraces + 1]
    /\ j \in [Tasks -> 0 .. NProbes + NTraces + 1]
    /\ \A t \in Tasks : pc[t] \in {"arm", "trace"} => i[t] >= 1

Types == ModuleOK /\ nb \in BOOLEAN /\ HooksOK /\ PcOK /\ LoopOK

LEMMA TypeParts == Dwc3TypeOK <=> Types
BY Zenon DEF Dwc3TypeOK, Types, ModuleOK, HooksOK, PcOK, LoopOK, Labels

(* One element more or less leaves a set of probes one.                     *)
LEMMA ProbeSets ==
    ASSUME NEW S, NEW p, S \subseteq Probes
    PROVE  S \ {p} \subseteq Probes /\ (p \in Probes => S \cup {p} \subseteq Probes)
OBVIOUS

(* Most actions leave the modules, or the hooks, alone.                     *)
LEMMA SameModule ==
    ASSUME ModuleOK, nb \in BOOLEAN, UNCHANGED <<dwc, loads, nb>>
    PROVE  ModuleOK' /\ nb' \in BOOLEAN
BY DEF ModuleOK

LEMMA SameHooks == ASSUME HooksOK, UNCHANGED hooks PROVE HooksOK'
BY DEF HooksOK, hooks

(* A step of init keeps the hooks within the tables ...                     *)
LEMMA InitStepHooks ==
    ASSUME Types, NEW t \in Tasks, InitStep(t) PROVE HooksOK'
<1> USE DEF HooksOK
<1>1. HooksOK /\ i[t] \in 0 .. NProbes + NTraces + 1
      /\ (pc[t] \in {"arm", "trace"} => i[t] >= 1)
  BY DEF Types, LoopOK
<1>2. CASE ArmProbe(t)
  <2>1. i[t] \in Probes
    BY <1>1, <1>2, Dwc3Assumption DEF ArmProbe, Probes
  <2> QED
    BY <1>1, <1>2, <2>1, ProbeSets DEF ArmProbe
<1>3. CASE RegisterTrace(t)
  <2>1. i[t] \in Traces
    BY <1>1, <1>3, Dwc3Assumption DEF RegisterTrace, Traces
  <2> QED
    BY <1>1, <1>3, <2>1 DEF RegisterTrace
<1>4. CASE RollBack(t) \/ UndoProbe(t)
  <2>1. armed' \subseteq armed /\ traced' = traced /\ works' = works
    BY <1>4 DEF RollBack, UndoProbe
  <2> QED
    BY <1>1, <2>1
<1>5. CASE ArmFails(t) \/ AllArmed(t) \/ TraceFails(t) \/ AllTraced(t)
  BY <1>1, <1>5 DEF ArmFails, AllArmed, TraceFails, AllTraced, hooks
<1> QED
  BY <1>2, <1>3, <1>4, <1>5 DEF InitStep

(* ... its label and its loops within theirs ...                            *)
LEMMA InitStepLoop ==
    ASSUME Types, NEW t \in Tasks, InitStep(t) PROVE PcOK' /\ LoopOK'
<1>1. PcOK /\ LoopOK
  BY DEF Types
<1>2. PcOK'
  BY <1>1 DEF InitStep, ArmProbe, ArmFails, RollBack, AllArmed, RegisterTrace, TraceFails,
     UndoProbe, AllTraced, PcOK, Labels, InInit, InExit, Goto, Loop
<1>3. LoopOK'
  <2> USE <1>1, Dwc3Assumption DEF LoopOK, PcOK, Goto, Loop, loop
  <2>1. CASE ArmProbe(t)
    BY <2>1 DEF ArmProbe
  <2>2. CASE ArmFails(t)
    BY <2>2 DEF ArmFails
  <2>3. CASE RollBack(t)
    BY <2>3 DEF RollBack
  <2>4. CASE AllArmed(t) \/ RegisterTrace(t)
    BY <2>4 DEF AllArmed, RegisterTrace
  <2>5. CASE TraceFails(t) \/ AllTraced(t)
    BY <2>5 DEF TraceFails, AllTraced
  <2>6. CASE UndoProbe(t)
    BY <2>6 DEF UndoProbe
  <2> QED
    BY <2>1, <2>2, <2>3, <2>4, <2>5, <2>6 DEF InitStep
<1> QED
  BY <1>2, <1>3

(* ... and leaves both modules and the notifier as they are.                *)
LEMMA InitStepTypes ==
    ASSUME Types, NEW t \in Tasks, InitStep(t) PROVE Types' /\ UNCHANGED <<dwc, loads, nb>>
<1>1. UNCHANGED <<dwc, loads, nb>>
  BY DEF InitStep, ArmProbe, ArmFails, RollBack, AllArmed, RegisterTrace, TraceFails,
         UndoProbe, AllTraced
<1> QED
  BY <1>1, SameModule, InitStepHooks, InitStepLoop DEF Types

(* A step of exit.                                                          *)
LEMMA ExitStepTypes ==
    ASSUME Types, NEW t \in Tasks, ExitStep(t) PROVE Types' /\ UNCHANGED <<dwc, loads, nb>>
<1>1. UNCHANGED <<dwc, loads, nb>>
  BY DEF ExitStep, DisarmProbe, Untrace, Flush
<1>2. armed' \subseteq armed /\ traced' \in {traced, {}} /\ works' = works
  BY DEF ExitStep, DisarmProbe, Untrace, Flush, hooks
<1>3. HooksOK'
  BY <1>2 DEF Types, HooksOK
<1>4. PcOK'
  BY DEF Types, ExitStep, DisarmProbe, Untrace, Flush, PcOK, Labels, InInit, InExit,
         Goto, Loop
<1>5. LoopOK'
  BY Dwc3Assumption
     DEF Types, ExitStep, DisarmProbe, Untrace, Flush, PcOK, LoopOK, Goto, Loop, loop
<1> QED
  BY <1>1, <1>3, <1>4, <1>5, SameModule DEF Types

(* The handlers and their works.                                            *)
LEMMA WorkStepTypes ==
    ASSUME Types, HandlerDefers \/ WorkRuns PROVE Types' /\ UNCHANGED <<dwc, loads, nb>>
<1>1. UNCHANGED <<dwc, loads, nb, armed, traced, pc, loop>>
  BY DEF HandlerDefers, WorkRuns
<1>2. HooksOK'
  BY <1>1, Dwc3Assumption DEF Types, HandlerDefers, WorkRuns, HooksOK
<1>3. PcOK' /\ LoopOK'
  BY <1>1 DEF Types, PcOK, LoopOK, loop
<1> QED
  BY <1>1, <1>2, <1>3, SameModule DEF Types

(* The two tasks outside init and exit.                                     *)
LEMMA TaskStepTypes ==
    ASSUME Types, HelperStep \/ DwcStep PROVE Types'
<1>1. UNCHANGED hooks
  BY DEF HelperStep, RegisterNotifier, CheckLive, LoadOver, LoadFails, Unload, UnloadOver,
         DwcStep, DwcComing, DwcLive, NotifyLive, DwcGoing, NotifyGoing, Notified, DwcFreed
<1>2. ModuleOK'
  BY Dwc3Assumption
     DEF Types, ModuleOK,
         HelperStep, RegisterNotifier, CheckLive, LoadOver, LoadFails, Unload, UnloadOver,
         DwcStep, DwcComing, DwcLive, NotifyLive, DwcGoing, NotifyGoing, Notified, DwcFreed
<1>3. nb' \in BOOLEAN
  <2>1. nb' = nb \/ nb' = TRUE \/ nb' = FALSE
    BY Zenon
       DEF HelperStep, RegisterNotifier, CheckLive, LoadOver, LoadFails, Unload, UnloadOver,
           DwcStep, DwcComing, DwcLive, NotifyLive, DwcGoing, NotifyGoing, Notified, DwcFreed
  <2> QED
    BY <2>1, Zenon DEF Types
<1>4. PcOK'
  <2> USE DEF Types, PcOK, Labels, InInit, InExit, Goto, Loop, Tasks
  <2>1. CASE HelperStep
    BY <2>1
       DEF HelperStep, RegisterNotifier, CheckLive, LoadOver, LoadFails, Unload, UnloadOver
  <2>2. CASE DwcStep
    BY <2>2
       DEF DwcStep, DwcComing, DwcLive, NotifyLive, DwcGoing, NotifyGoing, Notified, DwcFreed
  <2> QED
    BY <2>1, <2>2
<1>5. LoopOK'
  <2> USE Dwc3Assumption DEF Types, PcOK, LoopOK, Goto, Loop, loop, Tasks
  <2>1. CASE HelperStep
    BY <2>1
       DEF HelperStep, RegisterNotifier, CheckLive, LoadOver, LoadFails, Unload, UnloadOver
  <2>2. CASE DwcStep
    BY <2>2
       DEF DwcStep, DwcComing, DwcLive, NotifyLive, DwcGoing, NotifyGoing, Notified, DwcFreed
  <2> QED
    BY <2>1, <2>2
<1> QED
  BY <1>1, <1>2, <1>3, <1>4, <1>5, SameHooks DEF Types

Inductive ==
    Types /\ UnloadInv /\ DwcPhase /\ TextInv /\ TableShared /\ TableCleared

--------------------------------------------------------------------------------
(* The unload.  From its first step on the notifier neither runs nor can    *)
(* begin to, so the only task inside init or exit is the helper, in exit.   *)
Unloading == pc["helper"] \in InExit \cup {"gone"}

LEMMA InitStepUnload ==
    ASSUME Types, UnloadInv, NEW t \in Tasks, InitStep(t) PROVE UnloadInv'
<1>1. pc[t] \in InInit /\ pc' \in {pc} \cup {[pc EXCEPT ![t] = l] : l \in InInit}
  BY DEF InitStep, ArmProbe, ArmFails, RollBack, AllArmed, RegisterTrace, TraceFails,
         UndoProbe, AllTraced, Goto, Loop, InInit
<1>2. ~Unloading'
  BY <1>1 DEF Types, PcOK, Tasks, UnloadInv, Unloading, InNotifier, InInit, InExit
<1> QED
  BY <1>2 DEF UnloadInv, Unloading

(* Exit takes back one thing after the other.                               *)
LEMMA ExitStepUnload ==
    ASSUME Types, UnloadInv, NEW t \in Tasks, ExitStep(t) PROVE UnloadInv'
<1>1. CASE t = "dwc"
  <2>1. InNotifier /\ pc'["helper"] = pc["helper"]
    BY <1>1 DEF ExitStep, DisarmProbe, Untrace, Flush, Goto, Loop, Types, PcOK, Tasks,
                InNotifier, InExit
  <2> QED
    BY <2>1 DEF UnloadInv
<1>2. CASE t = "helper"
  <2>1. pc["helper"] \in InExit /\ ~nb /\ ~InNotifier /\ nb' = nb
    BY <1>2, ExitStepTypes DEF ExitStep, DisarmProbe, Untrace, Flush, UnloadInv, InExit
  <2>2. ~InNotifier'
    BY <1>2, <2>1
       DEF ExitStep, DisarmProbe, Untrace, Flush, Goto, Loop, Types, PcOK, Tasks, InNotifier
  <2>3. ~nb'
    BY <2>1, Zenon
  <2>4. CASE DisarmProbe(t)
    <3>1. armed \subseteq Probes /\ i[t] \in Nat /\ \A p \in armed : p >= i[t]
      BY <1>2, <2>4, Dwc3Assumption DEF DisarmProbe, UnloadInv, Types, HooksOK, LoopOK, InExit
    <3>2. CASE i[t] > NProbes
      <4>1. armed = {}
        BY <3>1, <3>2, Dwc3Assumption DEF Probes
      <4> QED
        BY <1>2, <2>2, <2>3, <2>4, <3>2, <4>1
           DEF DisarmProbe, UnloadInv, Goto, Types, PcOK, Labels
    <3>3. CASE ~(i[t] > NProbes)
      <4>1. armed' = armed \ {i[t]} /\ pc'["helper"] = "disarm" /\ i'["helper"] = i[t] + 1
        BY <1>2, <2>4, <3>3 DEF DisarmProbe, Loop, Goto, Types, PcOK, LoopOK, Tasks
      <4>2. \A p \in armed' : p >= i'["helper"]
        BY <3>1, <4>1 DEF Probes
      <4> QED
        BY <2>2, <2>3, <4>1, <4>2 DEF UnloadInv
    <3> QED
      BY <3>2, <3>3
  <2>5. CASE Untrace(t)
    <3>1. armed' = {} /\ traced' = {} /\ pc'["helper"] = "flush"
      BY <1>2, <2>5 DEF Untrace, Goto, UnloadInv, InExit, Types, PcOK
    <3> QED
      BY <2>2, <2>3, <3>1 DEF UnloadInv
  <2>6. CASE Flush(t)
    <3>1. armed' = {} /\ traced' = {} /\ works' = 0
      BY <1>2, <2>6 DEF Flush, hooks, UnloadInv, InExit
    <3> QED
      BY <2>2, <2>3, <3>1 DEF UnloadInv
  <2> QED
    BY <2>4, <2>5, <2>6 DEF ExitStep
<1> QED
  BY <1>1, <1>2 DEF Tasks

(* A handler runs, and defers, only while its probe is registered.          *)
LEMMA WorkStepUnload ==
    ASSUME Types, UnloadInv, HandlerDefers \/ WorkRuns PROVE UnloadInv'
<1>1. UNCHANGED <<nb, armed, traced, pc, loop>>
  BY DEF HandlerDefers, WorkRuns
<1>2. InNotifier' <=> InNotifier
  BY <1>1 DEF InNotifier
<1>3. pc["helper"] \notin {"exit_over", "gone"}
  BY DEF HandlerDefers, WorkRuns, UnloadInv, InExit
<1> QED
  BY <1>1, <1>2, <1>3 DEF UnloadInv, loop

(* Loading and unloading: only Unload enters exit, and it finds no callback *)
(* running.                                                                 *)
LEMMA HelperStepUnload ==
    ASSUME Types, UnloadInv, HelperStep PROVE UnloadInv'
<1>1. pc'["dwc"] = pc["dwc"]
  BY DEF HelperStep, RegisterNotifier, CheckLive, LoadOver, LoadFails, Unload, UnloadOver,
         Goto, Loop, Types, PcOK, Tasks
<1>2. InNotifier' <=> InNotifier
  BY <1>1 DEF InNotifier
<1>3. CASE Unload
  <2>1. ~nb' /\ armed' = armed /\ pc'["helper"] = "disarm" /\ i'["helper"] = 1 /\ ~InNotifier
    BY <1>3 DEF Unload, Loop, Goto, hooks, Types, PcOK, LoopOK, Tasks
  <2>2. \A p \in armed : p >= 1
    BY Dwc3Assumption DEF Types, HooksOK, Probes
  <2> QED
    BY <1>2, <2>1, <2>2 DEF UnloadInv
<1>4. CASE UnloadOver
  BY <1>2, <1>4 DEF UnloadOver, Goto, hooks, UnloadInv, InExit, Types, PcOK, Tasks
<1>5. CASE RegisterNotifier \/ CheckLive \/ LoadOver \/ LoadFails
  BY <1>5 DEF RegisterNotifier, CheckLive, LoadOver, LoadFails, Goto, Loop, UnloadInv,
              InExit, Types, PcOK, Tasks
<1> QED
  BY <1>3, <1>4, <1>5 DEF HelperStep

(* dwc3_msm's load and unload: with the notifier off the chain, no callback *)
(* begins.                                                                  *)
LEMMA DwcStepUnload ==
    ASSUME Types, UnloadInv, DwcStep PROVE UnloadInv'
<1>1. UNCHANGED <<nb, hooks>> /\ pc'["helper"] = pc["helper"] /\ i'["helper"] = i["helper"]
  BY DEF DwcStep, DwcComing, DwcLive, NotifyLive, DwcGoing, NotifyGoing, Notified, DwcFreed,
         Goto, Loop, loop, Types, PcOK, LoopOK, Tasks
<1>2. ~nb /\ ~InNotifier => ~InNotifier'
  BY DEF DwcStep, DwcComing, DwcLive, NotifyLive, DwcGoing, NotifyGoing, Notified, DwcFreed,
         Goto, Types, PcOK, Tasks, InNotifier, InInit, InExit
<1> QED
  BY <1>1, <1>2 DEF UnloadInv, hooks

--------------------------------------------------------------------------------
(* dwc3_msm's text.  A step of init arms a probe of dwc3_msm only while it  *)
(* is coming or live, that is outside the notifier's exit and before the text goes.   *)
LEMMA InitStepText ==
    ASSUME Types, DwcPhase, TextInv, NEW t \in Tasks, InitStep(t)
    PROVE  DwcPhase' /\ TextInv'
<1>1. UNCHANGED <<dwc, nb>>
  BY InitStepTypes
<1>2. pc[t] \in InInit /\ pc'[t] \in InInit /\ \A u \in Tasks \ {t} : pc'[u] = pc[u]
  BY DEF InitStep, ArmProbe, ArmFails, RollBack, AllArmed, RegisterTrace, TraceFails,
         UndoProbe, AllTraced, Goto, Loop, InInit, Types, PcOK
<1>3. \A p \in armed' \ Foreign : p \in armed \/ dwc \in {"coming", "live"}
  BY DEF InitStep, ArmProbe, ArmFails, RollBack, AllArmed, RegisterTrace, TraceFails,
         UndoProbe, AllTraced, CanArm, hooks
<1>4. CASE t = "dwc"
  <2>1. pc["dwc"] \in InInit /\ pc'["dwc"] \in InInit /\ pc'["helper"] = pc["helper"]
    BY <1>2, <1>4 DEF Tasks
  <2>2. InNotifier /\ dwc = "live"
    BY <2>1 DEF InNotifier, DwcPhase
  <2>3. pc["helper"] \in InInit \cup {"check", "loaded"}
    BY <2>2 DEF TextInv
  <2> QED
    BY <1>1, <2>1, <2>2, <2>3 DEF DwcPhase, TextInv, InInit, InExit
<1>5. CASE t = "helper"
  <2>1. pc["helper"] \in InInit /\ pc'["helper"] \in InInit /\ pc'["dwc"] = pc["dwc"]
    BY <1>2, <1>5 DEF Tasks
  <2>2. i'["dwc"] = i["dwc"]
    BY <1>5 DEF InitStep, ArmProbe, ArmFails, RollBack, AllArmed, RegisterTrace, TraceFails,
                UndoProbe, AllTraced, Loop, loop, Types, LoopOK, Tasks
  <2>3. DwcPhase' /\ (InNotifier' <=> InNotifier)
    BY <1>1, <2>1 DEF DwcPhase, InNotifier
  <2>4. dwc \notin {"coming", "live"} => armed' \ Foreign \subseteq armed \ Foreign
    BY <1>3
  <2> QED
    BY <1>1, <2>1, <2>2, <2>3, <2>4 DEF DwcPhase, TextInv, InInit, InExit
<1> QED
  BY <1>4, <1>5 DEF Tasks

(* The exit the notifier runs disarms the probes one after the other; the   *)
(* exit of the helper's unload begins when the notifier is off the chain.   *)
LEMMA ExitStepText ==
    ASSUME Types, UnloadInv, DwcPhase, TextInv, NEW t \in Tasks, ExitStep(t)
    PROVE  DwcPhase' /\ TextInv'
<1>1. UNCHANGED <<dwc, nb>>
  BY ExitStepTypes
<1>2. pc[t] \in InExit /\ pc'[t] \in InExit /\ \A u \in Tasks \ {t} : pc'[u] = pc[u]
  BY DEF ExitStep, DisarmProbe, Untrace, Flush, Goto, Loop, InExit, Types, PcOK
<1>3. CASE t = "helper"
  <2>1. pc["helper"] \in InExit /\ pc'["helper"] \in InExit /\ pc'["dwc"] = pc["dwc"]
    BY <1>2, <1>3 DEF Tasks
  <2>2. ~nb /\ ~InNotifier
    BY <2>1 DEF UnloadInv
  <2> QED
    BY <1>1, <2>1, <2>2 DEF DwcPhase, TextInv, InNotifier, InInit, InExit
<1>4. CASE t = "dwc"
  <2>1. pc["dwc"] \in InExit /\ pc'["dwc"] \in InExit /\ pc'["helper"] = pc["helper"]
    BY <1>2, <1>4 DEF Tasks
  <2>2. dwc = "going" /\ nb
    BY <2>1 DEF DwcPhase, InNotifier, TextInv
  <2>3. DwcPhase' /\ nb' = nb /\ nb /\ InNotifier'
    BY <1>1, <2>1, <2>2 DEF DwcPhase, InInit, InExit, InNotifier
  <2>4. pc["helper"] \in InInit \cup {"check", "loaded"} /\ pc["helper"] # "idle"
    BY <2>2 DEF TextInv, InInit
  <2>5. CASE DisarmProbe(t)
    <3>1. /\ pc["dwc"] = "disarm" /\ armed \subseteq Probes /\ i["dwc"] \in Nat
          /\ \A p \in armed \ Foreign : p >= i["dwc"]
      BY <1>4, <2>2, <2>5, Dwc3Assumption DEF DisarmProbe, TextInv, Types, HooksOK, LoopOK
    <3>2. CASE i["dwc"] > NProbes
      <4>1. armed \subseteq Foreign
        BY <3>1, <3>2, Dwc3Assumption DEF Probes
      <4>2. armed' = armed /\ pc'["dwc"] = "untrace"
        BY <1>4, <2>5, <3>2 DEF DisarmProbe, Goto, Types, PcOK, Tasks
      <4> QED
        BY <1>1, <2>1, <2>3, <2>4, <4>1, <4>2 DEF TextInv
    <3>3. CASE ~(i["dwc"] > NProbes)
      <4>1. armed' = armed \ {i["dwc"]} /\ pc'["dwc"] = "disarm" /\ i'["dwc"] = i["dwc"] + 1
        BY <1>4, <2>5, <3>3 DEF DisarmProbe, Loop, Goto, Types, PcOK, LoopOK, Tasks
      <4>2. \A p \in armed' \ Foreign : p >= i'["dwc"]
        BY <3>1, <4>1 DEF Probes
      <4> QED
        BY <1>1, <2>1, <2>2, <2>3, <2>4, <4>1, <4>2 DEF TextInv
    <3> QED
      BY <3>2, <3>3
  <2>6. CASE Untrace(t) \/ Flush(t)
    <3>1. armed' = armed /\ pc["dwc"] \in {"untrace", "flush"} /\ pc'["dwc"] # "disarm"
      BY <1>4, <2>6 DEF Untrace, Flush, Goto, hooks, Types, PcOK, Tasks
    <3>2. armed \subseteq Foreign
      BY <2>2, <3>1 DEF TextInv
    <3> QED
      BY <1>1, <2>1, <2>3, <2>4, <3>1, <3>2 DEF TextInv
  <2> QED
    BY <2>5, <2>6 DEF ExitStep
<1> QED
  BY <1>3, <1>4 DEF Tasks

(* The helper goes on the chain with no probe armed, and off it between two *)
(* callbacks.                                                               *)
LEMMA HelperStepText ==
    ASSUME Types, DwcPhase, TextInv, HelperStep PROVE DwcPhase' /\ TextInv'
<1>1. UNCHANGED <<dwc, armed>> /\ pc'["dwc"] = pc["dwc"] /\ i'["dwc"] = i["dwc"]
  BY DEF HelperStep, RegisterNotifier, CheckLive, LoadOver, LoadFails, Unload, UnloadOver,
         Goto, Loop, loop, hooks, Types, PcOK, LoopOK, Tasks
<1>2. DwcPhase' /\ (InNotifier' <=> InNotifier)
  BY <1>1 DEF DwcPhase, InNotifier
<1>3. pc'["helper"] # "idle" /\ (nb' => nb \/ armed = {})
  BY DEF HelperStep, RegisterNotifier, CheckLive, LoadOver, LoadFails, Unload, UnloadOver,
         Goto, Loop, Types, PcOK, Tasks, TextInv
<1>4. nb' <=> pc'["helper"] \in InInit \cup {"check", "loaded"}
  <2> USE DEF Goto, Loop, Types, PcOK, Tasks, TextInv, InInit, InExit
  <2>1. CASE RegisterNotifier
    BY <2>1 DEF RegisterNotifier
  <2>2. CASE CheckLive \/ LoadOver
    BY <2>2 DEF CheckLive, LoadOver
  <2>3. CASE LoadFails \/ Unload \/ UnloadOver
    BY <2>3 DEF LoadFails, Unload, UnloadOver
  <2> QED
    BY <2>1, <2>2, <2>3 DEF HelperStep
<1>5. InNotifier => nb'
  <2>1. nb => nb' \/ ~InNotifier
    BY DEF HelperStep, RegisterNotifier, CheckLive, LoadOver, LoadFails, Unload, UnloadOver
  <2> QED
    BY <2>1 DEF TextInv
<1> QED
  BY <1>1, <1>2, <1>3, <1>4, <1>5 DEF TextInv

(* dwc3_msm goes through the notifier's exit, if there is one, before its   *)
(* text is freed.                                                           *)
LEMMA DwcStepText ==
    ASSUME Types, DwcPhase, TextInv, DwcStep PROVE DwcPhase' /\ TextInv'
<1>1. UNCHANGED <<nb, armed>> /\ pc'["helper"] = pc["helper"]
  BY DEF DwcStep, DwcComing, DwcLive, NotifyLive, DwcGoing, NotifyGoing, Notified, DwcFreed,
         Goto, Loop, hooks, Types, PcOK, Tasks
<1>2. DwcPhase'
  BY DEF DwcStep, DwcComing, DwcLive, NotifyLive, DwcGoing, NotifyGoing, Notified, DwcFreed,
         Goto, Loop, Types, PcOK, Tasks, DwcPhase, InInit, InExit
<1>3. InNotifier' => nb
  BY DEF DwcStep, DwcComing, DwcLive, NotifyLive, DwcGoing, NotifyGoing, Notified, DwcFreed,
         Goto, Loop, Types, PcOK, Tasks, TextInv, InNotifier, InInit, InExit
<1>4. dwc' = "absent" \/ pc'["dwc"] \in {"untrace", "flush", "exit_over", "free"}
      => ~nb \/ dwc = "absent"
             \/ pc["dwc"] \in {"untrace", "flush", "exit_over", "free"}
  BY DEF DwcStep, DwcComing, DwcLive, NotifyLive, DwcGoing, NotifyGoing, Notified, DwcFreed,
         Goto, Loop, Types, PcOK, Tasks, DwcPhase, InInit, InExit
<1>5. pc'["dwc"] = "disarm" => i'["dwc"] = 1
  BY DEF DwcStep, DwcComing, DwcLive, NotifyLive, DwcGoing, NotifyGoing, Notified, DwcFreed,
         Goto, Loop, Types, PcOK, LoopOK, Tasks, DwcPhase, InInit, InExit
<1>6. \A p \in armed : p >= 1
  BY Dwc3Assumption DEF Types, HooksOK, Probes
<1> QED
  BY <1>1, <1>2, <1>3, <1>4, <1>5, <1>6 DEF TextInv

--------------------------------------------------------------------------------
(* Two inits at once: each registered probe is that of one task.  A step of *)
(* init changes the share of its task by the probe it registers or takes    *)
(* back, and none of the other's.                                           *)
LEMMA InitStepShare ==
    ASSUME Types, NEW t \in Tasks, InitStep(t), NEW B \in SUBSET Probes,
           armed = Held(t) \cup B, Held(t) \cap B = {}
    PROVE  armed' = Held(t)' \cup B /\ Held(t)' \cap B = {} /\ pc'[t] \in InInit
<1> USE Dwc3Assumption DEF Held, Probes, Goto, Loop, loop
<1>1. /\ pc \in [Tasks -> Labels] /\ i \in [Tasks -> 0 .. NProbes + NTraces + 1]
      /\ j \in [Tasks -> 0 .. NProbes + NTraces + 1] /\ i[t] \in Int /\ j[t] \in Int
  BY DEF Types, PcOK, LoopOK
<1>2. CASE ArmProbe(t)
  <2>1. /\ i[t] \in Probes /\ i[t] \notin armed /\ armed' = armed \cup {i[t]}
        /\ pc[t] = "arm" /\ pc'[t] = "arm" /\ i'[t] = i[t] + 1
    BY <1>1, <1>2 DEF ArmProbe, CanArm, Types, LoopOK
  <2>2. Held(t)' = Held(t) \cup {i[t]}
    BY <1>1, <2>1
  <2> QED
    BY <2>1, <2>2 DEF InInit
<1>3. CASE ArmFails(t)
  <2>1. armed' = armed /\ pc[t] = "arm" /\ pc'[t] = "rollback" /\ i'[t] = i[t] /\ j'[t] = 1
    BY <1>1, <1>3 DEF ArmFails, hooks
  <2>2. Held(t)' = Held(t)
    BY <1>1, <2>1
  <2> QED
    BY <2>1, <2>2 DEF InInit
<1>4. CASE RollBack(t) /\ j[t] >= i[t]
  <2>1. armed' = armed /\ pc[t] = "rollback" /\ pc'[t] = "init_failed"
    BY <1>1, <1>4 DEF RollBack
  <2>2. Held(t) = {} /\ Held(t)' = {}
    BY <1>1, <1>4, <2>1
  <2> QED
    BY <2>1, <2>2 DEF InInit
<1>5. CASE RollBack(t) /\ j[t] < i[t]
  <2>1. /\ armed' = armed \ {j[t]} /\ pc[t] = "rollback" /\ pc'[t] = "rollback"
        /\ i'[t] = i[t] /\ j'[t] = j[t] + 1
    BY <1>1, <1>5 DEF RollBack
  <2>2. Held(t)' = Held(t) \ {j[t]} /\ (j[t] \in Probes => j[t] \in Held(t))
    BY <1>1, <1>5, <2>1
  <2> QED
    BY <2>1, <2>2 DEF InInit
<1>6. CASE UndoProbe(t) /\ i[t] > NProbes
  <2>1. armed' = armed /\ pc[t] = "undo" /\ pc'[t] = "init_failed"
    BY <1>1, <1>6 DEF UndoProbe
  <2>2. Held(t) = {} /\ Held(t)' = {}
    BY <1>1, <1>6, <2>1
  <2> QED
    BY <2>1, <2>2 DEF InInit
<1>7. CASE UndoProbe(t) /\ ~(i[t] > NProbes)
  <2>1. /\ armed' = armed \ {i[t]} /\ pc[t] = "undo" /\ pc'[t] = "undo" /\ i'[t] = i[t] + 1
    BY <1>1, <1>7 DEF UndoProbe
  <2>2. Held(t)' = Held(t) \ {i[t]} /\ (i[t] \in Probes => i[t] \in Held(t))
    BY <1>1, <2>1
  <2> QED
    BY <2>1, <2>2 DEF InInit
<1>8. CASE AllArmed(t) \/ RegisterTrace(t) \/ TraceFails(t) \/ AllTraced(t)
  <2>1. /\ armed' = armed /\ pc[t] \in {"arm", "trace"} /\ (pc[t] = "arm" => i[t] > NProbes)
        /\ pc'[t] \in {"trace", "undo", "init_ok"} /\ (pc'[t] = "undo" => i'[t] = 1)
    BY <1>1, <1>8 DEF AllArmed, RegisterTrace, TraceFails, AllTraced, hooks
  <2>2. Held(t) = Probes /\ Held(t)' = Probes
    BY <1>1, <2>1
  <2> QED
    BY <2>1, <2>2 DEF InInit
<1> QED
  BY <1>1, <1>2, <1>3, <1>4, <1>5, <1>6, <1>7, <1>8 DEF InitStep

(* A task in init has what it holds; outside, all or none.                  *)
LEMMA ShareInInit ==
    ASSUME NEW t \in Tasks, pc[t] \in InInit PROVE \A S : Share(t, S) <=> S = Held(t)
BY DEF Share, InInit

LEMMA ShareKept ==
    ASSUME NEW t \in Tasks, pc'[t] = pc[t], i'[t] = i[t], j'[t] = j[t]
    PROVE  \A S \in SUBSET Probes : Share(t, S)' <=> Share(t, S)
BY DEF Share, Held

(* Whose task a step of init or exit is, it leaves the other's loop alone.  *)
LEMMA OtherTask ==
    ASSUME Types, NEW t \in Tasks, InitStep(t) \/ ExitStep(t)
    PROVE  \A u \in Tasks \ {t} : UNCHANGED <<pc[u], i[u], j[u]>>
BY DEF Types, PcOK, LoopOK, InitStep, ArmProbe, ArmFails, RollBack, AllArmed, RegisterTrace,
       TraceFails, UndoProbe, AllTraced, ExitStep, DisarmProbe, Untrace, Flush, Goto, Loop, loop

LEMMA InitStepTable ==
    ASSUME Inductive, NEW t \in Tasks, InitStep(t) PROVE TableShared'
<1>1. UNCHANGED <<dwc, loads, nb>> /\ Types /\ DwcPhase /\ TableShared
  BY InitStepTypes DEF Inductive
<1>2. \A u \in Tasks \ {t} : UNCHANGED <<pc[u], i[u], j[u]>>
  BY <1>1, OtherTask
<1>3. pc[t] \in InInit /\ pc'[t] \in InInit
  BY <1>1 DEF InitStep, ArmProbe, ArmFails, RollBack, AllArmed, RegisterTrace, TraceFails,
     UndoProbe, AllTraced, Goto, Loop, InInit, Types, PcOK
<1>4. (Stays' <=> Stays) /\ (NotYetLive' <=> NotYetLive)
  BY <1>1, <1>2, <1>3 DEF Stays, Tasks, NotYetLive
<1>5. ~(NotYetLive /\ Stays)
  BY <1>1, <1>3 DEF TableShared, NotYetLive, DwcPhase, Tasks
<1>6. ASSUME dwc' = "live" \/ pc'["dwc"] = "tell_going", Stays'
      PROVE  \E A, B \in SUBSET Probes :
                /\ armed' = A \cup B /\ A \cap B = {}
                /\ Share("helper", A)' /\ Share("dwc", B)'
  <2>1. pc'["dwc"] = "tell_going" => pc["dwc"] = "tell_going"
    BY <1>2, <1>3 DEF Tasks, InInit
  <2>2. PICK A \in SUBSET Probes, B \in SUBSET Probes :
           armed = A \cup B /\ A \cap B = {} /\ Share("helper", A) /\ Share("dwc", B)
    BY <1>1, <1>4, <1>6, <2>1 DEF TableShared
  <2>3. PICK C \in SUBSET Probes : C = Held(t)'
    BY DEF Held
  <2>4. Share(t, C)'
    BY <1>3, <2>3 DEF Share, InInit
  <2>5. CASE t = "helper"
    <3>1. A = Held(t) /\ Share("dwc", B)'
      BY <1>2, <1>3, <2>2, <2>5, ShareInInit, ShareKept DEF Tasks
    <3>2. armed' = C \cup B /\ C \cap B = {}
      BY <1>1, <2>2, <2>3, <3>1, InitStepShare
    <3> QED
      BY <2>4, <2>5, <3>1, <3>2
  <2>6. CASE t = "dwc"
    <3>1. B = Held(t) /\ Share("helper", A)'
      BY <1>2, <1>3, <2>2, <2>6, ShareInInit, ShareKept DEF Tasks
    <3>2. armed' = C \cup A /\ C \cap A = {}
      BY <1>1, <2>2, <2>3, <3>1, InitStepShare
    <3> QED
      BY <2>4, <2>6, <3>1, <3>2
  <2> QED
    BY <2>5, <2>6 DEF Tasks
<1> QED
  BY <1>1, <1>4, <1>5, <1>6 DEF TableShared

(* With dwc3_msm no longer live, no init registers the table's last probe.  *)
LEMMA InitStepCleared ==
    ASSUME Inductive, NEW t \in Tasks, InitStep(t) PROVE TableCleared'
<1> USE DEF Inductive
<1>1. UNCHANGED <<dwc, loads, nb>> /\ Types /\ \A u \in Tasks \ {t} : UNCHANGED <<pc[u], i[u]>>
  BY InitStepTypes, OtherTask
<1>2. pc[t] \in InInit /\ pc'[t] \in InInit
  BY DEF InitStep, ArmProbe, ArmFails, RollBack, AllArmed, RegisterTrace, TraceFails,
     UndoProbe, AllTraced, Goto, Loop, InInit, Types, PcOK
<1>3. SUFFICES ASSUME Stays', Through',
                      pc'["dwc"] \in InExit \cup {"free"} \/ (dwc' = "absent" /\ loads' > 0)
               PROVE  \A p \in armed' : pc'["dwc"] = "disarm" /\ p >= i'["dwc"]
  BY DEF TableCleared
<1>4. t = "helper" /\ dwc \notin {"coming", "live"}
  BY <1>1, <1>2, <1>3 DEF DwcPhase, Tasks, InInit, InExit
<1>5. UNCHANGED <<pc["dwc"], i["dwc"]>> /\ Stays
  BY <1>1, <1>2, <1>3, <1>4 DEF Tasks, Stays
<1>6. Through /\ armed' = armed
  <2>1. CASE ArmProbe(t)
    <3>1. i[t] = NProbes
      BY <1>3, <1>4, <2>1, Dwc3Assumption
         DEF ArmProbe, Through, Loop, Goto, Types, PcOK, LoopOK, InInit
    <3> QED
      BY <1>4, <2>1, <3>1, TableEnd DEF ArmProbe, CanArm
  <2>2. CASE ~ArmProbe(t)
    BY <1>3, <1>4, <2>2
       DEF InitStep, ArmFails, RollBack, AllArmed, RegisterTrace, TraceFails, UndoProbe, AllTraced,
           Goto, Loop, hooks, Through, Types, PcOK, LoopOK
  <2> QED
    BY <2>1, <2>2
<1> QED
  BY <1>1, <1>3, <1>5, <1>6 DEF TableCleared

(* An exit: dwc3_msm's clears the table, the helper's is after its stay.    *)
LEMMA ExitStepTable ==
    ASSUME Inductive, NEW t \in Tasks, ExitStep(t) PROVE TableShared' /\ TableCleared'
<1> USE DEF Inductive
<1>1. UNCHANGED <<dwc, loads, nb>> /\ Types /\ \A u \in Tasks \ {t} : UNCHANGED <<pc[u], i[u]>>
  BY ExitStepTypes, OtherTask
<1>2. pc[t] \in InExit /\ pc'[t] \in InExit
  BY DEF ExitStep, DisarmProbe, Untrace, Flush, Goto, Loop, InExit, Types, PcOK
<1>3. CASE t = "helper"
  BY <1>1, <1>2, <1>3 DEF TableShared, TableCleared, Stays, InInit, InExit
<1>4. CASE t = "dwc"
  <2>1. dwc = "going" /\ loads > 0 /\ pc'["helper"] = pc["helper"] /\ i'["helper"] = i["helper"]
    BY <1>1, <1>2, <1>4 DEF DwcPhase, TableShared, Tasks
  <2>2. TableShared'
    BY <1>1, <1>2, <1>4, <2>1 DEF TableShared, NotYetLive, InExit, Types, ModuleOK
  <2>3. SUFFICES ASSUME Stays', Through'
                 PROVE  \A p \in armed' : pc'["dwc"] = "disarm" /\ p >= i'["dwc"]
    BY <2>2 DEF TableCleared
  <2>4. \A p \in armed : pc["dwc"] = "disarm" /\ p >= i["dwc"]
    BY <1>1, <1>2, <1>4, <2>1, <2>3 DEF TableCleared, Stays, Through
  <2>5. armed \subseteq Probes /\ i["dwc"] \in Nat /\ NProbes \in Nat
    BY Dwc3Assumption DEF Types, HooksOK, LoopOK, Tasks
  <2>6. CASE DisarmProbe(t) /\ ~(i[t] > NProbes)
    <3>1. armed' = armed \ {i["dwc"]} /\ pc'["dwc"] = "disarm" /\ i'["dwc"] = i["dwc"] + 1
      BY <1>4, <2>6 DEF DisarmProbe, Loop, Goto, Types, PcOK, LoopOK
    <3> QED
      BY <2>4, <2>5, <3>1 DEF Probes
  <2>7. CASE DisarmProbe(t) /\ i[t] > NProbes
    <3>1. armed' = armed /\ armed = {}
      BY <1>4, <2>4, <2>5, <2>7 DEF DisarmProbe, Probes
    <3> QED
      BY <3>1
  <2>8. CASE Untrace(t) \/ Flush(t)
    BY <1>4, <2>4, <2>8 DEF Untrace, Flush, hooks
  <2> QED
    BY <2>6, <2>7, <2>8 DEF ExitStep
<1> QED
  BY <1>3, <1>4 DEF Tasks

(* The helper enters init while dwc3_msm is live, and holds nothing then.   *)
LEMMA HelperStepTable ==
    ASSUME Inductive, HelperStep PROVE TableShared' /\ TableCleared'
<1> USE DEF Inductive
<1>1. /\ UNCHANGED <<dwc, loads, armed>> /\ pc'["dwc"] = pc["dwc"]
      /\ i'["dwc"] = i["dwc"] /\ j'["dwc"] = j["dwc"]
  BY DEF HelperStep, RegisterNotifier, CheckLive, LoadOver, LoadFails, Unload, UnloadOver,
         Goto, Loop, loop, hooks, Types, PcOK, LoopOK, Tasks
<1>2. CASE LoadFails \/ Unload \/ UnloadOver \/ (RegisterNotifier /\ pc'["helper"] = "failed")
  <2>1. ~Stays'
    BY <1>2 DEF LoadFails, Unload, UnloadOver, Goto, Loop, Types, PcOK, Tasks, Stays, InInit
  <2> QED
    BY <1>1, <2>1 DEF TableShared, TableCleared
<1>3. CASE RegisterNotifier /\ pc'["helper"] # "failed"
  <2>1. pc["helper"] = "idle" /\ pc'["helper"] = "check" /\ armed = {}
    BY <1>3 DEF RegisterNotifier, Goto, Types, PcOK, Tasks, TextInv
  <2>2. pc["dwc"] \notin InInit \cup InExit
    BY <2>1 DEF TextInv, InNotifier, InInit
  <2>3. Share("helper", {})' /\ Share("dwc", {})'
    BY <1>1, <2>1, <2>2 DEF Share, Held, InInit
  <2>4. TableShared'
    BY <1>1, <2>1, <2>3 DEF TableShared, Stays, NotYetLive, InInit
  <2> QED
    BY <1>1, <2>1, <2>4 DEF TableCleared
<1>4. CASE CheckLive \/ LoadOver
  <2>1. /\ pc["helper"] \in {"check", "init_ok"} /\ Through /\ (Stays' => Stays)
        /\ \/ pc["helper"] = "check" /\ pc'["helper"] = "arm" /\ i'["helper"] = 1 /\ dwc = "live"
           \/ pc["helper"] = "check" /\ pc'["helper"] = "loaded"
           \/ pc["helper"] = "init_ok" /\ pc'["helper"] = "loaded"
    BY <1>4 DEF CheckLive, LoadOver, Goto, Loop, Types, PcOK, LoopOK, Tasks, Stays, Through, InInit
  <2>2. \A S \in SUBSET Probes : /\ Share("dwc", S)' <=> Share("dwc", S)
                                 /\ Share("helper", S) => Share("helper", S)'
    <3>1. \A S \in SUBSET Probes : Share("dwc", S)' <=> Share("dwc", S)
      BY <1>1, ShareKept DEF Tasks
    <3>2. Held("helper") = (IF pc["helper"] = "check" THEN {} ELSE Probes)
      BY <2>1 DEF Held
    <3>3. pc'["helper"] = "arm" => Held("helper")' = {}
      BY <2>1 DEF Held, Probes
    <3> QED
      BY <2>1, <3>1, <3>2, <3>3 DEF Share
  <2>3. TableShared'
    <3>1. dwc' # "absent" => loads' > 0
      BY <1>1 DEF TableShared
    <3>2. NotYetLive' /\ Stays' => armed' = {} /\ pc'["helper"] \notin InInit
      <4>1. NotYetLive => dwc # "live"
        BY DEF TableShared, NotYetLive
      <4> QED
        BY <1>1, <2>1, <4>1 DEF TableShared, NotYetLive, InInit
    <3>3. (dwc' = "live" \/ pc'["dwc"] = "tell_going") /\ Stays' =>
             \E A, B \in SUBSET Probes :
                /\ armed' = A \cup B /\ A \cap B = {}
                /\ Share("helper", A)' /\ Share("dwc", B)'
      BY <1>1, <2>1, <2>2 DEF TableShared
    <3> QED
      BY <3>1, <3>2, <3>3 DEF TableShared
  <2>4. TableCleared'
    BY <1>1, <2>1 DEF TableCleared, DwcPhase, InInit, InExit
  <2> QED
    BY <2>3, <2>4
<1> QED
  BY <1>2, <1>3, <1>4 DEF HelperStep

(* dwc3_msm becomes live with an empty table, has its init behind it when   *)
(* it goes, and all of the table behind it when its text is freed.          *)
LEMMA DwcStepTable ==
    ASSUME Inductive, DwcStep PROVE TableShared' /\ TableCleared'
<1> USE DEF Inductive
<1>1. /\ UNCHANGED <<nb, armed>> /\ pc'["helper"] = pc["helper"]
      /\ i'["helper"] = i["helper"] /\ j'["helper"] = j["helper"]
  BY DEF DwcStep, DwcComing, DwcLive, NotifyLive, DwcGoing, NotifyGoing, Notified, DwcFreed,
         Goto, Loop, loop, hooks, Types, PcOK, LoopOK, Tasks
<1>2. /\ \A S \in SUBSET Probes : Share("helper", S)' <=> Share("helper", S)
      /\ Through' <=> Through
      /\ loads' = loads => (Stays' <=> Stays)
  BY <1>1, ShareKept DEF Through, Stays, Tasks
<1>3. CASE DwcComing
  <2>1. /\ dwc = "absent" /\ dwc' = "coming" /\ loads' = loads + 1 /\ loads \in Nat
        /\ pc["dwc"] = "idle" /\ pc'["dwc"] = "idle"
    BY <1>3, Dwc3Assumption DEF DwcComing, Types, ModuleOK
  <2>2. Stays' => loads = 0 /\ Stays
    BY <1>1, <2>1 DEF Stays
  <2>3. TableShared'
    BY <1>1, <2>1, <2>2 DEF TableShared, NotYetLive
  <2> QED
    BY <2>1, <2>3 DEF TableCleared, InExit
<1>4. CASE DwcLive
  <2>1. /\ dwc = "coming" /\ dwc' = "live" /\ loads' = loads /\ pc'["dwc"] = "tell_live"
    BY <1>4 DEF DwcLive, Goto, Types, PcOK, Tasks
  <2>2. Stays' => armed = {} /\ pc["helper"] \in {"idle", "check", "loaded"}
    BY <1>2, <2>1 DEF TableShared, NotYetLive, Stays
  <2>3. Stays' => Share("helper", {})' /\ Share("dwc", {})'
    BY <1>1, <2>1, <2>2 DEF Share, Held
  <2>4. TableShared'
    BY <1>1, <1>2, <2>1, <2>2, <2>3 DEF TableShared, NotYetLive
  <2> QED
    BY <2>1, <2>4 DEF TableCleared, InExit
<1>5. CASE \/ NotifyLive \/ DwcGoing
           \/ (Notified /\ pc["dwc"] \in {"init_ok", "init_failed"})
  <2>1. /\ loads' = loads /\ dwc = "live" /\ (dwc' = "live" \/ pc'["dwc"] = "tell_going")
        /\ dwc' # "absent" /\ pc'["dwc"] \notin InExit \cup {"free"}
        /\ \/ pc["dwc"] = "tell_live" /\ pc'["dwc"] = "arm" /\ i'["dwc"] = 1
           \/ pc["dwc"] = "tell_live" /\ pc'["dwc"] = "idle"
           \/ pc["dwc"] = "idle" /\ pc'["dwc"] = "tell_going"
           \/ pc["dwc"] \in {"init_ok", "init_failed"} /\ pc'["dwc"] = "idle"
    BY <1>5 DEF NotifyLive, DwcGoing, Notified, DwcPhase, Goto, Loop, Types, PcOK, LoopOK,
                Tasks, InInit, InExit
  <2>2. \A S \in SUBSET Probes : Share("dwc", S) => Share("dwc", S)'
    <3>1. Held("dwc") = (IF pc["dwc"] = "init_ok" THEN Probes ELSE {})
      BY <2>1 DEF Held
    <3>2. pc'["dwc"] = "arm" => Held("dwc")' = {}
      BY <2>1 DEF Held, Probes
    <3> QED
      BY <2>1, <3>1, <3>2 DEF Share
  <2>3. TableShared'
    <3>1. dwc' # "absent" => loads' > 0
      BY <2>1 DEF TableShared
    <3>2. NotYetLive' /\ Stays' => armed' = {} /\ pc'["helper"] \notin InInit
      <4>1. dwc' # "coming" /\ loads > 0
        BY <1>5, <2>1 DEF NotifyLive, DwcGoing, Notified, TableShared
      <4> QED
        BY <2>1, <4>1 DEF NotYetLive, Types, ModuleOK
    <3>3. (dwc' = "live" \/ pc'["dwc"] = "tell_going") /\ Stays' =>
             \E A, B \in SUBSET Probes :
                /\ armed' = A \cup B /\ A \cap B = {}
                /\ Share("helper", A)' /\ Share("dwc", B)'
      BY <1>1, <1>2, <2>1, <2>2 DEF TableShared
    <3> QED
      BY <3>1, <3>2, <3>3 DEF TableShared
  <2> QED
    BY <2>1, <2>3 DEF TableCleared
<1>6. CASE \/ NotifyGoing \/ DwcFreed \/ (Notified /\ pc["dwc"] = "exit_over")
  <2>1. /\ loads' = loads /\ dwc = "going" /\ dwc' \in {"going", "absent"}
        /\ loads > 0 /\ pc'["dwc"] # "tell_going"
    BY <1>6 DEF NotifyGoing, DwcFreed, Notified, DwcPhase, Goto, Loop, Types, PcOK, Tasks,
                InExit, TableShared
  <2>2. TableShared'
    BY <2>1 DEF TableShared, NotYetLive, Types, ModuleOK
  <2>3. CASE NotifyGoing /\ nb
    <3>1. pc'["dwc"] = "disarm" /\ i'["dwc"] = 1 /\ \A p \in armed : p >= 1
      BY <2>3, Dwc3Assumption
         DEF NotifyGoing, Goto, Loop, Types, PcOK, LoopOK, HooksOK, Probes, Tasks
    <3> QED
      BY <1>1, <2>2, <3>1 DEF TableCleared
  <2>4. CASE NotifyGoing /\ ~nb
    <3>1. Stays => armed = {}
      BY <2>4 DEF Stays, TextInv
    <3> QED
      BY <1>1, <1>2, <2>1, <2>2, <3>1 DEF TableCleared
  <2>5. CASE DwcFreed \/ (Notified /\ pc["dwc"] = "exit_over")
    <3>1. pc["dwc"] \in {"free", "exit_over"}
      BY <2>5 DEF DwcFreed
    <3>2. Stays /\ Through => armed = {}
      BY <3>1 DEF TableCleared, InExit
    <3> QED
      BY <1>1, <1>2, <2>1, <2>2, <3>2 DEF TableCleared
  <2> QED
    BY <1>6, <2>3, <2>4, <2>5
<1>7. Notified => pc["dwc"] \in {"init_ok", "init_failed", "exit_over"}
  BY DEF Notified
<1> QED
  BY <1>3, <1>4, <1>5, <1>6, <1>7 DEF DwcStep

LEMMA TableRests ==
    ASSUME Inductive, UNCHANGED <<dwc, loads, armed, pc, i, j>>
    PROVE  TableShared' /\ TableCleared'
<1>1. (Stays' <=> Stays) /\ (Through' <=> Through) /\ (NotYetLive' <=> NotYetLive)
  BY DEF Stays, Through, NotYetLive
<1>2. \A t \in Tasks, S \in SUBSET Probes : Share(t, S)' <=> Share(t, S)
  BY ShareKept
<1> QED
  BY <1>1, <1>2 DEF Inductive, TableShared, TableCleared, Tasks

--------------------------------------------------------------------------------
LEMMA InitDwc3 == Init => Inductive
<1> SUFFICES ASSUME Init PROVE Inductive
  OBVIOUS
<1>1. ModuleOK /\ HooksOK /\ PcOK /\ LoopOK
  BY Dwc3Assumption DEF Init, ModuleOK, HooksOK, PcOK, LoopOK, Labels, Tasks
<1>2. nb \in BOOLEAN
  BY Zenon DEF Init
<1>3. UnloadInv /\ DwcPhase /\ TextInv
  BY DEF Init, UnloadInv, DwcPhase, TextInv, InNotifier, InInit, InExit, Tasks
<1>4. TableShared /\ TableCleared
  BY DEF Init, TableShared, TableCleared, Tasks, InInit, InExit
<1> QED
  BY <1>1, <1>2, <1>3, <1>4 DEF Types, Inductive

LEMMA NextDwc3 == Inductive /\ [Next]_vars => Inductive'
<1> SUFFICES ASSUME Inductive, [Next]_vars PROVE Inductive'
  OBVIOUS
<1> USE DEF Inductive
<1>1. CASE \E t \in Tasks : InitStep(t)
  BY <1>1, InitStepTypes, InitStepUnload, InitStepText, InitStepTable, InitStepCleared
<1>2. CASE \E t \in Tasks : ExitStep(t)
  BY <1>2, ExitStepTypes, ExitStepUnload, ExitStepText, ExitStepTable
<1>3. CASE HandlerDefers \/ WorkRuns
  <2>1. UNCHANGED <<dwc, loads, nb, armed, pc, i, j>>
    BY <1>3 DEF HandlerDefers, WorkRuns, loop
  <2>2. DwcPhase' /\ TextInv'
    BY <2>1 DEF DwcPhase, TextInv, InNotifier
  <2> QED
    BY <1>3, <2>1, <2>2, WorkStepTypes, WorkStepUnload, TableRests
<1>4. CASE HelperStep
  BY <1>4, TaskStepTypes, HelperStepUnload, HelperStepText, HelperStepTable
<1>5. CASE DwcStep
  BY <1>5, TaskStepTypes, DwcStepUnload, DwcStepText, DwcStepTable
<1>6. CASE UNCHANGED vars
  <2>1. UNCHANGED <<dwc, loads, nb, hooks, armed, pc, i, j>>
    BY <1>6 DEF vars, loop, hooks
  <2>2. PcOK' /\ LoopOK' /\ (InNotifier' <=> InNotifier)
    BY <2>1 DEF Types, PcOK, LoopOK, InNotifier
  <2>3. DwcPhase' /\ TextInv'
    BY <2>1, <2>2 DEF DwcPhase, TextInv
  <2> QED
    BY <2>1, <2>2, <2>3, SameModule, SameHooks, TableRests DEF Types, UnloadInv, hooks
<1> QED
  BY <1>1, <1>2, <1>3, <1>4, <1>5, <1>6 DEF Next, Terminated

(* The inductive invariant holds throughout: the types, that an unload      *)
(* keeps undone what it has undone, and what protects dwc3_msm's text.      *)
THEOREM Dwc3Invariant == Spec => []Dwc3IInv
<1>1. Init => Inductive
  BY InitDwc3
<1>2. Inductive /\ [Next]_vars => Inductive'
  BY NextDwc3
<1>3. Inductive => Dwc3IInv
  BY TypeParts DEF Dwc3IInv, Inductive
<1> QED
  BY <1>1, <1>2, <1>3, PTL DEF Spec

(* When module_exit has returned, no probe, tracepoint callback, notifier   *)
(* or pending work refers to its code (dwc3_msm_kretprobe_module_exit()).   *)
THEOREM NothingLeftBehind == Spec => []CleanAfterUnload
<1>1. Dwc3IInv => CleanAfterUnload
  BY DEF Dwc3IInv, UnloadInv, CleanAfterUnload
<1> QED
  BY <1>1, Dwc3Invariant, PTL

(* While the helper stays loaded, dwc3_msm's text is freed only with none   *)
(* of its functions patched (dwc3_msm_mod_notifier_cb(), case GOING).       *)
THEOREM FreedTextUnpatched == Spec => []NoProbeInFreedText
<1>1. Dwc3IInv => NoProbeInFreedText
  BY DEF Dwc3IInv, TextInv, NoProbeInFreedText
<1> QED
  BY <1>1, Dwc3Invariant, PTL
(* Once both modules rest, the table is registered as a whole or not at all, *)
(* though module_init and the notifier may each have run init, at once, and *)
(* failed at any probe (dwc3_msm_kretprobe_init()).                         *)
THEOREM AllOrNone == Spec => []ProbesAllOrNone
<1>1. Dwc3IInv => ProbesAllOrNone
  <2> SUFFICES ASSUME Dwc3IInv, pc["helper"] = "loaded", pc["dwc"] = "idle", loads <= 1
               PROVE  armed \in {{}, Probes}
    BY DEF ProbesAllOrNone
  <2>1. Stays /\ Through /\ dwc \in {"absent", "coming", "live"} /\ loads \in Nat
    BY Dwc3Assumption DEF Stays, Through, Dwc3IInv, Dwc3TypeOK, DwcPhase
  <2>2. CASE dwc = "live"
    <3>1. PICK A, B \in SUBSET Probes :
             armed = A \cup B /\ Share("helper", A) /\ Share("dwc", B)
      BY <2>1, <2>2 DEF Dwc3IInv, TableShared
    <3>2. A \in {{}, Probes} /\ B \in {{}, Probes}
      BY <3>1 DEF Share
    <3> QED
      BY <3>1, <3>2
  <2>3. CASE dwc = "coming" \/ loads = 0
    BY <2>1, <2>3 DEF Dwc3IInv, TableShared, NotYetLive
  <2>4. CASE dwc = "absent" /\ loads > 0
    BY <2>1, <2>4 DEF Dwc3IInv, TableCleared
  <2> QED
    BY <2>1, <2>2, <2>3, <2>4
<1> QED
  BY <1>1, Dwc3Invariant, PTL
================================================================================
