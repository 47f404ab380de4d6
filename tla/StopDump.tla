-------------------------------- MODULE StopDump --------------------------------
(***************************************************************************)
(* The staged detector of Stop_machine-dual-allcpu-dump-8s-9s-panic-10s.   *)
(* patch, in the loop of StopMachine: a thread that detects the deadlock   *)
(* records its state and dumps its own stack, once when it detects and     *)
(* once more when the owner of the dump says so; the owner, the first      *)
(* through atomic_cmpxchg(), waits for the others without sending them an  *)
(* IPI, and panics at a fixed time.  No thread that has detected goes back *)
(* to the loop.                                                            *)
(***************************************************************************)
EXTENDS StopMachine

CONSTANTS
    Nobody,         (* the -1 of stopper_dump_owner                            *)
    Late,           (* those whose stopper may arrive at any time, or never    *)
    DumpTime,       (* what a dump_stack() on the console takes at most        *)
    Dump1Window,    (* STOPPER_DUMP1_WINDOW_MS, in ticks, and so on            *)
    Dump2Trigger,
    Dump2Window,
    PanicWindow

ASSUME DumpAssumption ==
    /\ Nobody \notin Threads
    /\ Late \subseteq Threads
    /\ DumpTime \in Nat /\ Dump1Window \in Nat /\ Dump2Trigger \in Nat
    /\ Dump2Window \in Nat /\ PanicWindow \in Nat

VARIABLES
    stage,          (* where in the detector's branch a thread is              *)
    dump_owner,     (* stopper_dump_owner                                      *)
    t_detect,       (* the owner's t_detect                                    *)
    snapshot,       (* stopper_snapshot: curstate in it ...                    *)
    valid,          (* ... and valid                                           *)
    first_done,     (* stopper_first_dump_done, as a set of threads            *)
    trigger,        (* stopper_second_dump_trigger                             *)
    second_done,    (* stopper_second_dump_done, as a set of threads           *)
    printed,        (* history: the threads whose snapshot Sec6 prints ...     *)
    reported,       (* ... and the curstate it prints of each                  *)
    awaited         (* history: those whose first dump was done at the trigger *)

slots    == <<snapshot, valid>>
flags    == <<first_done, trigger, second_done>>
log      == <<printed, reported, awaited>>
dumpVars == <<stage, dump_owner, t_detect, slots, flags, log>>
dvars    == <<vars, dumpVars>>

Stages == {"out", "snapshot", "publish", "first", "race", "wait1", "report", "hold",
           "poll", "second", "wait2", "rest", "spin"}

(* The slots are static per-CPU data: zeroes, which Sec6 would print as NONE. *)
DumpInit ==
    /\ Init
    /\ stage = [c \in Threads |-> "out"]
    /\ dump_owner = Nobody /\ t_detect = 0
    /\ snapshot = [c \in Threads |-> NONE] /\ valid = {}
    /\ first_done = {} /\ trigger = FALSE /\ second_done = {}
    /\ printed = {} /\ reported = [c \in Threads |-> NONE] /\ awaited = {}

--------------------------------------------------------------------------------
(* Position C, for a thread whose time is up.                               *)

Enters(c, s) == stage' = [stage EXCEPT ![c] = s]

(* timed_out is set, and the thread is in the branch for good.              *)
StagedDetect(c) ==
    /\ Detect(c) /\ Enters(c, "snapshot")
    /\ UNCHANGED <<dump_owner, t_detect, slots, flags, log>>

(* Variant: valid is set first, and the fields after it.                    *)
FillSnapshotLate(c) ==
    /\ stage[c] = "snapshot"
    /\ \/ /\ c \notin valid /\ valid' = valid \cup {c}
          /\ UNCHANGED <<stage, snapshot>>
       \/ /\ c \in valid /\ snapshot' = [snapshot EXCEPT ![c] = curstate[c]]
          /\ Enters(c, "publish") /\ UNCHANGED valid
    /\ UNCHANGED <<vars, dump_owner, t_detect, flags, log>>

(* Phase 1(a), stopper_snapshot_self(): the thread fills its own slot ...   *)
FillSnapshot(c) ==
    /\ stage[c] = "snapshot" /\ Enters(c, "publish")
    /\ snapshot' = [snapshot EXCEPT ![c] = curstate[c]]
    /\ UNCHANGED <<vars, dump_owner, t_detect, valid, flags, log>>

(* ... and then releases it; a dump_stack() begins.                         *)
Publish(c) ==
    /\ stage[c] = "publish" /\ Enters(c, "first")
    /\ valid' = valid \cup {c}
    /\ dump_at' = [dump_at EXCEPT ![c] = now]
    /\ UNCHANGED <<barrierVars, start_jiffies, timed_out, clockVars, haltVars>>
    /\ UNCHANGED <<dump_owner, t_detect, snapshot, flags, log>>

DumpLate(c) == now >= dump_at[c] + DumpTime

(* Phase 1(b) and (c): the first dump is over.                              *)
FirstDump(c) ==
    /\ stage[c] = "first" /\ Enters(c, "race")
    /\ first_done' = first_done \cup {c}
    /\ UNCHANGED <<vars, dump_owner, t_detect, slots, trigger, second_done, log>>

(* Variant: the owner is stored without the comparison.                     *)
WinOwnerUnraced(c) ==
    /\ stage[c] = "race"
    /\ dump_owner' = c /\ t_detect' = now /\ Enters(c, "wait1")
    /\ UNCHANGED <<vars, slots, flags, log>>

(* Phase 2: atomic_cmpxchg(&stopper_dump_owner, -1, cpu).                   *)
WinOwner(c) ==
    /\ stage[c] = "race" /\ dump_owner = Nobody
    /\ dump_owner' = c /\ t_detect' = now /\ Enters(c, "wait1")
    /\ UNCHANGED <<vars, slots, flags, log>>

(* Variant: a loser goes back to the loop.                                  *)
LoseOwnerGoesOn(c) ==
    /\ stage[c] = "race" /\ dump_owner # Nobody
    /\ Goto(c, "loop") /\ Enters(c, "out")
    /\ UNCHANGED <<state, thread_ack, curstate, irq, detectVars, clockVars, haltVars>>
    /\ UNCHANGED <<dump_owner, t_detect, slots, flags, log>>

LoseOwner(c) ==
    /\ stage[c] = "race" /\ dump_owner # Nobody
    /\ Enters(c, "poll")
    /\ UNCHANGED <<vars, dump_owner, t_detect, slots, flags, log>>

--------------------------------------------------------------------------------
(* stopper_deadlock_dump(), by the owner.                                   *)

(* Variant: no deadline.                                                    *)
WaitedForAll(c, done, window) == CPU \ {c} \subseteq done

(* stopper_wait_for_first_dumps(), stopper_wait_for_second_dumps(): every   *)
(* other online CPU has set its flag, or the deadline has passed.           *)
Waited(c, done, window) == CPU \ {c} \subseteq done \/ now >= t_detect + window

WaitFirst(c) ==
    /\ stage[c] = "wait1" /\ Waited(c, first_done, Dump1Window)
    /\ Enters(c, "report")
    /\ UNCHANGED <<vars, dump_owner, t_detect, slots, flags, log>>

(* Sec6, stopper_print_other_snapshots(): the slots that are valid.         *)
Report(c) ==
    /\ stage[c] = "report" /\ Enters(c, "hold")
    /\ printed' = valid \ {c} /\ reported' = snapshot
    /\ UNCHANGED <<vars, dump_owner, t_detect, slots, flags, awaited>>

(* The second dump, of everybody: the flag, and the owner's own.            *)
Trigger(c) ==
    /\ stage[c] = "hold" /\ now >= t_detect + Dump2Trigger
    /\ trigger' = TRUE /\ awaited' = first_done
    /\ dump_at' = [dump_at EXCEPT ![c] = now] /\ Enters(c, "second")
    /\ UNCHANGED <<barrierVars, start_jiffies, timed_out, clockVars, haltVars>>
    /\ UNCHANGED <<dump_owner, t_detect, slots, first_done, second_done, printed, reported>>

SecondDump(c) ==
    /\ stage[c] = "second" /\ Enters(c, IF c = dump_owner THEN "wait2" ELSE "spin")
    /\ second_done' = second_done \cup {c}
    /\ UNCHANGED <<vars, dump_owner, t_detect, slots, first_done, trigger, log>>

WaitSecond(c) ==
    /\ stage[c] = "wait2" /\ Waited(c, second_done, Dump2Window)
    /\ Enters(c, "rest")
    /\ UNCHANGED <<vars, dump_owner, t_detect, slots, flags, log>>

PanicDue(c) ==
    /\ stage[c] = "rest" /\ now >= t_detect + PanicWindow
    /\ Goto(c, "panic") /\ Enters(c, "spin")
    /\ UNCHANGED <<state, thread_ack, curstate, irq, detectVars, clockVars, haltVars>>
    /\ UNCHANGED <<dump_owner, t_detect, slots, flags, log>>

--------------------------------------------------------------------------------
(* Phase 3, by the others: poll for the trigger, dump once more, and spin.  *)

(* Variant: spin at once, as in the revision with snapshots alone.          *)
PollNot(c) ==
    /\ stage[c] = "poll" /\ Enters(c, "spin")
    /\ UNCHANGED <<vars, dump_owner, t_detect, slots, flags, log>>

Poll(c) ==
    /\ stage[c] = "poll" /\ trigger
    /\ dump_at' = [dump_at EXCEPT ![c] = now] /\ Enters(c, "second")
    /\ UNCHANGED <<barrierVars, start_jiffies, timed_out, clockVars, haltVars>>
    /\ UNCHANGED <<dump_owner, t_detect, slots, flags, log>>

--------------------------------------------------------------------------------
LoopStep(c) ==
    /\ \/ Enter(c) \/ NewState(c) \/ SameState(c) \/ FnReturn(c)
       \/ AckDec(c) \/ ResetAck(c) \/ SetState(c)
       \/ CheckPasses(c) \/ Restore(c) \/ Panic(c)
    /\ UNCHANGED dumpVars

DumpStep(c) ==
    \/ StagedDetect(c) \/ FillSnapshot(c) \/ Publish(c) \/ FirstDump(c)
    \/ WinOwner(c) \/ LoseOwner(c) \/ Poll(c)
    \/ WaitFirst(c) \/ Report(c) \/ Trigger(c) \/ SecondDump(c)
    \/ WaitSecond(c) \/ PanicDue(c)

(* What a prompt machine does within the tick: all but the stoppers that are *)
(* late, waits that last, and stacks still being printed.  The callback is   *)
(* quick: what a slow one does is the subject of StopMachineTest.            *)
DumpDue(c) ==
    \/ pc[c] = "fn"
    \/ pc[c] # "dump" /\ c \notin Late /\ Due(c)
    \/ pc[c] \notin {"dump", "queued"} /\ Due(c)
    \/ stage[c] \in {"snapshot", "publish", "race", "report"}
    \/ stage[c] \in {"first", "second"} /\ DumpLate(c)
    \/ stage[c] = "wait1" /\ Waited(c, first_done, Dump1Window)
    \/ stage[c] = "hold" /\ now >= t_detect + Dump2Trigger
    \/ stage[c] = "wait2" /\ Waited(c, second_done, Dump2Window)
    \/ stage[c] = "rest" /\ now >= t_detect + PanicWindow
    \/ stage[c] = "poll" /\ trigger

DumpTick ==
    /\ Prompt => /\ ~ \E c \in Threads : DumpDue(c)
                 /\ jiffies = now \/ \A c \in CPU : ~irq[c]
    /\ Advance /\ UNCHANGED dumpVars

DumpClock ==
    \/ DumpTick
    \/ (Bark \/ \E c \in CPU : TimerIrq(c)) /\ UNCHANGED dumpVars

DumpNext ==
    \/ ~Halted /\ \E c \in Threads : LoopStep(c) \/ DumpStep(c)
    \/ ~Halted /\ DumpClock
    \/ (Halted \/ Returned) /\ UNCHANGED dvars

DumpSpec == DumpInit /\ [][DumpNext]_dvars

(* As in StopMachine; but a late stopper need not arrive.                   *)
DumpFairSpec ==
    /\ DumpSpec
    /\ \A c \in Threads :
          WF_dvars(~Halted /\ (c \in Late => pc[c] # "queued") /\ (LoopStep(c) \/ DumpStep(c)))
    /\ WF_dvars(~Halted /\ DumpTick)
    /\ \A c \in CPU : WF_dvars(~Halted /\ TimerIrq(c) /\ UNCHANGED dumpVars)

--------------------------------------------------------------------------------
DumpTypeOK ==
    /\ stage \in [Threads -> Stages]
    /\ dump_owner \in Threads \cup {Nobody} /\ t_detect \in Nat
    /\ snapshot \in [Threads -> NONE .. EXIT]
    /\ valid \subseteq Threads /\ first_done \subseteq Threads
    /\ second_done \subseteq Threads /\ trigger \in BOOLEAN
    /\ printed \subseteq Threads /\ awaited \subseteq Threads
    /\ reported \in [Threads -> NONE .. EXIT]

(* The inductive invariant.  A thread's flags and slot tell the stages it   *)
(* has been through, it stays where it detected, in a state it has taken     *)
(* from msdata, and one thread orchestrates.                                *)
Owning == {"wait1", "report", "hold", "wait2", "rest"}
StagesOK ==
    /\ trigger => dump_owner # Nobody
    /\ \A c \in Threads :
        /\ stage[c] = "out" <=> pc[c] \notin {"dump", "panic"}
        /\ stage[c] # "out" <=> timed_out[c]
        /\ pc[c] # "backtrace"
        /\ c \in valid <=> stage[c] \notin {"out", "snapshot", "publish"}
        /\ c \in first_done <=> stage[c] \notin {"out", "snapshot", "publish", "first"}
        /\ stage[c] = "publish" \/ c \in valid => snapshot[c] = curstate[c]
        /\ pc[c] \notin {"queued", "loop"} => curstate[c] # NONE
        /\ c \in printed => c \in valid /\ reported[c] = snapshot[c]
        /\ stage[c] \in Owning => c = dump_owner
        /\ c = dump_owner => stage[c] \in Owning \cup {"second", "spin"}
        /\ stage[c] \in {"second", "wait2", "rest", "spin"} => trigger
        /\ c = dump_owner /\ trigger => stage[c] \in {"second", "wait2", "rest", "spin"}
        /\ c \in second_done <=> stage[c] \in {"wait2", "rest", "spin"}
        /\ pc[c] = "panic" <=> stage[c] = "spin" /\ c = dump_owner

(* A machine on which the detector's timing works out: a CPU does in a tick  *)
(* what it can, some stopper is in the loop at once, and the console leaves  *)
(* the second dumps, and the panic, the time they have.                      *)
LastTrigger == IF Dump1Window > Dump2Trigger THEN Dump1Window ELSE Dump2Trigger
DetectBy    == Timeout + 1
OwnedBy     == DetectBy + DumpTime
OnTime ==
    /\ Prompt /\ Wedged = {} /\ IrqOff = {} /\ Late # Threads
    /\ LastTrigger + DumpTime < PanicWindow /\ Dump2Window <= PanicWindow
    /\ OwnedBy + PanicWindow < BarkTime

(* There, as long as nobody has detected anything, the time to do so is not  *)
(* over: a stopper that has to wait has seen the first tick ...              *)
DetectsInTime ==
    /\ \A c \in Threads : pc[c] = "queued" => irq[c]
    /\ \A c \in Threads \ Late : start_jiffies[c] = 0 /\ (pc[c] = "queued" => now = 0)
    /\ (\A c \in Threads : ~timed_out[c]) => Returned \/ now <= DetectBy

(* ... then the first of those that have is on its way to the ownership ...  *)
OnItsWay(c) ==
    \/ stage[c] \in {"snapshot", "publish"} /\ now <= DetectBy
    \/ stage[c] = "first" /\ dump_at[c] <= DetectBy /\ now <= dump_at[c] + DumpTime
    \/ stage[c] = "race" /\ now <= OwnedBy
OwnedInTime ==
    (\E c \in Threads : timed_out[c]) /\ dump_owner = Nobody => \E c \in Threads : OnItsWay(c)

(* ... and the owner keeps its deadlines, as does every second dump.         *)
Dumping(c) == /\ stage[c] = "second" /\ dump_at[c] <= t_detect + LastTrigger
              /\ now <= dump_at[c] + DumpTime
OwnerInTime ==
    \A c \in Threads : c = dump_owner =>
        /\ t_detect <= OwnedBy /\ now <= t_detect + PanicWindow
        /\ stage[c] \in {"wait1", "report", "hold"} => now <= t_detect + LastTrigger
        /\ stage[c] = "second" => Dumping(c)
SecondInTime ==
    /\ trigger => \A c \in awaited :
          \/ c \in second_done \/ Dumping(c)
          \/ stage[c] \in {"race", "poll"} /\ now <= t_detect + LastTrigger
    /\ \A c \in Threads : pc[c] = "panic" => awaited \subseteq second_done

Deadlines == DetectsInTime /\ OwnedInTime /\ OwnerInTime /\ SecondInTime /\ ~barked

DumpIInv == IInv /\ DumpTypeOK /\ StagesOK /\ (OnTime => Deadlines)

(* A snapshot that the owner prints is whole, never the zeroes of a slot its *)
(* thread has yet to fill (lines 379-380, 406), and still true when it       *)
(* panics: the thread has not moved since (lines 73-75).                    *)
SnapshotsWhole ==
    \A c \in printed :
        timed_out[c] /\ reported[c] # NONE /\ reported[c] = curstate[c]

(* A thread that detects the deadlock in PREPARE holds it there: whoever     *)
(* arrives later, no callback runs in front of the panic.                   *)
DetectionFinal ==
    (\E c \in valid : snapshot[c] = PREPARE)
        => \A t \in Threads : curstate[t] < RUN /\ pc[t] # "fn"

(* The panic is the owner's, after its report, and finds the second dump of  *)
(* every thread whose first was over at the trigger (lines 80-85, 109-119).  *)
DumpsComplete ==
    \A c \in Threads : pc[c] = "panic" => c = dump_owner /\ trigger /\ awaited \subseteq second_done

(* Whoever detects brings the machine down, though threads be missing or     *)
(* arrive meanwhile, before the watchdog does (lines 117-121).              *)
DetectedPanics == (\E c \in Threads : timed_out[c]) ~> panicked

(* A stop that some stopper keeps waiting comes to the panic.               *)
StuckPanics ==
    (\E c \in Threads : pc[c] = "loop") ~> panicked \/ (\A c \in Threads : pc[c] # "queued")
================================================================================
