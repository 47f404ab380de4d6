---------------------------- MODULE StopDump_proofs ----------------------------
(* Proofs about StopDump, for any set of threads and any windows, whoever    *)
(* arrives late.  What is safe whatever the speed of the machine comes       *)
(* first; the deadlines of the dumps hold of a machine that is OnTime.       *)
EXTENDS StopDump, StopMachine_proofs

(* The branch of the detector.                                               *)
Detected(c) == pc[c] \in {"dump", "panic"}

(* A thread past the top of the loop has taken a state from msdata.          *)
Begun(c) == pc[c] \notin {"queued", "loop"} => curstate[c] # NONE

(* A step of the loop leaves the threads that have detected where they are,  *)
(* and takes nobody to the branch.                                           *)
LEMMA LoopLeavesDetected ==
    ASSUME IInv, NEW c \in Threads, LoopStep(c)
    PROVE  /\ UNCHANGED <<dumpVars, timed_out>>
           /\ \A t \in Threads : /\ Detected(t)' <=> Detected(t)
                                 /\ pc'[t] = "panic" <=> pc[t] = "panic"
                                 /\ pc'[t] = "backtrace" => pc[t] = "backtrace"
                                 /\ Detected(t) => curstate'[t] = curstate[t]
                                 /\ Begun(t) => Begun(t)'
<1>1. UNCHANGED <<dumpVars, timed_out>>
  BY DEF LoopStep, Enter, NewState, SameState, FnReturn, AckDec, ResetAck, SetState,
         CheckPasses, Restore, Panic, detectVars
<1>2. pc \in [Threads -> PcValues] /\ curstate \in [Threads -> NONE .. EXIT]
  BY DEF IInv, TypeOK
<1>3. CASE Panic(c)
  BY <1>1, <1>3 DEF Panic, barrierVars, Detected, Begun
<1>4. CASE ~Panic(c)
  <2>1. \E label \in PcValues \ {"dump", "panic", "backtrace"} : Goto(c, label)
    BY <1>4 DEF LoopStep, Enter, NewState, SameState, FnReturn, AckDec, ResetAck,
                SetState, CheckPasses, Restore, PcValues
  <2>2. ~Detected(c)
    BY <1>4 DEF LoopStep, Enter, NewState, SameState, FnReturn, AckDec, ResetAck,
                SetState, CheckPasses, Restore, Detected
  <2>3. \A t \in Threads : t # c => curstate'[t] = curstate[t]
    BY <1>2, <1>4 DEF LoopStep, Enter, NewState, SameState, FnReturn, AckDec,
                      ResetAck, SetState, CheckPasses, Restore
  <2>4. Begun(c) => Begun(c)'
    <3>1. state # NONE
      BY DEF IInv, TypeOK, NONE, PREPARE, EXIT
    <3> QED
      BY <1>2, <1>4, <3>1 DEF LoopStep, Enter, NewState, SameState, FnReturn, AckDec,
         ResetAck, SetState, CheckPasses, Restore, Goto, Begun
  <2> QED
    BY <1>2, <2>1, <2>2, <2>3, <2>4, <1>1 DEF Goto, Detected, Begun
<1> QED
  BY <1>1, <1>3, <1>4

(* The stages are about those that have detected.                            *)
LEMMA StagesKept ==
    ASSUME StagesOK, UNCHANGED <<dumpVars, timed_out>>,
           \A t \in Threads : /\ Detected(t)' <=> Detected(t)
                              /\ pc'[t] = "panic" <=> pc[t] = "panic"
                              /\ pc'[t] = "backtrace" => pc[t] = "backtrace"
                              /\ Detected(t) => curstate'[t] = curstate[t]
                              /\ Begun(t) => Begun(t)'
    PROVE  StagesOK'
<1>1. \A t \in Threads : stage[t] # "out" => Detected(t)
  BY DEF StagesOK, Detected
<1>2. \A t \in Threads : pc'[t] \notin {"queued", "loop"} => curstate'[t] # NONE
  BY DEF StagesOK, Begun
<1>3. UNCHANGED <<stage, timed_out, snapshot, valid, first_done, trigger, second_done,
                  dump_owner, printed, reported>>
  BY DEF dumpVars, slots, flags, log
<1>4. \A t \in Threads :
          stage[t] = "publish" \/ t \in valid => curstate'[t] = curstate[t]
  BY <1>1 DEF StagesOK
<1>5. \A t \in Threads : /\ pc'[t] \notin {"dump", "panic"} <=> pc[t] \notin {"dump", "panic"}
                         /\ pc'[t] = "panic" <=> pc[t] = "panic"
                         /\ pc'[t] = "backtrace" => pc[t] = "backtrace"
  BY DEF Detected
<1> QED
  BY <1>2, <1>3, <1>4, <1>5 DEF StagesOK

(* Nothing has been detected at the start.                                   *)
LEMMA InitDumpIInv == DumpInit => DumpIInv
<1> SUFFICES ASSUME DumpInit PROVE DumpIInv
  OBVIOUS
<1>1. IInv
  BY InitIInv DEF DumpInit
<1>2. DumpTypeOK
  <2>1. NONE \in NONE .. EXIT
    BY DEF NONE, EXIT
  <2>2. snapshot \in [Threads -> NONE .. EXIT] /\ reported \in [Threads -> NONE .. EXIT]
    BY <2>1 DEF DumpInit
  <2> QED
    BY <2>2 DEF DumpInit, DumpTypeOK, Stages
<1>3. StagesOK
  BY DumpAssumption DEF DumpInit, Init, StagesOK, Owning
<1>4. ASSUME OnTime PROVE Deadlines
  <2>1. /\ dump_owner = Nobody /\ trigger = FALSE /\ now = 0 /\ barked = FALSE
        /\ \A c \in Threads : /\ pc[c] = "queued" /\ start_jiffies[c] = 0
                             /\ timed_out[c] = FALSE /\ c # dump_owner
    BY DumpAssumption DEF DumpInit, Init
  <2>2. \A c \in Threads : irq[c]
    BY <1>4, StopAssumption DEF OnTime, DumpInit, Init
  <2>3. 0 <= DetectBy
    BY StopAssumption DEF DetectBy
  <2> QED
    BY <2>1, <2>2, <2>3
       DEF Deadlines, DetectsInTime, OwnedInTime, OwnerInTime, SecondInTime
<1> QED
  BY <1>1, <1>2, <1>3, <1>4 DEF DumpIInv

(* The dump's steps keep the invariant of the state machine: but for the     *)
(* detection and the panic they do not touch it.                             *)
LEMMA DumpKeepsIInv == IInv /\ StagesOK /\ [DumpNext]_dvars => IInv'
<1> SUFFICES ASSUME IInv, StagesOK, [DumpNext]_dvars PROVE IInv'
  OBVIOUS
<1>1. ASSUME NEW c \in Threads, LoopStep(c) \/ Detect(c), ~Halted PROVE IInv'
  <2>1. Step(c)
    BY <1>1 DEF LoopStep, Step
  <2> QED
    BY <1>1, <2>1, NextIInv DEF Next
<1>2. ASSUME UNCHANGED <<barrierVars, start_jiffies, timed_out, clockVars, haltVars>>,
             dump_at' \in [Threads -> Nat]
      PROVE  IInv'
  <2>1. TypeOK'
    BY <1>2 DEF IInv, TypeOK, barrierVars, clockVars, haltVars
  <2>2. LockInv'
    BY <1>2, <2>1, QuietStep, IInvParts DEF barrierVars
  <2> QED
    BY <1>2, <2>2, IInvParts, IInvPartsNext DEF OffDuring, barrierVars
<1>3. ASSUME UNCHANGED vars PROVE IInv'
  BY <1>3, NextIInv
<1>4. ASSUME NEW c \in Threads, DumpStep(c), ~Halted PROVE IInv'
  <2>1. CASE StagedDetect(c)
    BY <1>1, <1>4, <2>1 DEF StagedDetect
  <2>2. CASE Publish(c) \/ Trigger(c) \/ Poll(c)
    <3>1. dump_at' \in [Threads -> Nat]
      BY <2>2 DEF IInv, TypeOK, Publish, Trigger, Poll
    <3> QED
      BY <1>2, <2>2, <3>1 DEF Publish, Trigger, Poll
  <2>3. CASE PanicDue(c)
    <3>1. pc[c] = "dump" /\ Goto(c, "panic")
          /\ UNCHANGED <<state, thread_ack, curstate, irq, detectVars, clockVars, haltVars>>
      BY <2>3 DEF PanicDue, StagesOK
    <3>2. TypeOK'
      BY <3>1 DEF IInv, TypeOK, PcValues, Goto, detectVars, clockVars, haltVars
    <3>3. LockInv'
      BY <3>1, <3>2, PcStep, IInvParts DEF PcValues
    <3>4. \A t \in Threads : OffDuring(t)'
      BY <3>1, IInvParts DEF IInv, TypeOK, OffDuring, Goto
    <3> QED
      BY <3>3, <3>4, IInvPartsNext
  <2>4. CASE FillSnapshot(c) \/ FirstDump(c) \/ WinOwner(c) \/ LoseOwner(c)
             \/ WaitFirst(c) \/ Report(c) \/ SecondDump(c) \/ WaitSecond(c)
    BY <1>3, <2>4 DEF FillSnapshot, FirstDump, WinOwner, LoseOwner, WaitFirst, Report,
                      SecondDump, WaitSecond
  <2> QED
    BY <1>4, <2>1, <2>2, <2>3, <2>4 DEF DumpStep
<1>5. ASSUME DumpClock, ~Halted PROVE IInv'
  <2>1. CASE DumpTick
    <3>1. LockInv' /\ UNCHANGED barrierVars
      BY <2>1, ClockLock, IInvParts DEF DumpTick
    <3> QED
      BY <3>1, IInvParts, IInvPartsNext DEF OffDuring, barrierVars
  <2>2. CASE Bark \/ \E c \in CPU : TimerIrq(c)
    BY <1>5, <2>2, NextIInv DEF Next, Clock
  <2> QED
    BY <1>5, <2>1, <2>2 DEF DumpClock
<1> QED
  BY <1>1, <1>3, <1>4, <1>5 DEF DumpNext, dvars

(* The types of what the dump adds.                                          *)
LEMMA DumpKeepsTypes == IInv /\ DumpTypeOK /\ [DumpNext]_dvars => DumpTypeOK'
<1> SUFFICES ASSUME IInv, DumpTypeOK, [DumpNext]_dvars PROVE DumpTypeOK'
  OBVIOUS
<1>1. CASE UNCHANGED dumpVars
  BY <1>1 DEF DumpTypeOK, dumpVars, slots, flags, log
<1>2. ASSUME NEW c \in Threads, DumpStep(c) PROVE DumpTypeOK'
  <2> USE DEF DumpTypeOK, slots, flags, log, Enters
  <2>1. stage' \in [Threads -> Stages]
    BY <1>2 DEF DumpStep, StagedDetect, FillSnapshot, Publish, FirstDump, WinOwner,
                LoseOwner, Poll, WaitFirst, Report, Trigger, SecondDump, WaitSecond,
                PanicDue, Stages
  <2>2. CASE FillSnapshot(c)
    BY <2>1, <2>2 DEF FillSnapshot, IInv, TypeOK
  <2>3. CASE WinOwner(c)
    BY <2>1, <2>3 DEF WinOwner, IInv, TypeOK
  <2>4. CASE Report(c)
    <3>1. printed' \subseteq Threads /\ reported' \in [Threads -> NONE .. EXIT]
      BY <2>4 DEF Report
    <3> QED
      BY <2>1, <2>4, <3>1 DEF Report
  <2>5. CASE ~(FillSnapshot(c) \/ WinOwner(c) \/ Report(c))
    <3>1. /\ valid' \in {valid, valid \cup {c}}
          /\ first_done' \in {first_done, first_done \cup {c}}
          /\ second_done' \in {second_done, second_done \cup {c}}
          /\ trigger' \in {trigger, TRUE} /\ awaited' \in {awaited, first_done}
          /\ UNCHANGED <<dump_owner, t_detect, snapshot, printed, reported>>
      BY <1>2, <2>5 DEF DumpStep, StagedDetect, Publish, FirstDump, LoseOwner, Poll,
                        WaitFirst, Trigger, SecondDump, WaitSecond, PanicDue
    <3> QED
      BY <2>1, <3>1
  <2> QED
    BY <2>2, <2>3, <2>4, <2>5
<1> QED
  BY <1>1, <1>2 DEF DumpNext, LoopStep, DumpClock, DumpTick, dvars

(* One thread's way through the branch.                                      *)
LEMMA DumpStepStages ==
    ASSUME DumpIInv, NEW c \in Threads, DumpStep(c) PROVE StagesOK'
<1> USE DEF DumpIInv, IInv, TypeOK, DumpTypeOK, StagesOK, Owning, Enters, Goto,
            vars, barrierVars, detectVars, slots, flags, log
<1>1. CASE StagedDetect(c)
  BY <1>1 DEF StagedDetect, Detect
<1>2. CASE FillSnapshot(c)
  BY <1>2 DEF FillSnapshot
<1>3. CASE Publish(c)
  BY <1>3 DEF Publish
<1>4. CASE FirstDump(c)
  BY <1>4 DEF FirstDump
<1>5. CASE WinOwner(c)
  BY <1>5, DumpAssumption DEF WinOwner
<1>6. CASE LoseOwner(c)
  BY <1>6 DEF LoseOwner
<1>7. CASE Poll(c)
  BY <1>7 DEF Poll
<1>8. CASE WaitFirst(c)
  BY <1>8 DEF WaitFirst
<1>9. CASE Report(c)
  BY <1>9 DEF Report
<1>10. CASE Trigger(c)
  BY <1>10, DumpAssumption DEF Trigger
<1>11. CASE SecondDump(c)
  BY <1>11 DEF SecondDump
<1>12. CASE WaitSecond(c)
  BY <1>12 DEF WaitSecond
<1>13. CASE PanicDue(c)
  BY <1>13 DEF PanicDue
<1> QED
  BY <1>1, <1>2, <1>3, <1>4, <1>5, <1>6, <1>7, <1>8, <1>9, <1>10, <1>11, <1>12, <1>13
     DEF DumpStep

(* On a machine that is on time, each deadline is met because the one before *)
(* it was.  First, the types of the times compared.                          *)
LEMMA Times ==
    ASSUME DumpIInv
    PROVE  /\ now \in Nat /\ jiffies \in Nat /\ t_detect \in Nat /\ jiffies <= now
           /\ dump_at \in [Threads -> Nat] /\ start_jiffies \in [Threads -> Nat]
           /\ DetectBy \in Nat /\ OwnedBy \in Nat /\ LastTrigger \in Nat
           /\ Timeout \in Nat /\ DumpTime \in Nat /\ PanicWindow \in Nat /\ BarkTime \in Nat
           /\ Dump1Window \in Nat /\ Dump2Trigger \in Nat /\ Dump2Window \in Nat
           /\ DetectBy = Timeout + 1 /\ OwnedBy = DetectBy + DumpTime
           /\ Dump1Window <= LastTrigger /\ Dump2Trigger <= LastTrigger
BY StopAssumption, DumpAssumption
   DEF DumpIInv, IInv, TypeOK, DumpTypeOK, DetectBy, OwnedBy, LastTrigger

LEMMA OwnedSoon ==
    ASSUME DumpIInv, NEW c \in Threads, OnItsWay(c) PROVE now <= OwnedBy
<1>1. dump_at[c] \in Nat
  BY Times
<1> QED
  BY <1>1, Times DEF OnItsWay

(* The watchdog is not due before the stop is over.                          *)
LEMMA BeforeBark ==
    ASSUME OnTime, DumpIInv, Deadlines, ~Returned PROVE now < BarkTime
<1>1. CASE \A c \in Threads : ~timed_out[c]
  BY <1>1, Times DEF Deadlines, DetectsInTime, OnTime
<1>2. CASE (\E c \in Threads : timed_out[c]) /\ dump_owner = Nobody
  <2>1. now <= OwnedBy
    BY <1>2, OwnedSoon DEF Deadlines, OwnedInTime
  <2> QED
    BY <2>1, Times DEF OnTime
<1>3. CASE dump_owner # Nobody
  <2>1. t_detect <= OwnedBy /\ now <= t_detect + PanicWindow
    BY <1>3 DEF Deadlines, OwnerInTime, DumpIInv, DumpTypeOK
  <2> QED
    BY <2>1, Times DEF OnTime
<1> QED
  BY <1>1, <1>2, <1>3

(* The parts of the invariant about those that have detected.                *)
LEMMA DetectedInTime ==
    ASSUME Deadlines, UNCHANGED <<dumpVars, timed_out, now, dump_at>>,
           \A t \in Threads : pc'[t] = "panic" => pc[t] = "panic"
    PROVE  OwnedInTime' /\ OwnerInTime' /\ SecondInTime'
BY DEF Deadlines, OwnedInTime, OwnerInTime, SecondInTime, OnItsWay, Dumping, dumpVars,
       flags, log

(* The loop, of whoever has not detected: a thread that enters at once has   *)
(* taken its snapshot at the start.                                          *)
LEMMA LoopInTime ==
    ASSUME DumpIInv, Deadlines, NEW c \in Threads, LoopStep(c) PROVE Deadlines'
<1>0. /\ pc \in [Threads -> PcValues] /\ irq \in [CPU -> BOOLEAN] /\ Threads \subseteq CPU
      /\ start_jiffies \in [Threads -> Nat] /\ now \in Nat /\ jiffies \in 0 .. now
  BY StopAssumption DEF DumpIInv, IInv, TypeOK
<1>1. /\ UNCHANGED <<dumpVars, timed_out>>
      /\ \A t \in Threads : pc'[t] = "panic" => pc[t] = "panic"
  BY LoopLeavesDetected DEF DumpIInv
<1>2. UNCHANGED <<now, dump_at, barked>> /\ pc[c] # "done"
  BY DEF LoopStep, Enter, NewState, SameState, FnReturn, AckDec, ResetAck, SetState,
         CheckPasses, Restore, Panic, detectVars, clockVars, haltVars
<1>3. /\ pc'[c] # "queued"
      /\ \A t \in Threads \ {c} : UNCHANGED <<pc[t], irq[t], start_jiffies[t]>>
  BY <1>0 DEF LoopStep, Enter, NewState, SameState, FnReturn, AckDec, ResetAck, SetState,
         CheckPasses, Restore, Panic, Goto, detectVars, barrierVars
<1>4. c \notin Late => start_jiffies'[c] = 0
  <2>1. CASE Enter(c)
    BY <1>0, <2>1 DEF Enter, Deadlines, DetectsInTime
  <2>2. CASE ~Enter(c)
    BY <2>2 DEF LoopStep, NewState, SameState, FnReturn, AckDec, ResetAck, SetState,
           CheckPasses, Restore, Panic, detectVars, Deadlines, DetectsInTime
  <2> QED
    BY <2>1, <2>2
<1>5. DetectsInTime'
  BY <1>1, <1>2, <1>3, <1>4 DEF Deadlines, DetectsInTime, Returned
<1> QED
  BY <1>1, <1>2, <1>5, DetectedInTime DEF Deadlines

(* What a step of the branch leaves as it is.                                *)
LEMMA DumpStepFrame ==
    ASSUME DumpIInv, NEW c \in Threads, DumpStep(c)
    PROVE  /\ UNCHANGED <<now, jiffies, irq, start_jiffies, barked>>
           /\ pc[c] \in {"check", "dump", "panic"} /\ pc'[c] \in {"dump", "panic"}
           /\ \A t \in Threads \ {c} :
                 UNCHANGED <<pc[t], stage[t], dump_at[t], timed_out[t]>>
           /\ timed_out'[c]
<1> USE DEF DumpIInv, IInv, TypeOK, DumpTypeOK
<1>1. CASE StagedDetect(c)
  BY <1>1 DEF StagedDetect, Detect, Goto, Enters, clockVars, haltVars
<1>2. CASE ~StagedDetect(c)
  <2>1. stage[c] # "out" /\ pc[c] \in {"dump", "panic"} /\ timed_out[c]
    <3>1. stage[c] # "out"
      BY <1>2 DEF DumpStep, FillSnapshot, Publish, FirstDump, WinOwner, LoseOwner, Poll,
                  WaitFirst, Report, Trigger, SecondDump, WaitSecond, PanicDue
    <3> QED
      BY <3>1 DEF StagesOK
  <2>2. CASE PanicDue(c)
    BY <2>1, <2>2 DEF PanicDue, Goto, Enters, detectVars, clockVars, haltVars
  <2>3. CASE Publish(c) \/ Trigger(c) \/ Poll(c)
    BY <2>1, <2>3 DEF Publish, Trigger, Poll, Enters, barrierVars, clockVars, haltVars
  <2>4. CASE FillSnapshot(c) \/ FirstDump(c) \/ WinOwner(c) \/ LoseOwner(c)
             \/ WaitFirst(c) \/ Report(c) \/ SecondDump(c) \/ WaitSecond(c)
    BY <2>1, <2>4 DEF FillSnapshot, FirstDump, WinOwner, LoseOwner, WaitFirst, Report,
                      SecondDump, WaitSecond, Enters, vars, barrierVars, detectVars,
                      clockVars, haltVars
  <2> QED
    BY <1>2, <2>2, <2>3, <2>4 DEF DumpStep
<1> QED
  BY <1>1, <1>2

(* The first to detect is on its way until somebody owns the dump.           *)
LEMMA OnTheWay ==
    ASSUME OnTime, DumpIInv, Deadlines, NEW c \in Threads, DumpStep(c) PROVE OwnedInTime'
<1> SUFFICES ASSUME dump_owner' = Nobody PROVE \E w \in Threads : OnItsWay(w)'
  BY DEF OwnedInTime
<1> USE DEF slots, flags, log
<1>0. stage \in [Threads -> Stages] /\ dump_at \in [Threads -> Nat] /\ now \in Nat
  BY Times DEF DumpIInv, DumpTypeOK
<1>1. StagedDetect(c) \/ FillSnapshot(c) \/ Publish(c) \/ FirstDump(c)
  <2>1. dump_owner = Nobody => ~trigger /\ stage[c] \notin Owning \cup {"second"}
    BY DumpAssumption DEF DumpIInv, StagesOK
  <2> QED
    BY <2>1, DumpAssumption DEF DumpStep, WinOwner, LoseOwner, Poll, WaitFirst, Report,
       Trigger, SecondDump, WaitSecond, PanicDue, Owning
<1>2. dump_owner = Nobody
  BY <1>1 DEF StagedDetect, FillSnapshot, Publish, FirstDump
<1>3. ASSUME NEW w \in Threads, OnItsWay(w) PROVE \E u \in Threads : OnItsWay(u)'
  <2>1. CASE w # c
    BY <1>3, <2>1, DumpStepFrame DEF OnItsWay
  <2>2. CASE w = c /\ StagedDetect(c)
    BY <1>3, <2>2 DEF OnItsWay, StagedDetect, Detect, DumpIInv, StagesOK
  <2>3. CASE w = c /\ FillSnapshot(c)
    BY <1>0, <1>3, <2>3 DEF OnItsWay, FillSnapshot, Enters, vars, clockVars
  <2>4. CASE w = c /\ Publish(c)
    BY <1>0, <1>3, <2>4, Times DEF OnItsWay, Publish, Enters, clockVars
  <2>5. CASE w = c /\ FirstDump(c)
    BY <1>0, <1>3, <2>5, OwnedSoon DEF OnItsWay, FirstDump, Enters, vars, clockVars
  <2> QED
    BY <1>1, <2>1, <2>2, <2>3, <2>4, <2>5
<1>4. CASE \E w \in Threads : timed_out[w]
  BY <1>2, <1>3, <1>4 DEF Deadlines, OwnedInTime
<1>5. CASE \A w \in Threads : ~timed_out[w]
  <2>1. StagedDetect(c)
    BY <1>1, <1>5 DEF FillSnapshot, Publish, FirstDump, DumpIInv, StagesOK
  <2>2. now <= DetectBy
    BY <1>5, DumpStepFrame DEF Deadlines, DetectsInTime, Returned
  <2>3. stage'[c] = "snapshot" /\ now' = now
    BY <1>0, <2>1, DumpStepFrame DEF StagedDetect, Enters
  <2> QED
    BY <2>2, <2>3, DumpStepFrame DEF OnItsWay
<1> QED
  BY <1>4, <1>5

(* The owner is in time at each of its stages.                               *)
LEMMA OwnerStep ==
    ASSUME OnTime, DumpIInv, Deadlines, NEW c \in Threads, DumpStep(c) PROVE OwnerInTime'
<1> SUFFICES ASSUME NEW w \in Threads, w = dump_owner'
             PROVE  /\ t_detect' <= OwnedBy /\ now' <= t_detect' + PanicWindow
                    /\ stage'[w] \in {"wait1", "report", "hold"} =>
                          now' <= t_detect' + LastTrigger
                    /\ stage'[w] = "second" => Dumping(w)'
  BY DEF OwnerInTime, DetectBy, OwnedBy, LastTrigger
<1> USE DEF slots, flags, log
<1>0. stage \in [Threads -> Stages] /\ dump_at \in [Threads -> Nat]
  BY DEF DumpIInv, DumpTypeOK, IInv, TypeOK
<1>1. CASE WinOwner(c)
  <2>1. w = c /\ t_detect' = now /\ now' = now /\ stage'[c] = "wait1"
    BY <1>0, <1>1 DEF WinOwner, Enters, vars, clockVars
  <2>2. now <= OwnedBy
    <3>1. timed_out[c] /\ dump_owner = Nobody
      BY <1>1 DEF WinOwner, DumpIInv, StagesOK
    <3> QED
      BY <3>1, OwnedSoon DEF Deadlines, OwnedInTime
  <2> QED
    BY <2>1, <2>2, Times
<1>2. CASE ~WinOwner(c)
  <2>1. UNCHANGED <<dump_owner, t_detect, now>>
    BY <1>2, DumpStepFrame DEF DumpStep, StagedDetect, FillSnapshot, Publish, FirstDump,
       LoseOwner, Poll, WaitFirst, Report, Trigger, SecondDump, WaitSecond, PanicDue
  <2>2. /\ t_detect <= OwnedBy /\ now <= t_detect + PanicWindow
        /\ stage[w] \in {"wait1", "report", "hold"} => now <= t_detect + LastTrigger
        /\ stage[w] = "second" => Dumping(w)
    BY <2>1 DEF Deadlines, OwnerInTime
  <2>3. CASE w # c
    <3>1. UNCHANGED <<stage[w], dump_at[w]>>
      BY <2>3, DumpStepFrame
    <3> QED
      BY <2>1, <2>2, <3>1 DEF Dumping
  <2>4. CASE w = c
    <3>1. stage[c] \in Owning \cup {"second", "spin"}
      BY <2>1, <2>4 DEF DumpIInv, StagesOK
    <3>2. CASE Trigger(c)
      <4>1. stage'[c] = "second" /\ dump_at'[c] = now /\ stage[c] = "hold"
        BY <1>0, <3>2 DEF Trigger, Enters
      <4> QED
        BY <2>1, <2>2, <2>4, <4>1, Times DEF Dumping
    <3>3. CASE WaitFirst(c) \/ Report(c)
      <4>1. stage'[c] \in {"report", "hold"} /\ stage[c] \in {"wait1", "report"}
        BY <1>0, <3>3 DEF WaitFirst, Report, Enters
      <4> QED
        BY <2>1, <2>2, <2>4, <4>1
    <3>4. CASE SecondDump(c) \/ WaitSecond(c) \/ PanicDue(c)
      <4>1. stage'[c] \in {"wait2", "rest", "spin"}
        BY <1>0, <3>4 DEF SecondDump, WaitSecond, PanicDue, Enters
      <4> QED
        BY <2>1, <2>2, <2>4, <4>1
    <3>5. stage[c] # "out"
      BY <3>1 DEF Owning
    <3> QED
      BY <1>2, <3>1, <3>2, <3>3, <3>4, <3>5 DEF DumpStep, StagedDetect, Detect,
         FillSnapshot, Publish, FirstDump, LoseOwner, Poll, Owning, DumpIInv, StagesOK
  <2> QED
    BY <2>3, <2>4
<1> QED
  BY <1>1, <1>2

(* Who is awaited at the trigger has dumped by the panic.                    *)
LEMMA SecondStep ==
    ASSUME OnTime, DumpIInv, Deadlines, NEW c \in Threads, DumpStep(c) PROVE SecondInTime'
<1> USE DEF slots, flags, log
<1>0. stage \in [Threads -> Stages] /\ dump_at \in [Threads -> Nat] /\ pc \in [Threads -> PcValues]
      /\ awaited \subseteq Threads
  BY DEF DumpIInv, DumpTypeOK, IInv, TypeOK
<1>t. \A w \in Threads \ {c} :
         UNCHANGED <<pc[w], stage[w], dump_at[w]>> /\ now' = now
  BY DumpStepFrame
<1>a. trigger => \A w \in awaited :
         \/ w \in second_done \/ Dumping(w)
         \/ stage[w] \in {"race", "poll"} /\ now <= t_detect + LastTrigger
  BY DEF Deadlines, SecondInTime
<1>p. \A w \in Threads : pc[w] = "panic" => awaited \subseteq second_done /\ trigger
                        /\ w = dump_owner /\ stage[w] = "spin"
  BY DEF Deadlines, SecondInTime, DumpIInv, StagesOK
<1>1. CASE WinOwner(c)
  <2>1. ~trigger /\ dump_owner = Nobody
    BY <1>1 DEF WinOwner, DumpIInv, StagesOK
  <2>2. UNCHANGED <<trigger, pc>>
    BY <1>1 DEF WinOwner, vars, barrierVars
  <2> QED
    BY <1>p, <2>1, <2>2 DEF SecondInTime
<1>2. CASE Trigger(c)
  <2>1. /\ c = dump_owner /\ ~trigger /\ stage[c] = "hold"
        /\ now <= t_detect + LastTrigger
    BY <1>2 DEF Trigger, Deadlines, OwnerInTime, DumpIInv, StagesOK, Owning
  <2>2. /\ stage'[c] = "second" /\ dump_at'[c] = now /\ awaited' = first_done
        /\ UNCHANGED <<pc, t_detect, now, second_done>>
    BY <1>0, <1>2 DEF Trigger, Enters, barrierVars, clockVars
  <2>3. Dumping(c)'
    BY <2>1, <2>2, Times DEF Dumping, LastTrigger
  <2>4. \A w \in first_done \ {c} : w \in Threads /\ stage[w] \in {"race", "poll"}
    <3>1. first_done \subseteq Threads
      BY DEF DumpIInv, DumpTypeOK
    <3>2. \A w \in Threads : stage[w] \in Stages
      BY <1>0
    <3> QED
      BY <2>1, <3>1, <3>2 DEF DumpIInv, StagesOK, Stages, Owning
  <2>5. \A w \in first_done \ {c} :
           stage'[w] \in {"race", "poll"} /\ now' <= t_detect' + LastTrigger
    BY <1>t, <2>1, <2>2, <2>4
  <2>6. \A w \in Threads : pc'[w] # "panic"
    BY <1>p, <2>1, <2>2
  <2> QED
    BY <2>2, <2>3, <2>5, <2>6 DEF SecondInTime, LastTrigger
<1>3. CASE SecondDump(c)
  <2>1. UNCHANGED <<pc, t_detect, now, trigger, awaited>> /\ second_done' = second_done \cup {c}
    BY <1>3 DEF SecondDump, vars, barrierVars, clockVars
  <2>2. ASSUME NEW w \in awaited, trigger, w \notin second_done'
        PROVE  \/ Dumping(w)'
               \/ stage'[w] \in {"race", "poll"} /\ now' <= t_detect' + LastTrigger
    BY <1>0, <1>a, <1>t, <2>1, <2>2 DEF Dumping, LastTrigger
  <2> QED
    BY <1>p, <2>1, <2>2 DEF SecondInTime, LastTrigger
<1>4. CASE Poll(c)
  <2>1. /\ stage[c] = "poll" /\ stage'[c] = "second" /\ dump_at'[c] = now /\ trigger
        /\ UNCHANGED <<pc, t_detect, now, trigger, awaited, second_done>>
    BY <1>0, <1>4 DEF Poll, Enters, barrierVars, clockVars
  <2>2. c \in awaited => Dumping(c)'
    <3>1. c \notin second_done /\ ~Dumping(c)
      BY <2>1 DEF DumpIInv, StagesOK, Dumping
    <3> QED
      BY <1>a, <2>1, <3>1, Times DEF Dumping, LastTrigger
  <2>3. ASSUME NEW w \in awaited, w # c
        PROVE  \/ w \in second_done' \/ Dumping(w)'
               \/ stage'[w] \in {"race", "poll"} /\ now' <= t_detect' + LastTrigger
    BY <1>0, <1>a, <1>t, <2>1, <2>3 DEF Dumping, LastTrigger
  <2> QED
    BY <1>p, <2>1, <2>2, <2>3 DEF SecondInTime, LastTrigger
<1>5. CASE PanicDue(c)
  <2>1. /\ stage[c] = "rest" /\ trigger /\ now >= t_detect + PanicWindow /\ c = dump_owner
        /\ UNCHANGED <<t_detect, now, trigger, awaited, second_done>>
    BY <1>5 DEF PanicDue, clockVars, DumpIInv, StagesOK, Owning
  <2>2. \A w \in awaited : w \in second_done
    <3> SUFFICES ASSUME NEW w \in awaited, w \notin second_done PROVE FALSE
      OBVIOUS
    <3>1. dump_at[w] \in Nat
      BY <1>0
    <3>2. now <= t_detect + LastTrigger \/ now <= t_detect + LastTrigger + DumpTime
      BY <1>a, <2>1, <3>1, Times DEF Dumping
    <3> QED
      BY <2>1, <3>2, Times DEF OnTime
  <2> QED
    BY <2>1, <2>2 DEF SecondInTime
<1>6. CASE StagedDetect(c) \/ FillSnapshot(c) \/ Publish(c) \/ FirstDump(c)
           \/ LoseOwner(c) \/ WaitFirst(c) \/ Report(c) \/ WaitSecond(c)
  <2>1. UNCHANGED <<t_detect, trigger, awaited, second_done, now>>
    BY <1>6, DumpStepFrame DEF StagedDetect, FillSnapshot, Publish, FirstDump, LoseOwner,
       WaitFirst, Report, WaitSecond
  <2>2. \A w \in Threads : pc'[w] = "panic" => pc[w] = "panic"
    BY <1>0, <1>6 DEF StagedDetect, Detect, Goto, FillSnapshot, Publish, FirstDump, LoseOwner,
       WaitFirst, Report, WaitSecond, vars, barrierVars
  <2>3. ASSUME trigger, c \in awaited, c \notin second_done
        PROVE  stage'[c] \in {"race", "poll"} /\ now <= t_detect + LastTrigger
    <3>1. stage[c] \in {"race", "poll", "second"}
      BY <1>a, <2>3 DEF Dumping
    <3>2. LoseOwner(c)
      BY <1>6, <3>1 DEF StagedDetect, Detect, FillSnapshot, Publish, FirstDump,
         WaitFirst, Report, WaitSecond, DumpIInv, StagesOK
    <3> QED
      BY <1>0, <1>a, <2>3, <3>2 DEF LoseOwner, Enters, Dumping
  <2>4. ASSUME trigger, NEW w \in awaited, w # c
        PROVE  \/ w \in second_done' \/ Dumping(w)'
               \/ stage'[w] \in {"race", "poll"} /\ now' <= t_detect' + LastTrigger
    BY <1>0, <1>a, <1>t, <2>1, <2>4 DEF Dumping, LastTrigger
  <2> QED
    BY <1>p, <2>1, <2>2, <2>3, <2>4 DEF SecondInTime, LastTrigger
<1> QED
  BY <1>1, <1>2, <1>3, <1>4, <1>5, <1>6 DEF DumpStep

LEMMA DumpStepInTime ==
    ASSUME OnTime, DumpIInv, Deadlines, NEW c \in Threads, DumpStep(c) PROVE Deadlines'
<1>1. DetectsInTime'
  <2>1. /\ UNCHANGED <<now, irq, start_jiffies>> /\ pc'[c] # "queued" /\ timed_out'[c]
        /\ \A t \in Threads \ {c} : pc'[t] = pc[t]
    BY DumpStepFrame
  <2> QED
    BY <2>1 DEF Deadlines, DetectsInTime
<1> QED
  BY <1>1, OnTheWay, OwnerStep, SecondStep, DumpStepFrame DEF Deadlines

(* Time passes when nobody has anything to do: before the detection, then,   *)
(* because a late stopper keeps the others, with their clock running, ...    *)
LEMMA TickDetects ==
    ASSUME OnTime, DumpIInv, Deadlines, DumpTick PROVE DetectsInTime'
<1> USE DEF NONE, PREPARE, DISABLE_IRQ, RUN, EXIT
<1>0. /\ UNCHANGED <<pc, irq, start_jiffies, timed_out>> /\ now' = now + 1
      /\ \A c \in Threads : ~DumpDue(c)
      /\ jiffies = now \/ \A c \in CPU : ~irq[c]
  BY DEF OnTime, DumpTick, Advance, barrierVars, detectVars
<1>1. \A c \in Threads \ Late : pc[c] # "queued"
  BY <1>0 DEF DumpDue, Due, OnTime
<1>2. ASSUME \A c \in Threads : ~timed_out[c], ~Returned PROVE now + 1 <= DetectBy
  <2>1. \A c \in Threads : pc[c] \notin {"dump", "panic", "backtrace", "fn"}
    BY <1>0, <1>2 DEF DumpIInv, StagesOK, DumpDue
  <2>2. PICK c \in Threads : Due(c)
    <3>1. HangHasCause
      BY NobodyStuck, IInvParts DEF DumpIInv
    <3> QED
      BY <1>2, <2>1, <3>1 DEF HangHasCause, OnTime
  <2>3. pc[c] = "queued"
    BY <1>0, <2>1, <2>2 DEF DumpDue
  <2>4. state = PREPARE
    BY <2>3 DEF DumpIInv, IInv, LockStep, TypeOK
  <2>5. jiffies = now
    <3>1. irq[c] /\ c \in CPU
      BY <2>3, StopAssumption DEF Deadlines, DetectsInTime
    <3> QED
      BY <1>0, <3>1
  <2>6. PICK t \in Threads \ Late : TRUE
    BY DumpAssumption DEF OnTime
  <2>7. ~Due(t) /\ pc[t] \in PcValues /\ pc[t] \notin {"dump", "panic", "backtrace", "fn", "queued"}
    BY <1>0, <1>1, <2>1 DEF DumpDue, DumpIInv, IInv, TypeOK
  <2>8. pc[t] \notin {"done", "restore"}
    BY <2>4 DEF DumpIInv, IInv, LockStep, TypeOK
  <2>9. pc[t] \in {"loop", "check"}
    BY <2>7, <2>8 DEF Due, PcValues
  <2>10. ~Fires(t)
    BY <2>7, <2>9 DEF Due
  <2>11. ~(jiffies > 0 + Timeout)
    BY <1>2, <2>10 DEF Fires, Expired, Deadlines, DetectsInTime
  <2> QED
    BY <2>5, <2>11, Times
<1>3. Returned' <=> Returned
  BY <1>0 DEF Returned
<1> QED
  BY <1>0, <1>1, <1>2, <1>3 DEF Deadlines, DetectsInTime, DetectBy

(* ... and later because somebody's wait or printing is not over.            *)
LEMMA TickInTime ==
    ASSUME OnTime, DumpIInv, Deadlines, DumpTick PROVE Deadlines'
<1>0. /\ UNCHANGED <<pc, dump_at, dumpVars, barked, timed_out>> /\ now' = now + 1
      /\ \A c \in Threads : ~DumpDue(c)
      /\ UNCHANGED <<stage, dump_owner, t_detect, trigger, second_done, awaited>>
  BY DEF OnTime, DumpTick, Advance, barrierVars, detectVars, haltVars, dumpVars, flags, log
<1>1. OwnedInTime'
  <2> SUFFICES ASSUME \E c \in Threads : timed_out[c], dump_owner = Nobody
               PROVE  \E c \in Threads : OnItsWay(c)'
    BY <1>0 DEF OwnedInTime
  <2>1. PICK c \in Threads : OnItsWay(c)
    BY DEF Deadlines, OwnedInTime
  <2>2. stage[c] = "first" /\ dump_at[c] <= DetectBy /\ ~DumpLate(c) /\ dump_at[c] \in Nat
    BY <1>0, <2>1, Times DEF OnItsWay, DumpDue
  <2>3. now + 1 <= dump_at[c] + DumpTime
    BY <2>2, Times DEF DumpLate
  <2> QED
    BY <1>0, <2>2, <2>3 DEF OnItsWay, DetectBy
<1>2. ASSUME NEW c \in Threads, Dumping(c) PROVE Dumping(c)'
  <2>1. ~DumpLate(c) /\ dump_at[c] \in Nat /\ stage[c] = "second"
    BY <1>0, <1>2, Times DEF Dumping, DumpDue
  <2>2. now + 1 <= dump_at[c] + DumpTime
    BY <2>1, Times DEF DumpLate
  <2> QED
    BY <1>0, <1>2, <2>2 DEF Dumping, LastTrigger
<1>3. OwnerInTime'
  <2> SUFFICES ASSUME NEW c \in Threads, c = dump_owner
               PROVE  /\ t_detect <= OwnedBy /\ now + 1 <= t_detect + PanicWindow
                      /\ stage[c] \in {"wait1", "report", "hold"} =>
                            now + 1 <= t_detect + LastTrigger
                      /\ stage[c] = "second" => Dumping(c)'
    BY <1>0 DEF OwnerInTime, DetectBy, OwnedBy, LastTrigger
  <2>1. /\ t_detect <= OwnedBy
        /\ stage[c] = "second" => Dumping(c)
    BY DEF Deadlines, OwnerInTime
  <2>2. stage[c] \in Owning \cup {"second", "spin"}
    BY DEF DumpIInv, StagesOK
  <2>3. stage[c] \in {"wait1", "report", "hold"} => now + 1 <= t_detect + LastTrigger
    BY <1>0, Times DEF DumpDue, Waited
  <2>4. stage[c] = "second" => now + 1 <= t_detect + LastTrigger + DumpTime
    <3>1. dump_at[c] \in Nat
      BY Times
    <3> QED
      BY <1>0, <1>2, <2>1, <3>1, Times DEF Dumping
  <2>5. stage[c] = "wait2" => now + 1 <= t_detect + Dump2Window
    BY <1>0, Times DEF DumpDue, Waited
  <2>6. stage[c] = "rest" => now + 1 <= t_detect + PanicWindow
    BY <1>0, Times DEF DumpDue
  <2>7. stage[c] # "spin"
    BY <1>0 DEF DumpDue, Due, DumpIInv, StagesOK
  <2>8. now + 1 <= t_detect + PanicWindow
    BY <2>2, <2>3, <2>4, <2>5, <2>6, <2>7, Times DEF Owning, OnTime
  <2> QED
    BY <1>2, <2>1, <2>3, <2>8
<1>4. SecondInTime'
  <2>1. ASSUME trigger, NEW c \in awaited PROVE c \in second_done \/ Dumping(c)'
    <3>1. c \in Threads
      BY DEF DumpIInv, DumpTypeOK
    <3>2. stage[c] \notin {"race", "poll"}
      BY <1>0, <2>1, <3>1 DEF DumpDue
    <3> QED
      BY <1>2, <2>1, <3>1, <3>2 DEF Deadlines, SecondInTime
  <2> QED
    BY <1>0, <2>1 DEF Deadlines, SecondInTime
<1> QED
  BY <1>0, <1>1, <1>3, <1>4, TickDetects DEF Deadlines

LEMMA ClockInTime ==
    ASSUME OnTime, DumpIInv, Deadlines, DumpClock PROVE Deadlines'
<1>1. CASE DumpTick
  BY <1>1, TickInTime
<1>2. ASSUME Bark PROVE FALSE
  <2>1. now >= BarkTime /\ ~Returned
    BY <1>2 DEF Bark, Returned
  <2> QED
    BY <2>1, BeforeBark, Times
<1>3. ASSUME NEW c \in CPU, TimerIrq(c), UNCHANGED dumpVars PROVE Deadlines'
  <2>1. UNCHANGED <<pc, irq, start_jiffies, timed_out, dump_at, now, barked>>
    BY <1>3 DEF TimerIrq, barrierVars, detectVars, haltVars
  <2>2. DetectsInTime'
    BY <2>1 DEF Deadlines, DetectsInTime, Returned, DetectBy
  <2> QED
    BY <1>3, <2>1, <2>2, DetectedInTime DEF Deadlines
<1> QED
  BY <1>1, <1>2, <1>3 DEF DumpClock

(* Every step keeps the inductive invariant.                                 *)
LEMMA DumpNextIInv == DumpIInv /\ [DumpNext]_dvars => DumpIInv'
<1> SUFFICES ASSUME DumpIInv, [DumpNext]_dvars PROVE DumpIInv'
  OBVIOUS
<1>1. IInv' /\ DumpTypeOK'
  BY DumpKeepsIInv, DumpKeepsTypes DEF DumpIInv
<1>2. ASSUME NEW c \in Threads, LoopStep(c) PROVE StagesOK'
  BY <1>2, LoopLeavesDetected, StagesKept DEF DumpIInv
<1>3. ASSUME NEW c \in Threads, DumpStep(c) PROVE StagesOK'
  BY <1>3, DumpStepStages
<1>4. ASSUME DumpClock \/ UNCHANGED dvars PROVE StagesOK'
  <2>1. UNCHANGED <<dumpVars, timed_out, pc, curstate>>
    BY <1>4 DEF DumpClock, DumpTick, Advance, Bark, TimerIrq, dvars, vars, barrierVars,
                detectVars
  <2> QED
    BY <2>1, StagesKept DEF DumpIInv, Detected, Begun
<1>5. ASSUME OnTime PROVE Deadlines'
  <2>0. Deadlines
    BY <1>5 DEF DumpIInv
  <2>1. CASE UNCHANGED dvars
    <3>1. UNCHANGED <<dumpVars, pc, irq, start_jiffies, timed_out, dump_at, now, barked>>
      BY <2>1 DEF dvars, vars, barrierVars, detectVars, clockVars, haltVars
    <3>2. DetectsInTime'
      BY <2>0, <3>1 DEF Deadlines, DetectsInTime, Returned, DetectBy
    <3> QED
      BY <2>0, <3>1, <3>2, DetectedInTime DEF Deadlines
  <2> QED
    BY <1>5, <2>0, <2>1, LoopInTime, DumpStepInTime, ClockInTime DEF DumpNext
<1> QED
  BY <1>1, <1>2, <1>3, <1>4, <1>5 DEF DumpNext, DumpIInv, OnTime

(* The inductive invariant of the staged detector: with the state machine's, *)
(* every thread's flags and slot tell the stages it has been through, it     *)
(* stays in the state it detected in, and one thread orchestrates the dumps. *)
THEOREM DumpInductive == DumpSpec => []DumpIInv
<1> QED
  BY InitDumpIInv, DumpNextIInv, PTL DEF DumpSpec

(* Every snapshot the owner prints has been filled by its thread, and is     *)
(* still true of it: a thread detects in a state it has taken from msdata,   *)
(* fills its slot with it before it makes the slot valid, and stays.         *)
THEOREM SnapshotsStayTrue == DumpSpec => []SnapshotsWhole
<1>1. DumpIInv => SnapshotsWhole
  <2> SUFFICES ASSUME DumpIInv, NEW c \in printed
               PROVE  timed_out[c] /\ reported[c] # NONE /\ reported[c] = curstate[c]
    BY DEF SnapshotsWhole
  <2>1. c \in Threads /\ c \in valid /\ reported[c] = snapshot[c]
    BY DEF DumpIInv, DumpTypeOK, StagesOK
  <2>2. stage[c] # "out" /\ snapshot[c] = curstate[c]
    BY <2>1 DEF DumpIInv, StagesOK
  <2>3. timed_out[c] /\ pc[c] \in {"dump", "panic"}
    BY <2>1, <2>2 DEF DumpIInv, StagesOK
  <2>4. curstate[c] # NONE
    BY <2>1, <2>3 DEF DumpIInv, StagesOK
  <2> QED
    BY <2>1, <2>2, <2>3, <2>4
<1> QED
  BY <1>1, DumpInductive, PTL

(* A detection in PREPARE keeps every callback from running.                 *)
THEOREM NoCallbackAfterDetection == DumpSpec => []DetectionFinal
<1>1. DumpIInv => DetectionFinal
  <2> SUFFICES ASSUME DumpIInv, NEW c \in valid, snapshot[c] = PREPARE, NEW t \in Threads
               PROVE  curstate[t] < RUN /\ pc[t] # "fn"
    BY DEF DetectionFinal
  <2> USE DEF NONE, PREPARE, DISABLE_IRQ, RUN, EXIT
  <2>1. c \in Threads /\ curstate[c] = PREPARE
    BY DEF DumpIInv, DumpTypeOK, StagesOK
  <2>2. state \in {PREPARE, DISABLE_IRQ}
    BY <2>1 DEF DumpIInv, IInv, TypeOK, LockStep
  <2>3. curstate[t] \in {NONE, PREPARE, DISABLE_IRQ}
    BY <2>2 DEF DumpIInv, IInv, TypeOK, LockStep
  <2> QED
    BY <2>3 DEF DumpIInv, IInv, LockStep
<1> QED
  BY <1>1, DumpInductive, PTL

(* On a machine that is on time (OnTime), the panic finds the second dump of *)
(* every thread whose first was over at the trigger, and no other thread     *)
(* than the owner panics.                                                    *)
THEOREM PanicFindsAllDumps == ASSUME OnTime PROVE DumpSpec => []DumpsComplete
<1>1. DumpIInv => DumpsComplete
  BY DEF DumpIInv, StagesOK, Deadlines, SecondInTime, DumpsComplete
<1> QED
  BY <1>1, DumpInductive, PTL

(* There, too, the detector brings the machine down before the watchdog has  *)
(* its turn: the panic follows the start by the timeout, the tick that tells *)
(* it, one dump_stack() and the panic window.                                *)
THEOREM PanicBeforeTheBark == ASSUME OnTime PROVE DumpSpec => []PanicBeforeBark
<1>1. DumpIInv => PanicBeforeBark
  BY DEF DumpIInv, Deadlines, PanicBeforeBark
<1> QED
  BY <1>1, DumpInductive, PTL

(* With the staged detector, too, multi_cpu_stop() implements the abstract   *)
(* barrier: threads that have detected hold the others up and no more.       *)
THEOREM DumpImplementsBarrier == DumpSpec => BarrierSpec
<1>1. DumpInit => Barrier!Init
  BY DEF DumpInit, Init, Barrier!Init, NONE
<1>2. ASSUME IInv, NEW c \in Threads, Step(c) PROVE [Barrier!Next]_(Barrier!vars)
  BY <1>2, StepsBarrier, IInvParts
<1>3. DumpIInv /\ [DumpNext]_dvars => [Barrier!Next]_(Barrier!vars)
  <2> SUFFICES ASSUME DumpIInv, [DumpNext]_dvars PROVE [Barrier!Next]_(Barrier!vars)
    OBVIOUS
  <2>1. ASSUME UNCHANGED curstate, \A t \in Threads : Done(t)' = Done(t)
        PROVE  UNCHANGED Barrier!vars
    BY <2>1 DEF Barrier!vars, Done
  <2>2. ASSUME NEW c \in Threads, LoopStep(c) \/ StagedDetect(c), ~Halted
        PROVE  [Barrier!Next]_(Barrier!vars)
    BY <1>2, <2>2 DEF DumpIInv, LoopStep, StagedDetect, Step
  <2>3. ASSUME NEW c \in Threads, DumpStep(c), ~StagedDetect(c)
        PROVE  UNCHANGED Barrier!vars
    <3>1. UNCHANGED <<pc, curstate>> \/ PanicDue(c)
      BY <2>3 DEF DumpStep, FillSnapshot, Publish, FirstDump, WinOwner, LoseOwner, Poll,
                  WaitFirst, Report, Trigger, SecondDump, WaitSecond, vars, barrierVars
    <3>2. UNCHANGED curstate /\ \A t \in Threads : Done(t)' = Done(t)
      BY <3>1 DEF DumpIInv, IInv, TypeOK, StagesOK, PanicDue, Goto, Done
    <3> QED
      BY <2>1, <3>2
  <2>4. ASSUME DumpClock \/ UNCHANGED dvars PROVE UNCHANGED Barrier!vars
    <3>1. UNCHANGED <<pc, curstate>>
      BY <2>4 DEF DumpClock, DumpTick, Advance, Bark, TimerIrq, dvars, vars, barrierVars
    <3> QED
      BY <3>1, BarrierAtRest
  <2> QED
    BY <2>2, <2>3, <2>4 DEF DumpNext
<1> QED
  BY <1>1, <1>3, DumpInductive, PTL DEF DumpSpec, BarrierSpec, Barrier!Spec
================================================================================
