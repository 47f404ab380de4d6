-------------------------- MODULE StopMachineTest_proofs -------------------------
(***************************************************************************)
(* Proofs about the test module, for any number of CPUs and any test case. *)
(* At any timing, the callbacks that queue nested works leave the lock-step *)
(* of multi_cpu_stop() as it is, and those that wait in a circle wait in   *)
(* vain.  With the times the patch and its tests were given (OnSchedule),  *)
(* each test ends the way it is meant to.                                  *)
(***************************************************************************)
EXTENDS StopMachineTest, StopMachine_proofs, SequenceTheorems, WellFoundedInduction

Fnpcs == {"idle", "queue", "waiting", "delay", "trylock", "finished", "over"}
Works == (1 .. 2) \X CPU

(* The type invariant, without that of StopMachine: the test's parameters,  *)
(* the callback, and what it has queued.                                    *)
ParamsOK   == tc \in Tests /\ do_panic \in Modes /\ target \in Targets
CallbackOK ==
    /\ runner \in {"start", "waiting", "returned", "skipped"}
    /\ fncpu \in CPU /\ fn_start \in 0 .. now /\ fnpc \in Fnpcs
QueuesOK   ==
    /\ works \in [CPU -> Seq(Works)] /\ \A c \in CPU : Len(works[c]) <= 2
    /\ inner_done \subseteq Works /\ wait_failed \in BOOLEAN

Waits == NothingBefore /\ CallbackInFn /\ CircularWait
Parts == LockInv /\ ParamsOK /\ CallbackOK /\ QueuesOK /\ IrqsOffButWaiting /\ Waits

Timed == OnSchedule => Schedule

LEMMA TestParts == Parts /\ Timed => TestIInv
<1> SUFFICES ASSUME Parts, Timed PROVE TestIInv
  OBVIOUS
<1>1. TypeOK /\ LockStep /\ AdvanceAlone /\ AckCountIsMissing /\ SomebodyOwes
  BY DEF Parts, LockInv
<1>2. TestTypeOK
  BY <1>1 DEF Parts, ParamsOK, CallbackOK, QueuesOK, Fnpcs, Works, TestTypeOK
<1> QED
  BY <1>1, <1>2 DEF Parts, Waits, Timed, TestIInv

(* The test starts on a CPU of the machine.                                 *)
LEMMA FirstIsCPU == FirstCPU \in CPU /\ Threads = CPU
BY TestAssumption, StopAssumption DEF FirstCPU

(* What a nesting callback queues on its CPU d: one work or two, all for d. *)
LEMMA NestedWorksType ==
    ASSUME NEW c, NEW d \in CPU, d = NestOn(c)
    PROVE  /\ NestedWorks(c) \in Seq(Works) /\ Len(NestedWorks(c)) <= 2
           /\ NestedWorks(c) # <<>>
<1>1. <<1, d>> \in Works /\ <<2, d>> \in Works
  BY DEF Works
<1>2. CASE tc = 6
  BY <1>1, <1>2 DEF NestedWorks
<1>3. CASE tc # 6
  BY <1>1, <1>3 DEF NestedWorks
<1> QED
  BY <1>2, <1>3

--------------------------------------------------------------------------------
(* The state machine.  While the callback runs inside multi_cpu_stop(), no   *)
(* thread has left it.                                                      *)
LEMMA NobodyDone ==
    ASSUME Parts, UsesMachine, fnpc \notin {"idle", "over"}
    PROVE  /\ fncpu \in Threads /\ pc[fncpu] = "fn"
           /\ \A c \in Threads : pc[c] # "done"
<1>1. fncpu \in Threads /\ pc[fncpu] = "fn"
  BY FirstIsCPU DEF Parts, CallbackOK, Waits, CallbackInFn
<1> QED
  BY <1>1 DEF Parts, LockInv, TypeOK, LockStep, NONE, PREPARE, RUN, EXIT

(* A thread that steps outside its callback leaves the callback alone.      *)
LEMMA MachineStepFn ==
    ASSUME Parts, NEW c \in CPU, MachineStep(c)
    PROVE  /\ c \in Threads /\ Step(c) /\ UNCHANGED testVars
           /\ now' = now /\ \A t \in Threads : pc[t] = "fn" => pc'[t] = "fn"
<1>1. c \in Threads /\ Step(c) /\ UNCHANGED testVars /\ ~(pc[c] = "fn" /\ pc'[c] = "ack")
  BY FirstIsCPU DEF MachineStep
<1>2. now' = now
  BY <1>1 DEF Step, Enter, NewState, SameState, FnReturn, AckDec, ResetAck, SetState, Detect,
     CheckPasses, Restore, BeginBacktrace, EndBacktrace, Panic, clockVars
<1>3. \A t \in Threads \ {c} : pc'[t] = pc[t]
  BY <1>1 DEF Parts, LockInv, TypeOK, Step, Enter, NewState, SameState, FnReturn, AckDec,
     ResetAck, SetState, Detect, CheckPasses, Restore, BeginBacktrace, EndBacktrace, Panic,
     Goto, barrierVars
<1>4. pc[c] # "fn"
  <2>1. SUFFICES ASSUME pc[c] = "fn" PROVE FALSE
    OBVIOUS
  <2>2. FnReturn(c)
    BY <1>1, <2>1 DEF Step, Enter, NewState, SameState, AckDec, ResetAck, SetState, Detect,
       CheckPasses, Restore, BeginBacktrace, EndBacktrace, Panic
  <2> QED
    BY <1>1, <2>2 DEF FnReturn, Goto, Parts, LockInv, TypeOK
<1> QED
  BY <1>1, <1>2, <1>3, <1>4

(* Nobody but the thread that waits gets its interrupts back.               *)
LEMMA IrqsOff == IrqsOffButWaiting <=>
                 \A t \in Threads : OffDuring(t) \/ (HasQueued /\ t = fncpu)
BY DEF IrqsOffButWaiting, OffDuring

LEMMA IrqsOffNext ==
    ASSUME \A t \in Threads : OffDuring(t)' \/ (HasQueued /\ t = fncpu)'
    PROVE  IrqsOffButWaiting'
BY DEF IrqsOffButWaiting, OffDuring

(* The state machine's share of the invariant, over all steps.              *)
LEMMA TestLock ==
    ASSUME Parts, TestNext \/ UNCHANGED allVars PROVE LockInv'
<1> USE DEF Parts
<1>1. CASE UNCHANGED vars
  BY <1>1, StutterLock
<1>2. CASE \E c \in CPU : MachineStep(c)
  BY <1>2, MachineStepFn, StepLock
<1>3. CASE FnEnds /\ UsesMachine
  <2>1. fnpc = "finished" /\ FnReturn(fncpu)
    BY <1>3 DEF FnEnds
  <2>2. fncpu \in Threads /\ Step(fncpu)
    BY <1>3, <2>1, NobodyDone DEF Step
  <2> QED
    BY <2>2, StepLock
<1>4. CASE QueueNested
  <2>1. UNCHANGED <<state, thread_ack, pc, curstate, detectVars, clockVars, haltVars>>
        /\ irq' \in [CPU -> BOOLEAN]
    BY <1>4 DEF QueueNested, LockInv, TypeOK
  <2>2. TypeOK'
    BY <2>1 DEF LockInv, TypeOK, detectVars, clockVars, haltVars
  <2> QED
    BY <2>1, <2>2, QuietStep
<1>5. CASE TestClock
  BY <1>5, ClockLock DEF TestClock
<1> QED
  BY <1>1, <1>2, <1>3, <1>4, <1>5
     DEF TestNext, RunStep, RunTest, RunReturns, CallbackStep, FnBegins, RunNested, WaitDone,
         WaitTimesOut, DelayOver, TryLock, FnEnds, TestOver, allVars
--------------------------------------------------------------------------------
(* The invariant holds at the start.                                        *)
LEMMA InitParts == TestInit => Parts
<1> SUFFICES ASSUME TestInit PROVE Parts
  OBVIOUS
<1>1. LockInv /\ \A t \in Threads : OffDuring(t)
  BY InitIInv, IInvParts DEF TestInit
<1>2. runner = "start" /\ fncpu = FirstCPU /\ fnpc = "idle" /\ fn_start = 0 /\ now = 0
  BY DEF TestInit, Init
<1>3. ParamsOK /\ CallbackOK
  BY <1>2, FirstIsCPU DEF TestInit, ParamsOK, CallbackOK, Fnpcs
<1>6. QueuesOK
  <2>1. works = [c \in CPU |-> <<>>] /\ inner_done = {} /\ wait_failed = FALSE
    BY DEF TestInit
  <2>2. works \in [CPU -> Seq(Works)]
    BY <2>1
  <2>3. \A c \in CPU : Len(works[c]) <= 2
    BY <2>1
  <2> QED
    BY <2>1, <2>2, <2>3 DEF QueuesOK
<1>4. IrqsOffButWaiting
  BY <1>1, IrqsOff
<1>5. Waits
  BY <1>2 DEF TestInit, Waits, NothingBefore, CallbackInFn, CircularWait, HasQueued
<1> QED
  BY <1>1, <1>3, <1>4, <1>5, <1>6 DEF Parts

(* The parameters do not change, and a step of the callback moves it along  *)
(* its case of the test.                                                    *)
LEMMA ParamsKept ==
    ASSUME TestNext \/ UNCHANGED allVars
    PROVE  UNCHANGED <<tc, do_panic, target>>
BY DEF TestNext, RunStep, RunTest, RunReturns, CallbackStep, FnBegins, RunNested, QueueNested,
       WaitDone, WaitTimesOut, DelayOver, TryLock, FnEnds, TestClock, MachineStep, TestOver,
       testVars, allVars

(* Time does not run backwards.                                             *)
LEMMA NowGrows ==
    ASSUME Parts, TestNext \/ UNCHANGED allVars
    PROVE  now \in Nat /\ now' \in Nat /\ now' >= now /\ jiffies \in 0 .. now
<1>1. now \in Nat /\ jiffies \in 0 .. now
  BY DEF Parts, LockInv, TypeOK
<1>2. CASE UNCHANGED now
  BY <1>1, <1>2
<1>3. CASE \E c \in CPU : MachineStep(c)
  BY <1>1, <1>3, MachineStepFn
<1>4. CASE TestClock
  BY <1>1, <1>4 DEF TestClock, Advance, TimerIrq, Bark, clockVars
<1> QED
  BY <1>2, <1>3, <1>4 DEF TestNext, RunStep, RunTest, RunReturns, CallbackStep, FnBegins,
     RunNested, QueueNested, WaitDone, WaitTimesOut, DelayOver, TryLock, FnEnds, FnReturn,
     TestOver, allVars, vars, clockVars

(* The callback and the runner stay where they can be.                      *)
LEMMA CallbackType ==
    ASSUME Parts, TestNext \/ UNCHANGED allVars PROVE CallbackOK'
<1>1. now \in Nat /\ now' \in Nat /\ now' >= now /\ jiffies \in 0 .. now
  BY NowGrows
<1>2. CASE \E c \in CPU : FnBegins(c)
  <2>1. PICK c \in CPU : FnBegins(c)
    BY <1>2
  <2>2. fn_start' \in 0 .. now'
    BY <1>1, <2>1 DEF FnBegins, vars, clockVars
  <2>3. fncpu' = c /\ fnpc' \in Fnpcs /\ runner' = runner
    <3>1. tc \in Nesting \cup Delaying \cup Locking \cup Returning
      BY TestAssumption DEF Parts, ParamsOK, Nesting, SelfNested, CrossNested, Delaying, Locking,
         Returning
    <3> QED
      BY <2>1, <3>1 DEF FnBegins, Fnpcs
  <2> QED
    BY <2>1, <2>2, <2>3 DEF Parts, CallbackOK
<1>3. CASE UNCHANGED <<fncpu, fn_start>> /\ runner' \in {runner, "waiting", "skipped", "returned"}
           /\ fnpc' \in Fnpcs
  BY <1>1, <1>3 DEF Parts, CallbackOK
<1> QED
  BY <1>2, <1>3 DEF TestNext, RunStep, RunTest, RunReturns, CallbackStep, RunNested, QueueNested,
     WaitDone, WaitTimesOut, DelayOver, TryLock, FnEnds, TestClock, MachineStep, TestOver, fnVars,
     testVars, allVars, Fnpcs, Parts, CallbackOK

(* A stopper runs a nested work: it was queued, and is now done.            *)
LEMMA RunNestedType ==
    ASSUME Parts, NEW c \in CPU, RunNested(c) PROVE QueuesOK'
<1>1. works[c] \in Seq(Works) /\ works[c] # <<>> /\ Len(works[c]) <= 2
  BY DEF Parts, QueuesOK, RunNested
<1>2. Head(works[c]) \in Works /\ Tail(works[c]) \in Seq(Works) /\ Len(Tail(works[c])) <= 2
  BY <1>1
<1>3. works' = [works EXCEPT ![c] = Tail(works[c])]
      /\ inner_done' = inner_done \cup {Head(works[c])} /\ wait_failed' = wait_failed
  BY DEF RunNested
<1> QED
  BY <1>2, <1>3 DEF Parts, QueuesOK

(* The callback queues its works on empty lists.                            *)
LEMMA QueueNestedType ==
    ASSUME Parts, QueueNested PROVE QueuesOK' /\ AllPending' /\ inner_done' = {}
<1>1. /\ \A c \in CPU : works[c] = <<>>
      /\ inner_done = {} /\ inner_done' = {} /\ wait_failed' = wait_failed
      /\ tc' = tc /\ target' = target /\ fncpu' = fncpu
  BY DEF Parts, Waits, NothingBefore, HasQueued, QueueNested
<1>2. works' = [works EXCEPT ![NestOn(fncpu)] = works[NestOn(fncpu)] \o NestedWorks(fncpu)]
      /\ works \in [CPU -> Seq(Works)]
  BY DEF QueueNested, Parts, QueuesOK
<1>3. NestOn(fncpu)' = NestOn(fncpu) /\ NestedWorks(fncpu)' = NestedWorks(fncpu)
  BY <1>1 DEF NestOn, NestedWorks, RingNext, HasNext, NextCPU
<1>4. \A c \in CPU : c = NestOn(fncpu)
        => works'[c] = NestedWorks(fncpu) /\ works'[c] \in Seq(Works) /\ Len(works'[c]) <= 2
  <2>1. SUFFICES ASSUME NEW c \in CPU, c = NestOn(fncpu)
                 PROVE  /\ works'[c] = NestedWorks(fncpu)
                        /\ works'[c] \in Seq(Works) /\ Len(works'[c]) <= 2
    OBVIOUS
  <2>2. NestedWorks(fncpu) \in Seq(Works) /\ Len(NestedWorks(fncpu)) <= 2
    BY <2>1, NestedWorksType
  <2>3. works'[c] = works[c] \o NestedWorks(fncpu)
    BY <1>2, <2>1
  <2>4. works'[c] = NestedWorks(fncpu)
    <3>1. <<>> \o NestedWorks(fncpu) = NestedWorks(fncpu)
      BY <2>2, ConcatEmptySeq, Zenon
    <3>2. works[c] = <<>>
      BY <1>1
    <3> QED
      BY <2>3, <3>1, <3>2, Zenon
  <2> QED
    BY <2>2, <2>4, Zenon
<1>5. \A c \in CPU : c # NestOn(fncpu) => works'[c] = <<>>
  BY <1>1, <1>2
<1>6. AllPending'
  BY <1>3, <1>4, <1>5 DEF AllPending
<1>7. works' \in [CPU -> Seq(Works)] /\ \A c \in CPU : Len(works'[c]) <= 2
  <2>1. \A c \in CPU : works'[c] \in Seq(Works) /\ Len(works'[c]) <= 2
    <3>1. <<>> \in Seq(Works) /\ Len(<<>>) <= 2
      BY EmptySeq
    <3> QED
      BY <1>4, <1>5, <3>1
  <2>2. works' = [c \in CPU |-> works'[c]]
    BY <1>2
  <2> QED
    BY <2>1, <2>2
<1> QED
  BY <1>1, <1>6, <1>7 DEF QueuesOK, Parts

LEMMA QueuesType ==
    ASSUME Parts, TestNext \/ UNCHANGED allVars PROVE QueuesOK'
<1>1. CASE QueueNested
  BY <1>1, QueueNestedType
<1>2. CASE \E c \in CPU : RunNested(c)
  BY <1>2, RunNestedType
<1>3. CASE UNCHANGED <<works, inner_done>> /\ wait_failed' \in BOOLEAN
  BY <1>3 DEF Parts, QueuesOK
<1> QED
  BY <1>1, <1>2, <1>3 DEF TestNext, RunStep, RunTest, RunReturns, CallbackStep, FnBegins,
     WaitDone, WaitTimesOut, DelayOver, TryLock, FnEnds, TestClock, MachineStep, TestOver, fnVars,
     testVars, allVars, Parts, QueuesOK

(* Only the thread whose callback waits gets its interrupts back.           *)
LEMMA IrqsKept ==
    ASSUME Parts, TestNext \/ UNCHANGED allVars PROVE IrqsOffButWaiting'
<1>1. \A t \in Threads : OffDuring(t) \/ (HasQueued /\ t = fncpu)
  BY IrqsOff DEF Parts
<1>2. tc' = tc
  BY ParamsKept
<1> SUFFICES ASSUME NEW t \in Threads PROVE OffDuring(t)' \/ (HasQueued /\ t = fncpu)'
  BY IrqsOffNext
<1>3. CASE \E c \in CPU : MachineStep(c)
  <2>1. PICK c \in Threads : Step(c) /\ UNCHANGED testVars
    BY <1>3, MachineStepFn
  <2> QED
    BY <1>1, <2>1, StepIrqs DEF Parts, HasQueued, testVars, fnVars
<1>4. CASE FnEnds /\ UsesMachine
  <2>1. fncpu \in Threads /\ Step(fncpu) /\ fncpu' = fncpu /\ (HasQueued => HasQueued')
    BY <1>2, <1>4, NobodyDone DEF FnEnds, Step, HasQueued
  <2> QED
    BY <1>1, <2>1, StepIrqs DEF Parts
<1>5. CASE QueueNested
  <2>1. /\ irq' = [irq EXCEPT ![fncpu] = TRUE] /\ UNCHANGED <<pc, curstate>>
        /\ fncpu' = fncpu /\ HasQueued' /\ ~HasQueued
    BY <1>5 DEF QueueNested, HasQueued, Parts, Waits, NothingBefore
  <2> QED
    BY <1>1, <2>1 DEF OffDuring, Parts, LockInv, TypeOK
<1>6. CASE UNCHANGED <<irq, pc, curstate>> /\ (HasQueued => HasQueued' /\ fncpu' = fncpu)
  BY <1>1, <1>6 DEF OffDuring
<1>7. CASE UNCHANGED vars /\ ~QueueNested
  <2>1. HasQueued => HasQueued' /\ fncpu' = fncpu
    BY <1>2, <1>7 DEF HasQueued, TestNext, RunStep, RunTest, RunReturns, CallbackStep, FnBegins,
       RunNested, WaitDone, WaitTimesOut, DelayOver, TryLock, FnEnds, TestClock, MachineStep,
       TestOver, fnVars, testVars, allVars
  <2> QED
    BY <1>6, <1>7, <2>1 DEF vars, barrierVars
<1>8. CASE TestClock
  BY <1>1, <1>8, ClockLock DEF TestClock, Parts, barrierVars, OffDuring, HasQueued, testVars, fnVars
<1> QED
  BY <1>3, <1>4, <1>5, <1>7, <1>8 DEF TestNext, RunStep, RunTest, RunReturns, CallbackStep,
     FnBegins, RunNested, WaitDone, WaitTimesOut, DelayOver, TryLock, FnEnds, TestOver, allVars
--------------------------------------------------------------------------------
(* The circular wait.  What was pending stays what is pending.              *)
LEMMA PendingKept ==
    ASSUME AllPending, UNCHANGED <<works, tc, target, fncpu>> PROVE AllPending'
BY DEF AllPending, NestOn, NestedWorks, RingNext, HasNext, NextCPU

(* The callback in front of its wait: nothing is queued yet.                *)
LEMMA FnBeginsWaits ==
    ASSUME Parts, NEW c \in CPU, FnBegins(c) PROVE Waits'
<1>1. /\ fnpc = "idle" /\ ~HasQueued /\ inner_done = {} /\ \A d \in CPU : works[d] = <<>>
      /\ tc' = tc /\ do_panic' = do_panic /\ inner_done' = inner_done /\ works' = works
      /\ runner = "waiting" /\ runner' = runner /\ pc' = pc /\ fncpu' = c
      /\ (UsesMachine => pc[c] = "fn")
  BY DEF FnBegins, Parts, Waits, NothingBefore, HasQueued, vars, barrierVars
<1>2. IF tc \in Nesting THEN fnpc' = "queue" ELSE fnpc' \in {"delay", "trylock", "finished"}
  <2>1. tc \in Nesting \cup Delaying \cup Locking \cup Returning
    BY TestAssumption DEF Parts, ParamsOK, Nesting, SelfNested, CrossNested, Delaying, Locking,
       Returning
  <2> QED
    BY <2>1 DEF FnBegins, Nesting, SelfNested, CrossNested, Delaying, Locking, Returning
<1>3. NothingBefore'
  BY <1>1, <1>2 DEF NothingBefore, HasQueued
<1>4. CallbackInFn'
  BY <1>1 DEF CallbackInFn, UsesMachine
<1>5. CircularWait'
  BY <1>1, <1>2 DEF CircularWait
<1> QED
  BY <1>3, <1>4, <1>5 DEF Waits

LEMMA QueueNestedWaits ==
    ASSUME Parts, QueueNested PROVE Waits'
<1>1. AllPending' /\ inner_done' = {}
  BY QueueNestedType
<1>2. /\ fnpc = "queue" /\ fnpc' = "waiting" /\ tc \in Nesting
      /\ UNCHANGED <<tc, do_panic, runner, fncpu, pc>>
  BY DEF QueueNested, Parts, Waits, NothingBefore
<1>3. NothingBefore' /\ CircularWait'
  BY <1>1, <1>2 DEF NothingBefore, HasQueued, CircularWait
<1>4. CallbackInFn'
  BY <1>2 DEF Parts, Waits, CallbackInFn, UsesMachine
<1> QED
  BY <1>3, <1>4 DEF Waits

(* No stopper takes a nested work while the circle stands: in MODE B none   *)
(* has left multi_cpu_stop(), in MODE A its own is inside the callback.     *)
LEMMA NestedNotTaken ==
    ASSUME Parts, NEW c \in CPU, RunNested(c), tc \in Nesting, do_panic \/ tc \in SelfNested
    PROVE  HasQueued /\ fnpc \notin {"waiting", "finished"}
<1>1. works[c] # <<>> /\ StopperFree(c)
  BY DEF RunNested
<1>2. HasQueued
  BY <1>1 DEF Parts, Waits, NothingBefore
<1>3. SUFFICES ASSUME fnpc \in {"waiting", "finished"} PROVE FALSE
  BY <1>2
<1>4. CASE UsesMachine
  BY <1>1, <1>3, <1>4, NobodyDone, FirstIsCPU DEF StopperFree
<1>5. CASE ~UsesMachine
  <2>1. c # fncpu /\ NestOn(fncpu) = fncpu
    BY <1>1, <1>3, <1>5 DEF StopperFree, UsesMachine, NestOn, SelfNested
  <2>2. AllPending
    BY <1>3 DEF Parts, Waits, CircularWait
  <2> QED
    BY <1>1, <2>1, <2>2 DEF AllPending
<1> QED
  BY <1>4, <1>5

LEMMA RunNestedWaits ==
    ASSUME Parts, NEW c \in CPU, RunNested(c) PROVE Waits'
<1>1. /\ works[c] # <<>>
      /\ UNCHANGED <<vars, tc, do_panic, runner, fncpu, fnpc, wait_failed>>
  BY DEF RunNested
<1>2. NothingBefore'
  BY <1>1 DEF Parts, Waits, NothingBefore, HasQueued
<1>3. CallbackInFn'
  BY <1>1 DEF Parts, Waits, CallbackInFn, UsesMachine, vars, barrierVars
<1>4. CircularWait'
  BY <1>1, NestedNotTaken DEF Parts, Waits, CircularWait
<1> QED
  BY <1>2, <1>3, <1>4 DEF Waits

(* So the callback that waits in the circle can only time out.              *)
LEMMA WaitEnds ==
    ASSUME Parts, WaitDone \/ WaitTimesOut PROVE Waits'
<1>1. /\ fnpc = "waiting" /\ fnpc' = "finished" /\ runner' = runner /\ pc' = pc
      /\ UNCHANGED <<tc, do_panic, target, fncpu, works, inner_done>>
  BY DEF WaitDone, WaitTimesOut, vars, barrierVars
<1>2. NothingBefore' /\ CallbackInFn'
  BY <1>1 DEF Parts, Waits, NothingBefore, HasQueued, CallbackInFn, UsesMachine
<1>3. CircularWait'
  <2>1. SUFFICES ASSUME tc \in Nesting, do_panic \/ tc \in SelfNested
                 PROVE  AllPending' /\ inner_done' = {} /\ wait_failed'
    BY <1>1 DEF CircularWait
  <2>2. AllPending /\ inner_done = {}
    BY <1>1, <2>1 DEF Parts, Waits, CircularWait
  <2>3. wait_failed'
    BY <2>2 DEF WaitDone, WaitTimesOut
  <2> QED
    BY <1>1, <2>2, <2>3, PendingKept
<1> QED
  BY <1>2, <1>3 DEF Waits

LEMMA WaitsKept ==
    ASSUME Parts, TestNext \/ UNCHANGED allVars PROVE Waits'
<1>1. CASE \E c \in CPU : FnBegins(c)
  BY <1>1, FnBeginsWaits
<1>2. CASE QueueNested
  BY <1>2, QueueNestedWaits
<1>3. CASE \E c \in CPU : RunNested(c)
  BY <1>3, RunNestedWaits
<1>4. CASE WaitDone \/ WaitTimesOut
  BY <1>4, WaitEnds
<1>5. CASE DelayOver \/ TryLock
  <2>1. /\ fnpc \in {"delay", "trylock"} /\ tc \notin Nesting /\ fnpc' \in {"trylock", "finished"}
        /\ UNCHANGED <<vars, tc, do_panic, runner, fncpu, works, inner_done>>
    BY <1>5 DEF DelayOver, TryLock, Parts, Waits, NothingBefore
  <2> QED
    BY <2>1 DEF Parts, Waits, NothingBefore, HasQueued, CallbackInFn, UsesMachine, CircularWait,
       vars, barrierVars
<1>6. CASE FnEnds
  <2>1. /\ fnpc = "finished" /\ fnpc' = "over"
        /\ UNCHANGED <<tc, works, inner_done, wait_failed, do_panic>>
    BY <1>6 DEF FnEnds
  <2> QED
    BY <2>1 DEF Parts, Waits, NothingBefore, HasQueued, CallbackInFn, CircularWait
<1>7. CASE RunStep
  <2>1. UNCHANGED <<vars, tc, do_panic, target, fnVars>> /\ (runner' = "waiting" \/ fnpc \in {"idle", "over"})
    <3>1. CASE RunTest
      BY <3>1 DEF RunTest, Parts, Waits, CallbackInFn
    <3>2. CASE RunReturns
      <4>1. CASE UsesMachine
        BY <3>2, <4>1, NobodyDone DEF RunReturns, Returned
      <4>2. CASE ~UsesMachine
        BY <3>2, <4>2 DEF RunReturns
      <4> QED
        BY <3>2, <4>1, <4>2 DEF RunReturns
    <3> QED
      BY <1>7, <3>1, <3>2 DEF RunStep
  <2> QED
    BY <2>1, PendingKept DEF Parts, Waits, NothingBefore, HasQueued, CallbackInFn, UsesMachine,
       CircularWait, fnVars, vars, barrierVars
<1>8. CASE UNCHANGED testVars /\ \A t \in Threads : pc[t] = "fn" => pc'[t] = "fn"
  BY <1>8, PendingKept, FirstIsCPU DEF Parts, CallbackOK, Waits, NothingBefore, HasQueued,
     CallbackInFn, UsesMachine, CircularWait, fnVars, testVars
<1>9. CASE \E c \in CPU : MachineStep(c)
  BY <1>8, <1>9, MachineStepFn
<1>10. CASE TestClock
  BY <1>8, <1>10, ClockLock DEF TestClock, Parts, barrierVars
<1>11. CASE UNCHANGED allVars
  BY <1>8, <1>11 DEF allVars, vars, barrierVars
<1> QED
  BY <1>1, <1>2, <1>3, <1>4, <1>5, <1>6, <1>7, <1>9, <1>10, <1>11
     DEF TestNext, CallbackStep, TestOver

(* Parts is inductive.                                                      *)
LEMMA NextParts == Parts /\ [TestNext]_allVars => Parts'
BY TestLock, ParamsKept, CallbackType, QueuesType, IrqsKept, WaitsKept DEF Parts, ParamsOK

--------------------------------------------------------------------------------
(* On schedule.  The neighbour of a CPU is one, and another one.            *)
LEMMA MinIsLeast ==
    ASSUME NEW S, S \subseteq Nat, S # {} PROVE Min(S) \in S /\ \A d \in S : Min(S) <= d
<1> DEFINE R == {ss \in Nat \X Nat : ss[1] < ss[2]}
<1>1. IsWellFoundedOn(R, Nat)
  BY NatLessThanWellFounded DEF OpToRel
<1>2. \E x \in S : \A y \in S : ~ (<<y, x>> \in R)
  <2> HIDE DEF R
  <2> QED
    BY <1>1, WFMin
<1>3. \E x \in S : \A y \in S : x <= y
  <2>1. PICK x \in S : \A y \in S : ~ (<<y, x>> \in R)
    BY <1>2
  <2>2. ASSUME NEW y \in S PROVE x <= y
    <3>1. x \in Nat /\ y \in Nat /\ ~ (<<y, x>> \in R)
      BY <2>1
    <3>2. ~ (y < x)
      BY <3>1
    <3> QED
      BY <3>1, <3>2
  <2> QED
    BY <2>2
<1> QED
  BY <1>3 DEF Min

LEMMA NextIsCPU == ASSUME NEW c \in CPU, HasNext(c) PROVE NextCPU(c) \in CPU \ {c}
<1> DEFINE S == {d \in CPU : d > c}
<1>1. S \subseteq Nat /\ S # {}
  BY TestAssumption DEF HasNext
<1>2. NextCPU(c) \in S
  <2> HIDE DEF S
  <2>1. Min(S) \in S
    BY <1>1, MinIsLeast
  <2> QED
    BY <2>1 DEF NextCPU, S
<1> QED
  BY <1>2, TestAssumption

LEMMA FirstHasNext == ASSUME InTime PROVE HasNext(FirstCPU)
<1>1. FirstCPU \in CPU /\ \A d \in CPU : FirstCPU <= d
  BY MinIsLeast, TestAssumption DEF FirstCPU
<1>2. PICK d \in CPU : d # FirstCPU
  BY DEF InTime
<1> QED
  BY <1>1, <1>2, TestAssumption DEF HasNext

(* One thread's step leaves the clock and the other threads alone.          *)
LEMMA StepFrame ==
    ASSUME LockInv, NEW c \in Threads, Step(c)
    PROVE  /\ UNCHANGED <<jiffies, now, barked>>
           /\ \A t \in Threads : pc[t] = "done" => pc'[t] = "done"
           /\ \A t \in Threads : curstate'[t] >= curstate[t]
           /\ \A t \in Threads \ {c} :
                 /\ pc'[t] = pc[t] /\ timed_out'[t] = timed_out[t]
                 /\ start_jiffies'[t] = start_jiffies[t] /\ (irq[t] => irq'[t])
<1> USE DEF LockInv, TypeOK, Goto
<1>1. UNCHANGED <<jiffies, now, barked>>
  BY DEF Step, Enter, NewState, SameState, FnReturn, AckDec, ResetAck, SetState, Detect,
     CheckPasses, Restore, BeginBacktrace, EndBacktrace, Panic, clockVars, haltVars
<1>2. \A t \in Threads \ {c} :
         /\ pc'[t] = pc[t] /\ timed_out'[t] = timed_out[t]
         /\ start_jiffies'[t] = start_jiffies[t] /\ (irq[t] => irq'[t])
  BY StopAssumption DEF Step, Enter, NewState, SameState, FnReturn, AckDec, ResetAck, SetState,
     Detect, CheckPasses, Restore, BeginBacktrace, EndBacktrace, Panic, detectVars, barrierVars
<1>3. pc[c] # "done"
  BY DEF Step, Enter, NewState, SameState, FnReturn, AckDec, ResetAck, SetState, Detect,
     CheckPasses, Restore, BeginBacktrace, EndBacktrace, Panic
<1>4. \A t \in Threads : curstate'[t] >= curstate[t]
  <2>1. CASE NewState(c)
    BY <2>1 DEF NewState, LockStep, NONE, PREPARE, EXIT
  <2>2. CASE UNCHANGED curstate
    BY <2>2 DEF NONE, EXIT
  <2> QED
    BY <2>1, <2>2 DEF Step, Enter, SameState, FnReturn, AckDec, ResetAck, SetState, Detect,
       CheckPasses, Restore, BeginBacktrace, EndBacktrace, Panic, barrierVars
<1> QED
  BY <1>1, <1>2, <1>3, <1>4

(* Every step of the specification either is one thread's, or leaves all    *)
(* threads where they are.                                                  *)
LEMMA StepOrNot ==
    ASSUME Parts, TestNext \/ UNCHANGED allVars
    PROVE  \/ \E c \in Threads : Step(c)
           \/ /\ UNCHANGED <<state, pc, curstate, detectVars, panicked>>
              /\ \A t \in Threads : irq[t] => irq'[t]
<1>1. CASE \E c \in CPU : MachineStep(c)
  BY <1>1, MachineStepFn
<1>2. CASE FnEnds /\ UsesMachine
  <2>1. fncpu \in Threads /\ Step(fncpu)
    BY <1>2, NobodyDone DEF FnEnds, Step
  <2> QED
    BY <2>1
<1>3. CASE UNCHANGED vars
  BY <1>3 DEF vars, barrierVars, haltVars
<1>4. CASE QueueNested
  BY <1>4, FirstIsCPU DEF QueueNested, haltVars, Parts, LockInv, TypeOK
<1>5. CASE TestClock
  BY <1>5 DEF TestClock, Advance, TimerIrq, Bark, barrierVars, haltVars
<1> QED
  BY <1>1, <1>2, <1>3, <1>4, <1>5
     DEF TestNext, RunStep, RunTest, RunReturns, CallbackStep, FnBegins, RunNested, WaitDone,
         WaitTimesOut, DelayOver, TryLock, FnEnds, TestOver, allVars

(* Who detects has seen the threshold pass, and goes through the dump.      *)
LEMMA StepDetects ==
    ASSUME LockInv, DetectsOnce, NEW c \in Threads, Step(c) PROVE DetectsOnce'
<1> DEFINE InDump == {"dump", "backtrace", "panic"}
<1>1. /\ pc \in [Threads -> PcValues] /\ timed_out \in [Threads -> BOOLEAN]
      /\ now \in Nat /\ jiffies \in 0 .. now /\ start_jiffies \in [Threads -> Nat]
      /\ Timeout \in Nat /\ now' = now
      /\ \A t \in Threads \ {c} : pc'[t] = pc[t] /\ timed_out'[t] = timed_out[t]
  BY StepFrame, StopAssumption DEF LockInv, TypeOK
<1>2. CASE Detect(c)
  <2>1. /\ pc'[c] = "dump" /\ timed_out'[c] /\ now > Timeout
        /\ pc[c] = "check"
    BY <1>1, <1>2 DEF Detect, Goto, Fires, Expired
  <2> QED
    BY <1>1, <2>1 DEF DetectsOnce
<1>3. CASE BeginBacktrace(c)
  <2>1. /\ pc[c] = "dump" /\ timed_out' = timed_out
        /\ \/ pc'[c] = "panic"
           \/ pc'[c] = "backtrace" /\ \A t \in Threads : pc[t] # "backtrace"
    BY <1>1, <1>3 DEF BeginBacktrace, Goto
  <2> QED
    BY <1>1, <2>1 DEF DetectsOnce
<1>4. CASE EndBacktrace(c)
  <2>1. /\ pc[c] = "backtrace" /\ pc'[c] = "panic" /\ timed_out' = timed_out
    BY <1>1, <1>4 DEF EndBacktrace, Goto, detectVars
  <2> QED
    BY <1>1, <2>1 DEF DetectsOnce
<1>5. CASE Panic(c)
  BY <1>1, <1>5 DEF Panic, barrierVars, detectVars, DetectsOnce
<1>6. CASE /\ pc[c] \notin InDump /\ pc'[c] \notin InDump
           /\ timed_out' = timed_out
  BY <1>1, <1>6 DEF DetectsOnce
<1>7. CASE Enter(c) \/ NewState(c) \/ SameState(c) \/ FnReturn(c) \/ AckDec(c) \/ ResetAck(c)
           \/ SetState(c) \/ CheckPasses(c) \/ Restore(c)
  <2>1. timed_out' = timed_out /\ pc[c] \notin InDump
    BY <1>7 DEF Enter, NewState, SameState, FnReturn, AckDec, ResetAck, SetState, CheckPasses,
       Restore, detectVars
  <2>2. pc'[c] \notin InDump
    BY <1>1, <1>7 DEF Enter, NewState, SameState, FnReturn, AckDec, ResetAck, SetState,
       CheckPasses, Restore, Goto
  <2> QED
    BY <1>6, <2>1, <2>2
<1> QED
  BY <1>2, <1>3, <1>4, <1>5, <1>7 DEF Step

LEMMA DetectsKept ==
    ASSUME Parts, DetectsOnce, TestNext \/ UNCHANGED allVars PROVE DetectsOnce'
<1>1. CASE \E c \in Threads : Step(c)
  BY <1>1, StepDetects DEF Parts
<1>2. CASE UNCHANGED <<state, pc, curstate, detectVars, panicked>>
  <2>1. now' >= now /\ now \in Nat /\ now' \in Nat /\ Timeout \in Nat
    BY NowGrows, StopAssumption
  <2> QED
    BY <1>2, <2>1 DEF DetectsOnce, detectVars
<1> QED
  BY <1>1, <1>2, StepOrNot

(* While the callback has not begun, or has yet to queue its works, there   *)
(* is something to do at once: time stands still.                           *)
LEMMA StartIsUrgent ==
    ASSUME Parts, Wedged = {}, StartsAtOnce, DetectsOnce,
           runner \in {"start", "waiting"}, fnpc \in {"idle", "queue"}
    PROVE  TestUrgent
<1>1. CASE runner = "start" \/ fnpc = "queue" \/ ~UsesMachine
  BY <1>1 DEF TestUrgent
<1>2. CASE runner = "waiting" /\ fnpc = "idle" /\ UsesMachine
  <2>1. Machine /\ now = 0 /\ Threads = CPU /\ Timeout \in Nat
    BY <1>2, FirstIsCPU, StopAssumption DEF Machine, StartsAtOnce
  <2>2. HangHasCause
    BY NobodyStuck DEF Parts
  <2>3. \A c \in Threads : pc[c] # "backtrace"
    BY <2>1 DEF DetectsOnce
  <2> QED
    BY <1>2, <2>1, <2>2, <2>3 DEF HangHasCause, TestUrgent
<1> QED
  BY <1>1, <1>2

(* A step that comes to the start was there before.                         *)
LEMMA StartOnly ==
    ASSUME Parts, TestNext \/ UNCHANGED allVars
    PROVE  /\ runner' \in {"start", "waiting"} => runner \in {"start", "waiting"}
           /\ fnpc' \in {"idle", "queue"} => fnpc \in {"idle", "queue"}
           /\ fnpc' = "queue" => tc \in Nesting
<1>1. fnpc' = "queue" => fnpc = "queue" \/ \E c \in CPU : FnBegins(c)
  BY DEF TestNext, RunStep, RunTest, RunReturns, CallbackStep, RunNested, QueueNested, WaitDone,
     WaitTimesOut, DelayOver, TryLock, FnEnds, TestClock, MachineStep, TestOver, fnVars, testVars,
     allVars
<1>2. \A c \in CPU : FnBegins(c) => fnpc = "idle" /\ (fnpc' = "queue" => tc \in Nesting)
  <2>1. tc \in Nesting \cup Delaying \cup Locking \cup Returning
    BY TestAssumption DEF Parts, ParamsOK, Nesting, SelfNested, CrossNested, Delaying, Locking,
       Returning
  <2> QED
    BY <2>1 DEF FnBegins
<1>3. fnpc' = "idle" => fnpc = "idle"
  BY DEF TestNext, RunStep, RunTest, RunReturns, CallbackStep, FnBegins, RunNested, QueueNested,
     WaitDone, WaitTimesOut, DelayOver, TryLock, FnEnds, TestClock, MachineStep, TestOver, fnVars,
     testVars, allVars
<1>4. runner' \in {"start", "waiting"} => runner \in {"start", "waiting"}
  BY DEF TestNext, RunStep, RunTest, RunReturns, CallbackStep, FnBegins, RunNested, QueueNested,
     WaitDone, WaitTimesOut, DelayOver, TryLock, FnEnds, TestClock, MachineStep, TestOver, fnVars,
     testVars, allVars
<1> QED
  BY <1>1, <1>2, <1>3, <1>4 DEF Parts, Waits, NothingBefore

(* What the clock does, and when.                                           *)
LEMMA ClockMoves ==
    ASSUME Parts, TestNext \/ UNCHANGED allVars
    PROVE  /\ now' # now => ~TestUrgent /\ Advance /\ UNCHANGED testVars
           /\ jiffies' # jiffies => /\ \E c \in CPU : irq[c]
                                   /\ jiffies' = now /\ now' = now /\ UNCHANGED testVars
           /\ barked' # barked => Machine /\ now >= BarkTime /\ UNCHANGED testVars
<1>1. CASE \E c \in Threads : Step(c)
  BY <1>1, StepFrame DEF Parts
<1>2. CASE UNCHANGED clockVars /\ UNCHANGED haltVars
  BY <1>2 DEF clockVars, haltVars
<1>3. CASE TestClock
  BY <1>3 DEF TestClock, Advance, TimerIrq, Bark, haltVars, clockVars
<1>4. CASE FnEnds /\ UsesMachine
  <2>1. fncpu \in Threads /\ Step(fncpu)
    BY <1>4, NobodyDone DEF FnEnds, Step
  <2> QED
    BY <1>1, <2>1
<1>5. CASE \E c \in CPU : MachineStep(c)
  BY <1>1, <1>5, MachineStepFn
<1> QED
  BY <1>2, <1>3, <1>4, <1>5
     DEF TestNext, RunStep, RunTest, RunReturns, CallbackStep, FnBegins, RunNested, QueueNested,
         WaitDone, WaitTimesOut, DelayOver, TryLock, FnEnds, TestOver, allVars, vars

LEMMA StartKept ==
    ASSUME Parts, Wedged = {}, StartsAtOnce, DetectsOnce, TestNext \/ UNCHANGED allVars
    PROVE  StartsAtOnce'
BY StartOnly, StartIsUrgent, ClockMoves DEF StartsAtOnce

(* A callback that does not wait keeps every CPU's interrupts off.          *)
LEMMA IrqsOffInRun ==
    ASSUME Parts, UsesMachine, ClockStands, runner \in {"start", "waiting"}, tc \notin Nesting,
           fnpc \notin {"idle", "queue"}, \A t \in Threads : pc[t] # "done"
    PROVE  \A c \in CPU : ~irq[c]
<1> USE DEF NONE, PREPARE, DISABLE_IRQ, RUN, EXIT
<1>1. fncpu \in Threads /\ Threads = CPU
  BY FirstIsCPU DEF Parts, CallbackOK
<1>2. curstate[fncpu] >= RUN
  <2>1. CASE fnpc = "over"
    BY <2>1 DEF ClockStands
  <2>2. CASE fnpc # "over"
    BY <1>1, <2>2 DEF Parts, Waits, CallbackInFn, LockInv, LockStep
  <2> QED
    BY <2>1, <2>2
<1>3. \A t \in Threads : curstate[t] >= DISABLE_IRQ
  BY <1>1, <1>2 DEF Parts, LockInv, LockStep, TypeOK
<1> QED
  BY <1>1, <1>3 DEF Parts, IrqsOffButWaiting, HasQueued

LEMMA ClockStandsKept ==
    ASSUME Parts, StartsAtOnce, ClockStands, TestNext \/ UNCHANGED allVars PROVE ClockStands'
<1>1. UNCHANGED <<tc, do_panic>>
  BY ParamsKept
<1> SUFFICES ASSUME runner' \in {"start", "waiting"}, tc \notin Nesting
             PROVE  /\ fnpc' = "over" => curstate'[fncpu'] >= RUN
                    /\ (\A t \in Threads : pc'[t] # "done") => jiffies' = 0
  BY <1>1 DEF ClockStands
<1>2. UsesMachine /\ runner \in {"start", "waiting"}
  BY StartOnly DEF UsesMachine
<1>3. \A t \in Threads : curstate'[t] >= curstate[t] /\ (pc[t] = "done" => pc'[t] = "done")
  <2>1. CASE \E c \in Threads : Step(c)
    BY <2>1, StepFrame DEF Parts
  <2>2. CASE UNCHANGED <<state, pc, curstate, detectVars, panicked>>
    BY <2>2 DEF Parts, LockInv, TypeOK, NONE, EXIT
  <2> QED
    BY <2>1, <2>2, StepOrNot
<1>4. fncpu \in Threads
  BY FirstIsCPU DEF Parts, CallbackOK
<1>5. fnpc' = "over" => curstate'[fncpu'] >= RUN
  <2>1. CASE FnEnds
    <3>1. pc[fncpu] = "fn" /\ fncpu' = fncpu /\ curstate' = curstate
      BY <1>2, <2>1, NobodyDone DEF FnEnds, FnReturn
    <3> QED
      BY <1>4, <3>1 DEF Parts, LockInv, LockStep, RUN
  <2>2. CASE ~FnEnds
    <3>1. fnpc' = "over" => fnpc = "over" /\ fncpu' = fncpu
      <4>1. \A c \in CPU : FnBegins(c) => fnpc' # "over"
        <5>1. tc \in Nesting \cup Delaying \cup Locking \cup Returning
          BY TestAssumption DEF Parts, ParamsOK, Nesting, SelfNested, CrossNested, Delaying,
             Locking, Returning
        <5> QED
          BY <5>1 DEF FnBegins
      <4> QED
        BY <2>2, <4>1 DEF TestNext, RunStep, RunTest, RunReturns, CallbackStep, RunNested,
           QueueNested, WaitDone, WaitTimesOut, DelayOver, TryLock, TestClock, MachineStep,
           TestOver, fnVars, testVars, allVars
    <3>2. curstate \in [Threads -> NONE .. EXIT] /\ curstate' \in [Threads -> NONE .. EXIT]
      BY TestLock DEF Parts, LockInv, TypeOK
    <3> QED
      BY <1>2, <1>3, <1>4, <3>1, <3>2 DEF ClockStands, NONE, RUN, EXIT
  <2> QED
    BY <2>1, <2>2
<1>6. ASSUME \A t \in Threads : pc'[t] # "done" PROVE jiffies' = 0
  <2>1. jiffies = 0 /\ \A t \in Threads : pc[t] # "done"
    BY <1>2, <1>3, <1>6 DEF ClockStands
  <2>2. SUFFICES ASSUME jiffies' # jiffies PROVE FALSE
    BY <2>1
  <2>3. (\E c \in CPU : irq[c]) /\ jiffies' = now
    BY <2>2, ClockMoves
  <2>4. fnpc \notin {"idle", "queue"}
    BY <1>2, <2>1, <2>2, <2>3 DEF StartsAtOnce
  <2> QED
    BY <1>2, <2>1, <2>3, <2>4, IrqsOffInRun
<1> QED
  BY <1>5, <1>6

(* MODE B.  The callback waits inside RUN, on the first CPU.                *)
LEMMA WaitsInRun ==
    ASSUME Parts, tc \in Nesting, do_panic, fnpc = "waiting"
    PROVE  /\ Machine /\ fncpu \in Threads /\ pc[fncpu] = "fn" /\ state = RUN /\ AllPending
           /\ \A t \in Threads : /\ pc[t] \notin {"queued", "restore", "done"}
                                 /\ pc[t] = "fn" => t = fncpu
<1> USE DEF NONE, PREPARE, RUN, EXIT
<1>1. UsesMachine /\ runner = "waiting" /\ AllPending
  BY DEF UsesMachine, Parts, Waits, CallbackInFn, CircularWait
<1>2. fncpu \in Threads /\ pc[fncpu] = "fn"
  BY <1>1, NobodyDone
<1>3. state = RUN /\ fncpu \in Active
  BY <1>2 DEF Parts, LockInv, LockStep
<1>4. \A t \in Threads : pc[t] = "fn" => t = fncpu
  BY <1>3, TestAssumption DEF Parts, LockInv, LockStep
<1> QED
  BY <1>1, <1>2, <1>3, <1>4 DEF Machine, Parts, LockInv, LockStep

(* When the threshold has passed, one of the threads that poll meanwhile    *)
(* has something to do: only one of them at a time is in the backtrace, and *)
(* if it is the only one that polls, the callback's CPU takes the IPI.      *)
LEMMA PollersAct ==
    ASSUME Parts, OnSchedule, DetectsOnce, PanicsInTime, tc \in Nesting, do_panic,
           fnpc = "waiting", now = Timeout + 1
    PROVE  TestUrgent
<1>1. Machine /\ fncpu \in CPU /\ Threads = CPU /\ irq[fncpu] /\ Timeout \in Nat
  BY WaitsInRun, FirstIsCPU, StopAssumption DEF PanicsInTime
<1>2. SUFFICES ASSUME jiffies = now, \A t \in CPU : ~Due(t) PROVE FALSE
  <2>1. jiffies \in 0 .. now /\ now \in Nat
    BY DEF Parts, LockInv, TypeOK
  <2> QED
    BY <1>1, <2>1 DEF TestUrgent
<1>3. \A t \in CPU \ {fncpu} : pc[t] = "backtrace"
  <2> SUFFICES ASSUME NEW t \in CPU \ {fncpu} PROVE pc[t] = "backtrace"
    OBVIOUS
  <2>1. pc[t] \in PcValues /\ pc[t] \notin {"queued", "fn", "restore", "done"}
    BY <1>1, WaitsInRun DEF Parts, LockInv, TypeOK
  <2>2. pc[t] \notin {"ack", "reset", "set", "dump", "panic"}
    BY <1>2 DEF Due
  <2>3. pc[t] \notin {"loop", "check"}
    <3>1. start_jiffies[t] = 0 /\ (timed_out[t] => pc[t] \in {"dump", "backtrace", "panic"})
      BY <1>1 DEF PanicsInTime, DetectsOnce
    <3>2. SUFFICES ASSUME pc[t] \in {"loop", "check"} PROVE FALSE
      OBVIOUS
    <3>3. Fires(t)
      BY <1>1, <1>2, <3>1, <3>2 DEF Fires, Expired
    <3> QED
      BY <1>2, <3>2, <3>3 DEF Due
  <2> QED
    BY <2>1, <2>2, <2>3 DEF PcValues
<1>4. PICK t \in CPU : t # fncpu
  BY <1>1 DEF OnSchedule, InTime
<1>5. CPU \ {t} = {fncpu}
  BY <1>1, <1>3, <1>4 DEF DetectsOnce
<1>6. BacktraceOver(t)
  BY <1>1, <1>5 DEF BacktraceOver
<1> QED
  BY <1>2, <1>3, <1>4, <1>6 DEF Due

(* So the wait never ends, neither by the work nor by its own time-out.     *)
LEMMA WaitLasts ==
    ASSUME Parts, OnSchedule, PanicsInTime, tc \in Nesting, do_panic
    PROVE  ~WaitDone /\ ~WaitTimesOut /\ ~DelayOver /\ ~TryLock /\ ~FnEnds
<1>1. ~DelayOver /\ ~TryLock /\ ~FnEnds
  BY DEF PanicsInTime, DelayOver, TryLock, FnEnds
<1>2. ~WaitDone
  BY DEF Parts, Waits, CircularWait, WaitDone
<1>3. ~WaitTimesOut
  <2>1. jiffies \in 0 .. now /\ now \in Nat /\ Timeout \in Nat
    BY StopAssumption DEF Parts, LockInv, TypeOK
  <2>2. fnpc = "waiting" => now <= Timeout + 1 /\ fn_start = 0
    BY DEF PanicsInTime
  <2>3. Timeout + 1 < 5 /\ (WaitTimesOut => fnpc = "waiting" /\ jiffies >= fn_start + 5)
    BY DEF WaitTimesOut, OnSchedule, InTime, SafeWait
  <2> QED
    BY <2>1, <2>2, <2>3
<1> QED
  BY <1>1, <1>2, <1>3

LEMMA StepPanicsInTime ==
    ASSUME Parts, StartsAtOnce, PanicsInTime, tc \in Nesting, do_panic, runner = "waiting",
           NEW c \in Threads, Step(c)
    PROVE  /\ \A t \in Threads : start_jiffies'[t] = 0
           /\ fnpc = "waiting" => irq'[fncpu]
<1>1. start_jiffies'[c] = 0
  <2>1. start_jiffies[c] = 0 /\ jiffies \in 0 .. now
        /\ start_jiffies \in [Threads -> Nat]
    BY DEF PanicsInTime, Parts, LockInv, TypeOK
  <2>2. CASE Enter(c)
    <3>1. now = 0
      BY <2>2, WaitsInRun DEF Enter, PanicsInTime, StartsAtOnce
    <3> QED
      BY <2>1, <2>2, <3>1 DEF Enter
  <2>3. CASE ~Enter(c)
    BY <2>1, <2>3 DEF Step, NewState, SameState, FnReturn, AckDec, ResetAck, SetState, Detect,
       CheckPasses, Restore, BeginBacktrace, EndBacktrace, Panic, detectVars
  <2> QED
    BY <2>2, <2>3
<1>2. ASSUME fnpc = "waiting" PROVE irq'[fncpu]
  <2>1. irq[fncpu] /\ pc[fncpu] = "fn" /\ fncpu \in Threads
    BY <1>2, WaitsInRun DEF PanicsInTime
  <2>2. CASE c # fncpu
    BY <2>1, <2>2, StepFrame DEF Parts
  <2>3. CASE c = fncpu
    BY <2>1, <2>3 DEF Step, Enter, NewState, SameState, FnReturn, AckDec, ResetAck, SetState,
       Detect, CheckPasses, Restore, BeginBacktrace, EndBacktrace, Panic, barrierVars
  <2> QED
    BY <2>2, <2>3
<1> QED
  BY <1>1, <1>2, StepFrame DEF PanicsInTime, Parts

LEMMA PanicComes ==
    ASSUME Parts, TestNext \/ UNCHANGED allVars, panicked'
    PROVE  \/ panicked /\ UNCHANGED allVars
           \/ UNCHANGED testVars /\ runner = "waiting" /\ \E c \in Threads : pc[c] = "panic"
<1>1. CASE panicked
  BY <1>1 DEF TestNext, TestOver, Halted
<1>2. CASE ~panicked /\ \E c \in CPU : MachineStep(c)
  <2>1. PICK c \in Threads : Step(c) /\ UNCHANGED testVars /\ runner = "waiting"
    BY <1>2, MachineStepFn DEF MachineStep, Machine
  <2>2. Panic(c)
    BY <1>2, <2>1 DEF Step, Enter, NewState, SameState, FnReturn, AckDec, ResetAck, SetState,
       Detect, CheckPasses, Restore, BeginBacktrace, EndBacktrace, haltVars
  <2> QED
    BY <2>1, <2>2 DEF Panic
<1> QED
  BY <1>1, <1>2 DEF TestNext, RunStep, RunTest, RunReturns, CallbackStep, FnBegins, RunNested,
     QueueNested, WaitDone, WaitTimesOut, DelayOver, TryLock, FnEnds, FnReturn, TestClock, Advance,
     TimerIrq, Bark, TestOver, allVars, vars, haltVars

LEMMA PanicsKept ==
    ASSUME Parts, OnSchedule, StartsAtOnce, DetectsOnce, PanicsInTime,
           TestNext \/ UNCHANGED allVars
    PROVE  PanicsInTime'
<1>1. UNCHANGED <<tc, do_panic>>
  BY ParamsKept
<1> SUFFICES ASSUME tc \in Nesting, do_panic
             PROVE  /\ fn_start' = 0 /\ \A c \in Threads : start_jiffies'[c] = 0
                    /\ fnpc' \in {"idle", "queue", "waiting"} /\ ~barked'
                    /\ fnpc' = "waiting" => irq'[fncpu'] /\ now' <= Timeout + 1
                    /\ panicked' => fnpc' = "waiting"
  BY <1>1 DEF PanicsInTime
<1>2. /\ fn_start = 0 /\ \A c \in Threads : start_jiffies[c] = 0
      /\ fnpc \in {"idle", "queue", "waiting"} /\ ~barked
      /\ fnpc = "waiting" => irq[fncpu] /\ now <= Timeout + 1
      /\ now \in Nat /\ Timeout \in Nat /\ jiffies \in 0 .. now /\ BarkTime \in Nat
      /\ Timeout + 1 < BarkTime
  BY StopAssumption DEF PanicsInTime, Parts, LockInv, TypeOK, OnSchedule, InTime
<1>3. ~barked' /\ (fnpc = "waiting" => now' <= Timeout + 1) /\ (panicked' => fnpc' = "waiting")
  <2>1. ~barked'
    <3> SUFFICES ASSUME barked' # barked PROVE FALSE
      BY <1>2
    <3>1. runner = "waiting" /\ now >= BarkTime
      BY ClockMoves DEF Machine
    <3> QED
      BY <1>2, <3>1 DEF StartsAtOnce
  <2>2. ASSUME fnpc = "waiting" PROVE now' <= Timeout + 1
    <3>1. CASE now' = now
      BY <1>2, <2>2, <3>1
    <3>2. CASE now' # now
      <4>1. ~TestUrgent /\ now' = now + 1
        BY <3>2, ClockMoves DEF Advance
      <4>2. now # Timeout + 1
        BY <2>2, <4>1, PollersAct
      <4> QED
        BY <1>2, <2>2, <4>1, <4>2
    <3> QED
      BY <3>1, <3>2
  <2>3. ASSUME panicked' PROVE fnpc' = "waiting"
    <3>1. CASE panicked /\ UNCHANGED allVars
      BY <3>1 DEF PanicsInTime, allVars, testVars, fnVars
    <3>2. CASE UNCHANGED testVars /\ runner = "waiting" /\ \E c \in Threads : pc[c] = "panic"
      <4>1. now > 0
        BY <1>2, <3>2 DEF DetectsOnce
      <4> QED
        BY <1>2, <3>2, <4>1 DEF StartsAtOnce, testVars, fnVars
    <3> QED
      BY <2>3, <3>1, <3>2, PanicComes
  <2> QED
    BY <2>1, <2>2, <2>3
<1>4. CASE \E c \in CPU : MachineStep(c)
  <2>1. PICK c \in Threads : Step(c) /\ UNCHANGED testVars /\ runner = "waiting"
    BY <1>4, MachineStepFn DEF MachineStep, Machine
  <2> QED
    BY <1>2, <1>3, <2>1, StepPanicsInTime DEF testVars, fnVars
<1>5. CASE \E c \in CPU : FnBegins(c)
  <2>1. PICK c \in CPU : FnBegins(c)
    BY <1>5
  <2>2. fnpc' = "queue" /\ fn_start' = jiffies /\ runner = "waiting" /\ fnpc = "idle"
        /\ start_jiffies' = start_jiffies
    BY <2>1 DEF FnBegins, Nesting, SelfNested, CrossNested, Delaying, Locking, Returning, vars,
       detectVars
  <2> QED
    BY <1>2, <1>3, <2>2 DEF StartsAtOnce
<1>6. CASE QueueNested
  <2>1. fncpu' = fncpu /\ irq'[fncpu] /\ now' = now /\ fnpc = "queue" /\ fnpc' = "waiting"
        /\ start_jiffies' = start_jiffies /\ fn_start' = fn_start
    BY <1>6 DEF QueueNested, Parts, LockInv, TypeOK, CallbackOK, clockVars, detectVars
  <2>2. now = 0
    BY <2>1 DEF Parts, Waits, CallbackInFn, StartsAtOnce
  <2> QED
    BY <1>2, <1>3, <2>1, <2>2
<1>7. CASE /\ UNCHANGED <<fncpu, fnpc, fn_start, start_jiffies>>
           /\ \A t \in CPU : irq[t] => irq'[t]
  BY <1>2, <1>3, <1>7 DEF Parts, CallbackOK
<1>8. CASE TestClock \/ RunStep \/ UNCHANGED allVars \/ \E c \in CPU : RunNested(c)
  BY <1>7, <1>8 DEF TestClock, Advance, TimerIrq, Bark, RunStep, RunTest, RunReturns, RunNested,
     fnVars, testVars, allVars, vars, barrierVars, detectVars
<1> QED
  BY <1>4, <1>5, <1>6, <1>8, WaitLasts DEF TestNext, CallbackStep, TestOver

(* MODE A.  The work goes to another CPU than the one that waits for it ... *)
LEMMA NestsElsewhere ==
    ASSUME Parts, InTime, ServedInTime, tc \in CrossNested, ~do_panic, NEW c \in CPU, FnBegins(c)
    PROVE  NestOn(c) \in CPU \ {c}
<1>1. tc \in Nesting /\ ~UsesMachine /\ tc \notin SelfNested /\ runner = "waiting"
  BY DEF Nesting, CrossNested, SelfNested, UsesMachine, FnBegins
<1>2. CASE tc = 15
  BY <1>1, <1>2, FirstHasNext, NextIsCPU DEF FnBegins, NestOn, RingNext
<1>3. CASE tc # 15
  <2>1. c = target /\ HasNext(target)
    BY <1>1, <1>3 DEF FnBegins, ServedInTime
  <2>2. NestOn(c) = NextCPU(target)
    BY <1>1, <1>3 DEF NestOn, CrossNested
  <2> QED
    BY <2>1, <2>2, NextIsCPU
<1> QED
  BY <1>2, <1>3

(* ... whose stopper is free: time waits for it.                            *)
LEMMA ServerIsUrgent ==
    ASSUME Parts, ServedInTime, tc \in CrossNested, ~do_panic, fnpc = "waiting",
           WaitedFor \notin inner_done
    PROVE  TestUrgent
<1>1. tc \in Nesting /\ ~UsesMachine
  BY DEF Nesting, UsesMachine
<1>2. works[NestOn(fncpu)] = <<WaitedFor>> /\ NestOn(fncpu) \in CPU \ {fncpu}
  BY <1>1 DEF ServedInTime
<1>3. <<WaitedFor>> # <<>>
  OBVIOUS
<1> QED
  BY <1>1, <1>2, <1>3 DEF TestUrgent, StopperFree

(* Where the work goes, and what is waited for, are settled by then.        *)
LEMMA NestOnKept ==
    ASSUME UNCHANGED <<tc, do_panic, target, fncpu>>
    PROVE  NestOn(fncpu)' = NestOn(fncpu) /\ WaitedFor' = WaitedFor
           /\ NestedWorks(fncpu)' = NestedWorks(fncpu)
BY DEF NestOn, RingNext, HasNext, NextCPU, WaitedFor, NestedWorks

LEMMA ServedKept ==
    ASSUME Parts, OnSchedule, StartsAtOnce, ServedInTime, TestNext \/ UNCHANGED allVars
    PROVE  ServedInTime'
<1>1. UNCHANGED <<tc, do_panic, target>>
  BY ParamsKept
<1> SUFFICES ASSUME tc \in Nesting, ~do_panic
             PROVE  /\ ~panicked' /\ ~barked'
                    /\ tc \in CrossNested =>
                          /\ ~wait_failed'
                          /\ runner' = "waiting" /\ tc # 15 => HasNext(target)
                          /\ fnpc' # "idle" => NestOn(fncpu)' \in CPU \ {fncpu'}
                          /\ fnpc' = "waiting" /\ WaitedFor' \notin inner_done'
                                => works'[NestOn(fncpu)'] = <<WaitedFor'>> /\ now' = 0
  BY <1>1 DEF ServedInTime, HasNext
<1>2. ~UsesMachine /\ ~Machine
  BY DEF UsesMachine, Machine
<1>3. UNCHANGED panicked /\ UNCHANGED barked
  BY <1>2 DEF TestNext, RunStep, RunTest, RunReturns, CallbackStep, FnBegins, RunNested,
     QueueNested, WaitDone, WaitTimesOut, DelayOver, TryLock, FnEnds, TestClock, Advance, TimerIrq,
     MachineStep, TestOver, allVars, vars, haltVars
<1> SUFFICES ASSUME tc \in CrossNested
             PROVE  /\ ~wait_failed'
                    /\ runner' = "waiting" /\ tc # 15 => HasNext(target)
                    /\ fnpc' # "idle" => NestOn(fncpu)' \in CPU \ {fncpu'}
                    /\ fnpc' = "waiting" /\ WaitedFor' \notin inner_done'
                          => works'[NestOn(fncpu)'] = <<WaitedFor'>> /\ now' = 0
  BY <1>3 DEF ServedInTime
<1>4. /\ ~wait_failed
      /\ runner = "waiting" /\ tc # 15 => HasNext(target)
      /\ fnpc # "idle" => NestOn(fncpu) \in CPU \ {fncpu}
      /\ fnpc = "waiting" /\ WaitedFor \notin inner_done
            => works[NestOn(fncpu)] = <<WaitedFor>> /\ now = 0
  BY DEF ServedInTime
<1>5. CASE RunTest
  <2>1. UNCHANGED <<fncpu, fnpc, works, inner_done, wait_failed, now>>
        /\ (runner' = "waiting" /\ tc # 15 => HasNext(target))
    BY <1>5 DEF RunTest, NoNeighbour, fnVars, vars, clockVars, CrossNested
  <2> QED
    BY <1>1, <1>4, <2>1, NestOnKept
<1>6. CASE \E c \in CPU : FnBegins(c)
  <2>1. PICK c \in CPU : FnBegins(c)
    BY <1>6
  <2>2. NestOn(c) \in CPU \ {c} /\ fncpu' = c /\ runner' = runner /\ wait_failed' = wait_failed
    BY <2>1, NestsElsewhere DEF OnSchedule, FnBegins
  <2>3. fnpc' = "queue"
    BY <2>1 DEF FnBegins, Nesting, SelfNested, CrossNested, Delaying, Locking, Returning
  <2>4. NestOn(fncpu)' = NestOn(c)
    BY <1>1, <2>2 DEF NestOn, RingNext, HasNext, NextCPU
  <2> QED
    BY <1>4, <2>2, <2>3, <2>4
<1>7. CASE QueueNested
  <2>1. /\ fnpc = "queue" /\ fncpu' = fncpu /\ runner' = runner /\ wait_failed' = wait_failed
        /\ now' = now /\ AllPending'
    BY <1>7, QueueNestedType DEF QueueNested, clockVars
  <2>2. /\ NestOn(fncpu)' = NestOn(fncpu) /\ WaitedFor' = WaitedFor
        /\ NestedWorks(fncpu)' = NestedWorks(fncpu)
    BY <1>1, <2>1, NestOnKept
  <2>3. works'[NestOn(fncpu)] = NestedWorks(fncpu)
    BY <1>4, <2>1, <2>2 DEF AllPending
  <2>4. NestedWorks(fncpu) = <<WaitedFor>>
    BY DEF NestedWorks, WaitedFor, CrossNested
  <2>5. now = 0
    BY <2>1 DEF Parts, Waits, CallbackInFn, StartsAtOnce
  <2> QED
    BY <1>4, <2>1, <2>2, <2>3, <2>4, <2>5
<1>8. CASE \E c \in CPU : RunNested(c)
  <2>1. PICK c \in CPU : RunNested(c)
    BY <1>8
  <2>2. /\ works' = [works EXCEPT ![c] = Tail(works[c])]
        /\ inner_done' = inner_done \cup {Head(works[c])}
        /\ UNCHANGED <<runner, fncpu, fnpc, wait_failed, now>>
    BY <2>1 DEF RunNested, vars, clockVars
  <2>3. NestOn(fncpu)' = NestOn(fncpu) /\ WaitedFor' = WaitedFor
    BY <1>1, <2>2, NestOnKept
  <2>4. ASSUME fnpc = "waiting", WaitedFor \notin inner_done'
        PROVE  works'[NestOn(fncpu)] = <<WaitedFor>> /\ now = 0
    <3>1. works[NestOn(fncpu)] = <<WaitedFor>> /\ now = 0
      BY <1>4, <2>2, <2>4
    <3>2. c # NestOn(fncpu)
      <4>1. Head(<<WaitedFor>>) = WaitedFor
        OBVIOUS
      <4> QED
        BY <2>2, <2>4, <3>1, <4>1
    <3> QED
      BY <1>4, <2>2, <2>4, <3>1, <3>2 DEF Parts, QueuesOK
  <2> QED
    BY <1>4, <2>2, <2>3, <2>4
<1>9. CASE WaitTimesOut
  <2>1. /\ fnpc = "waiting" /\ WaitedFor \notin inner_done
        /\ jiffies >= fn_start + SafeWait
    BY <1>9 DEF WaitTimesOut
  <2>2. now = 0 /\ jiffies \in 0 .. now /\ fn_start \in 0 .. now
    BY <1>4, <2>1 DEF Parts, LockInv, TypeOK, CallbackOK
  <2> QED
    BY <2>1, <2>2 DEF SafeWait
<1>10. CASE WaitDone \/ DelayOver \/ TryLock \/ FnEnds
  <2>1. fnpc # "idle" /\ fnpc' # "waiting" /\ UNCHANGED <<fncpu, wait_failed, runner>>
    BY <1>10 DEF WaitDone, DelayOver, TryLock, FnEnds
  <2> QED
    BY <1>1, <1>4, <2>1, NestOnKept
<1>11. CASE TestClock
  <2>1. UNCHANGED <<runner, fncpu, fnpc, works, inner_done, wait_failed>>
    BY <1>11 DEF TestClock, testVars, fnVars
  <2>2. fnpc = "waiting" /\ WaitedFor \notin inner_done => now' = now
    BY ServerIsUrgent, ClockMoves
  <2> QED
    BY <1>1, <1>4, <2>1, <2>2, NestOnKept
<1>12. CASE RunReturns \/ UNCHANGED allVars
  <2>1. UNCHANGED <<fncpu, fnpc, works, inner_done, wait_failed, now>>
        /\ runner' \in {runner, "returned"}
    BY <1>12 DEF RunReturns, fnVars, testVars, allVars, vars, clockVars
  <2> QED
    BY <1>1, <1>4, <2>1, NestOnKept
<1> QED
  BY <1>2, <1>5, <1>6, <1>7, <1>8, <1>9, <1>10, <1>11, <1>12
     DEF TestNext, RunStep, CallbackStep, MachineStep, TestOver

LEMMA InitTimed == TestInit => Timed
BY FirstIsCPU DEF TestInit, Init, Timed, Schedule, StartsAtOnce, DetectsOnce, ClockStands,
   PanicsInTime, ServedInTime

LEMMA NextTimed == Parts /\ Timed /\ [TestNext]_allVars => Timed'
<1> SUFFICES ASSUME Parts, OnSchedule, Schedule, TestNext \/ UNCHANGED allVars PROVE Schedule'
  BY DEF Timed
<1> QED
  BY StartKept, DetectsKept, ClockStandsKept, PanicsKept, ServedKept DEF Schedule, OnSchedule

(* TestIInv, with TypeOK and the lock-step of StopMachine among its parts,  *)
(* holds of every test case in both modes, on any number of CPUs.           *)
THEOREM TestInductive == TestSpec => []TestIInv
<1> QED
  BY InitParts, NextParts, InitTimed, NextTimed, TestParts, PTL DEF TestSpec

(* The deadlock the detector is there for: in MODE B, and in MODE A on its  *)
(* own stopper, no nested work runs until the callback has given up, so the *)
(* callback always times out.                                               *)
THEOREM NestedNeverServed == TestSpec => []CircularWait
<1>1. TestIInv => CircularWait
  BY DEF TestIInv
<1> QED
  BY <1>1, TestInductive, PTL

(* The callback's verdict tells on which stopper its work was queued, if it *)
(* lives to give one: on its own, or else the work was served at once.      *)
THEOREM VerdictIsRight == ASSUME OnSchedule PROVE TestSpec => []WaitVerdict
<1>1. TestIInv => WaitVerdict
  <2> SUFFICES ASSUME TestIInv, fnpc \in {"finished", "over"}, tc \in Nesting
               PROVE  wait_failed = (tc \in SelfNested /\ ~do_panic)
    BY DEF WaitVerdict
  <2>1. ~do_panic /\ do_panic \in BOOLEAN /\ wait_failed \in BOOLEAN
    BY TestAssumption DEF TestIInv, TestTypeOK, Schedule, PanicsInTime
  <2>2. tc \in SelfNested => wait_failed
    BY <2>1 DEF TestIInv, CircularWait
  <2>3. tc \in CrossNested => ~wait_failed
    BY <2>1 DEF TestIInv, Schedule, ServedInTime
  <2> QED
    BY <2>1, <2>2, <2>3 DEF Nesting
<1> QED
  BY <1>1, TestInductive, PTL

(* The panic of a nesting test finds every nested work where it was queued. *)
THEOREM PanicFindsWorks == ASSUME OnSchedule PROVE TestSpec => []PendingAtPanic
<1>1. TestIInv => PendingAtPanic
  <2> SUFFICES ASSUME TestIInv, panicked, tc \in Nesting
               PROVE  state = RUN /\ fnpc = "waiting" /\ AllPending
    BY DEF PendingAtPanic
  <2>1. do_panic /\ fnpc = "waiting"
    BY DEF TestIInv, Schedule, ServedInTime, PanicsInTime
  <2>2. UsesMachine /\ fncpu \in Threads /\ AllPending
    BY <2>1, FirstIsCPU DEF TestIInv, TestTypeOK, UsesMachine, CircularWait
  <2>3. pc[fncpu] = "fn" /\ curstate[fncpu] = RUN /\ curstate[fncpu] = state
    BY <2>1, <2>2 DEF TestIInv, CallbackInFn, LockStep
  <2> QED
    BY <2>1, <2>2, <2>3
<1> QED
  BY <1>1, TestInductive, PTL

(* No nesting test comes as far as the watchdog's bark.                     *)
THEOREM NoBarkWhenNested == ASSUME OnSchedule PROVE TestSpec => []NestedBeforeBark
<1>1. TestIInv => NestedBeforeBark
  BY DEF TestIInv, Schedule, PanicsInTime, ServedInTime, NestedBeforeBark
<1> QED
  BY <1>1, TestInductive, PTL

(* A wedged stopper is never in the loop: the stop stays in PREPARE.        *)
LEMMA WedgedStays ==
    TestSpec => [](\A t \in Wedged : pc[t] = "queued")
<1> DEFINE Stays == \A t \in Wedged : pc[t] = "queued"
<1>1. TestInit => Stays
  BY StopAssumption DEF TestInit, Init
<1>2. Parts /\ Stays /\ [TestNext]_allVars => Stays'
  <2> SUFFICES ASSUME Parts, Stays, TestNext \/ UNCHANGED allVars, NEW t \in Wedged
               PROVE  pc'[t] = "queued"
    OBVIOUS
  <2>1. t \in Threads
    BY StopAssumption
  <2>2. CASE \E c \in Threads : Step(c)
    <3>1. PICK c \in Threads : Step(c)
      BY <2>2
    <3>2. c # t
      BY <3>1 DEF Step, Enter, NewState, SameState, FnReturn, AckDec, ResetAck, SetState, Detect,
         CheckPasses, Restore, BeginBacktrace, EndBacktrace, Panic
    <3> QED
      BY <2>1, <3>1, <3>2, StepFrame DEF Parts
  <2>3. CASE UNCHANGED <<state, pc, curstate, detectVars, panicked>>
    BY <2>1, <2>3
  <2> QED
    BY <2>2, <2>3, StepOrNot
<1> QED
  BY <1>1, <1>2, InitParts, NextParts, PTL DEF TestSpec

(* The detector fires while somebody is missing from PREPARE, while the     *)
(* callback waits with the clock going, or once a thread is out: whatever   *)
(* stoppers are wedged, and however long a callback delays or spins.        *)
THEOREM FiresWithCause == ASSUME InTime PROVE TestSpec => FiresOnlyWithCause
<1> DEFINE Stays == \A t \in Wedged : pc[t] = "queued"
           Cause == \/ state = PREPARE /\ \E t \in Threads : ~Acked(t)
                    \/ tc \in Nesting /\ fnpc = "waiting"
                    \/ \E t \in Threads : pc[t] = "done"
<1>1. Parts /\ Timed /\ Stays /\ [TestNext]_allVars
        => [\A c \in Threads : ~timed_out[c] /\ timed_out'[c] => Cause]_allVars
  <2> SUFFICES ASSUME Parts, Timed, Stays, TestNext, NEW t \in Threads,
                      ~timed_out[t], timed_out'[t], ~Cause
               PROVE  FALSE
    OBVIOUS
  <2>1. jiffies > 0 /\ jiffies <= now /\ Machine
    <3>1. \E c \in CPU : MachineStep(c)
      BY DEF TestNext, RunStep, RunTest, RunReturns, CallbackStep, FnBegins, RunNested,
         QueueNested, WaitDone, WaitTimesOut, DelayOver, TryLock, FnEnds, FnReturn, TestClock,
         Advance, TimerIrq, Bark, TestOver, allVars, vars, detectVars
    <3>2. PICK c \in Threads : Step(c) /\ Machine
      BY <3>1, MachineStepFn DEF MachineStep
    <3>3. Detect(c)
      BY <3>2 DEF Step, Enter, NewState, SameState, FnReturn, AckDec, ResetAck, SetState,
         CheckPasses, Restore, BeginBacktrace, EndBacktrace, Panic, detectVars
    <3> QED
      BY <3>2, <3>3, StopAssumption DEF Detect, Fires, Expired, Parts, LockInv, TypeOK
  <2>2. CASE Wedged # {}
    <3>1. PICK w \in Wedged : pc[w] = "queued"
      BY <2>2
    <3>2. w \in Threads
      BY StopAssumption
    <3>3. state = PREPARE /\ ~Acked(w)
      BY <3>1, <3>2 DEF Parts, LockInv, LockStep, TypeOK, Acked, NONE, PREPARE, EXIT
    <3> QED
      BY <3>2, <3>3
  <2>3. CASE Wedged = {}
    <3>1. Schedule /\ runner = "waiting" /\ now # 0
      <4>1. now \in Nat /\ jiffies \in 0 .. now
        BY DEF Parts, LockInv, TypeOK
      <4> QED
        BY <2>1, <2>3, <4>1 DEF Timed, OnSchedule, Machine
    <3>2. CASE tc \in Nesting
      BY <2>1, <3>1, <3>2 DEF Schedule, Machine, UsesMachine, PanicsInTime, StartsAtOnce
    <3>3. CASE tc \notin Nesting
      BY <2>1, <3>1, <3>3 DEF Schedule, ClockStands
    <3> QED
      BY <3>2, <3>3
  <2> QED
    BY <2>2, <2>3
<1> QED
  BY <1>1, InitParts, NextParts, InitTimed, NextTimed, WedgedStays, PTL
     DEF TestSpec, FiresOnlyWithCause

(* The test module's callbacks run inside multi_cpu_stop() and leave it the *)
(* barrier it is.                                                           *)
THEOREM TestImplementsBarrier == TestSpec => BarrierSpec
<1>1. TestInit => Barrier!Init
  BY DEF TestInit, Init, Barrier!Init, NONE
<1>2. Parts /\ [TestNext]_allVars => [Barrier!Next]_(Barrier!vars)
  <2> SUFFICES ASSUME Parts, [TestNext]_allVars PROVE [Barrier!Next]_(Barrier!vars)
    OBVIOUS
  <2>1. CASE \E c \in CPU : MachineStep(c)
    BY <2>1, MachineStepFn, StepsBarrier DEF Parts
  <2>2. CASE FnEnds /\ UsesMachine
    <3>1. fncpu \in Threads /\ Step(fncpu)
      BY <2>2, NobodyDone DEF FnEnds, Step
    <3> QED
      BY <3>1, StepsBarrier DEF Parts
  <2>3. CASE UNCHANGED <<pc, curstate>>
    BY <2>3, BarrierAtRest
  <2>4. CASE TestClock
    BY <2>3, <2>4, ClockLock DEF TestClock, Parts, barrierVars
  <2> QED
    BY <2>1, <2>2, <2>3, <2>4 DEF TestNext, RunStep, RunTest, RunReturns, CallbackStep, FnBegins,
       RunNested, QueueNested, WaitDone, WaitTimesOut, DelayOver, TryLock, FnEnds, TestOver,
       allVars, vars, barrierVars
<1> QED
  BY <1>1, <1>2, InitParts, NextParts, PTL DEF TestSpec, BarrierSpec, Barrier!Spec
================================================================================
