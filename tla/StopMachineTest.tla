---------------------------- MODULE StopMachineTest ----------------------------
(***************************************************************************)
(* The test module stop_machine_test-1.c on top of StopMachine: its stop   *)
(* callbacks, the stoppers' work lists they queue nested work on, the      *)
(* completions they wait for, and the run_tcNN() function that called      *)
(* stop_machine() (MODE B) or stop_one_cpu() (MODE A).  One test case runs *)
(* per behaviour; the tick is one second.                                  *)
(*                                                                         *)
(* CPUs are numbered as the kernel numbers them; Threads is all of them.   *)
(***************************************************************************)
EXTENDS StopMachine, SequencesExt, FiniteSetsExt

CONSTANTS
    Tests,      (* the values of the module parameter "tc" to run            *)
    Modes,      (* the values of the module parameter "do_panic"             *)
    Targets     (* the values of the module parameter "target_cpu"           *)

ASSUME TestAssumption ==
    /\ CPU \subseteq Nat /\ CPU # {} /\ Threads = CPU
    /\ Active = {Min(CPU)}
    /\ Tests \subseteq (1 .. 17) \ {10, 11} /\ Modes \subseteq BOOLEAN /\ Targets \subseteq CPU

VARIABLES
    tc, do_panic, target,  (* the module's parameters                         *)
    runner,        (* run_tcNN(): "start", "waiting", "returned", "skipped"  *)
    fncpu,         (* the CPU whose stopper runs the callback                *)
    fnpc,          (* where the callback is                                  *)
    fn_start,      (* t0 of the callback                                     *)
    works,         (* the nested works pending on each stopper               *)
    inner_done,    (* the nested works that have run and completed           *)
    wait_failed    (* wait_for_completion_timeout() returned 0               *)

fnVars   == <<fncpu, fnpc, fn_start, works, inner_done, wait_failed>>
testVars == <<tc, do_panic, target, runner, fnVars>>
allVars  == <<vars, testVars>>

--------------------------------------------------------------------------------
(* The test cases.                                                          *)

SelfNested  == {3, 4, 6}         \* queue on the stopper they run on
CrossNested == {5, 13, 14, 15}   \* queue on another one
Nesting     == SelfNested \cup CrossNested
Delaying    == {2, 7, 8, 17}     \* burn real time, whatever the tick does
Locking     == {16}              \* spin on a lock its caller holds
Returning   == {1, 9, 12}        \* only print

SafeWait == 5    \* SAFE_WAIT_JIFFIES, BLOCKER_TOTAL_MS

(* How long a delaying callback takes: TC08 runs just under the threshold in *)
(* MODE A and just over it in MODE B, the others run BLOCKER_TOTAL_MS.      *)
DelayOf == IF tc # 8 THEN SafeWait
           ELSE IF do_panic THEN Timeout + 1 ELSE Timeout - 1

(* Variant: MODE A calls stop_machine() too.                                 *)
UsesMachineAlways == TRUE

(* stop_machine() or, for the nesting tests in MODE A, stop_one_cpu().      *)
UsesMachine == do_panic \/ tc \notin Nesting

FirstCPU == Min(CPU)

(* cpumask_next(): no wrap-around.                                          *)
HasNext(c) == \E d \in CPU : d > c
NextCPU(c) == Min({d \in CPU : d > c})

(* The ring of TC15 is closed: last CPU to first CPU.                       *)
RingNext(c) == IF HasNext(c) THEN NextCPU(c) ELSE FirstCPU

(* Variant: cpumask_next() taken for a mask walk that includes its argument. *)
NestOnTarget(c) ==
    CASE tc \in SelfNested  -> c
      [] tc \in {5, 13, 14} -> target
      [] tc = 15            -> RingNext(c)

(* The CPU a nesting callback queues on when it runs on c.  TC05, 13 and 14 *)
(* take the neighbour of target_cpu, wherever they run.                     *)
NestOn(c) ==
    CASE tc \in SelfNested  -> c
      [] tc \in {5, 13, 14} -> NextCPU(target)
      [] tc = 15            -> RingNext(c)

(* The works it queues there, in order: two in TC06.                        *)
NestedWorks(c) ==
    IF tc = 6 THEN << <<1, NestOn(c)>>, <<2, NestOn(c)>> >> ELSE << <<1, NestOn(c)>> >>

Machine == runner = "waiting" /\ UsesMachine

TestInit ==
    /\ Init
    /\ tc \in Tests /\ do_panic \in Modes /\ target \in Targets
    /\ runner = "start"
    /\ fncpu = FirstCPU /\ fnpc = "idle" /\ fn_start = 0
    /\ works = [c \in CPU |-> <<>>]
    /\ inner_done = {} /\ wait_failed = FALSE

(* TC05, 13 and 14 look for a neighbour of target_cpu first, TC15 for a     *)
(* second CPU, and give up without one.                                     *)
NoNeighbour ==
    \/ tc \in {5, 13, 14} /\ ~HasNext(target)
    \/ tc = 15 /\ ~HasNext(FirstCPU)

(* run_tcNN() up to its stop call.                                          *)
RunTest ==
    /\ runner = "start"
    /\ runner' = IF NoNeighbour THEN "skipped" ELSE "waiting"
    /\ UNCHANGED <<vars, tc, do_panic, target, fnVars>>

(* The stop call returns: every thread is out of multi_cpu_stop(), or the   *)
(* one callback of stop_one_cpu() is over.                                  *)
RunReturns ==
    /\ runner = "waiting"
    /\ IF UsesMachine THEN Returned ELSE fnpc = "over"
    /\ runner' = "returned"
    /\ UNCHANGED <<vars, tc, do_panic, target, fnVars>>

--------------------------------------------------------------------------------
(* The callback, on the stopper of c.                                       *)

(* A stopper is single-threaded: c is free to serve its works when it is    *)
(* not inside multi_cpu_stop() or inside the callback of stop_one_cpu().    *)
StopperFree(c) ==
    IF UsesMachine THEN pc[c] = "done" ELSE fnpc = "over" \/ c # fncpu

FnBegins(c) ==
    /\ fnpc = "idle" /\ runner = "waiting"
    /\ IF UsesMachine THEN pc[c] = "fn"
       ELSE c = IF tc = 15 THEN FirstCPU ELSE target
    /\ fncpu' = c
    /\ fn_start' = IF tc \in Delaying THEN now ELSE jiffies
    /\ fnpc' = CASE tc \in Nesting   -> "queue"
                 [] tc \in Delaying  -> "delay"
                 [] tc \in Locking   -> "trylock"
                 [] tc \in Returning -> "finished"
    /\ UNCHANGED <<vars, tc, do_panic, target, runner, works, inner_done, wait_failed>>

(* Variant: the works are put in front of the list.                          *)
QueueNestedInFront ==
    /\ fnpc = "queue"
    /\ works' = [works EXCEPT ![NestOn(fncpu)] = Reverse(NestedWorks(fncpu)) \o @]
    /\ irq' = [irq EXCEPT ![fncpu] = TRUE]
    /\ fnpc' = "waiting"
    /\ UNCHANGED <<state, thread_ack, pc, curstate, detectVars, clockVars, haltVars>>
    /\ UNCHANGED <<tc, do_panic, target, runner, fncpu, fn_start, inner_done, wait_failed>>

(* stop_one_cpu_nowait(), then wait_for_completion_timeout(), which gives   *)
(* up the CPU with its interrupts on.                                       *)
QueueNested ==
    /\ fnpc = "queue"
    /\ works' = [works EXCEPT ![NestOn(fncpu)] = @ \o NestedWorks(fncpu)]
    /\ irq' = [irq EXCEPT ![fncpu] = TRUE]
    /\ fnpc' = "waiting"
    /\ UNCHANGED <<state, thread_ack, pc, curstate, detectVars, clockVars, haltVars>>
    /\ UNCHANGED <<tc, do_panic, target, runner, fncpu, fn_start, inner_done, wait_failed>>

(* It waits for the first of them.                                          *)
WaitedFor == <<1, NestOn(fncpu)>>

WaitDone ==
    /\ fnpc = "waiting" /\ WaitedFor \in inner_done
    /\ fnpc' = "finished"
    /\ UNCHANGED <<vars, tc, do_panic, target, runner, fncpu, fn_start, works,
                   inner_done, wait_failed>>

WaitTimesOut ==
    /\ fnpc = "waiting" /\ WaitedFor \notin inner_done
    /\ jiffies >= fn_start + SafeWait
    /\ fnpc' = "finished" /\ wait_failed' = TRUE
    /\ UNCHANGED <<vars, tc, do_panic, target, runner, fncpu, fn_start, works, inner_done>>

(* mdelay() and the ktime_get() loop of TC07 do not need the tick.          *)
DelayOver ==
    /\ fnpc = "delay" /\ now >= fn_start + DelayOf
    /\ fnpc' = "finished"
    /\ UNCHANGED <<vars, tc, do_panic, target, runner, fncpu, fn_start, works,
                   inner_done, wait_failed>>

(* TC16 spins on a lock whose holder sits in stop_machine(), so the trylock  *)
(* always fails; a pass gives up after BLOCKER_TOTAL_MS of jiffies in MODE A *)
(* and otherwise changes nothing.                                           *)
GivesUp == ~do_panic /\ jiffies > fn_start + SafeWait

TryLock ==
    /\ fnpc = "trylock"
    /\ fnpc' = IF GivesUp THEN "finished" ELSE "trylock"
    /\ UNCHANGED <<vars, tc, do_panic, target, runner, fncpu, fn_start, works,
                   inner_done, wait_failed>>

(* return 0: to multi_cpu_stop(), or to the stopper thread itself.          *)
FnEnds ==
    /\ fnpc = "finished" /\ fnpc' = "over"
    /\ IF UsesMachine THEN FnReturn(fncpu) ELSE UNCHANGED vars
    /\ UNCHANGED <<tc, do_panic, target, runner, fncpu, fn_start, works,
                   inner_done, wait_failed>>

(* cpu_stopper_thread(): take the next work off the list, run it; the       *)
(* nested callbacks all just complete().                                    *)
RunNested(c) ==
    /\ works[c] # <<>> /\ StopperFree(c)
    /\ works' = [works EXCEPT ![c] = Tail(@)]
    /\ inner_done' = inner_done \cup {Head(works[c])}
    /\ UNCHANGED <<vars, tc, do_panic, target, runner, fncpu, fnpc, fn_start, wait_failed>>

--------------------------------------------------------------------------------
CallbackStep ==
    \/ \E c \in CPU : FnBegins(c) \/ RunNested(c)
    \/ QueueNested \/ WaitDone \/ WaitTimesOut \/ DelayOver \/ TryLock \/ FnEnds

(* A thread of multi_cpu_stop(); the callback's return is FnEnds.           *)
MachineStep(c) ==
    /\ Machine
    /\ Step(c) /\ ~(pc[c] = "fn" /\ pc'[c] = "ack")
    /\ UNCHANGED testVars

(* Everything but a delay or a wait happens within the second it is due.    *)
TestUrgent ==
    \/ jiffies < now /\ \E c \in CPU : irq[c]
    \/ runner = "start"
    \/ Machine /\ (Returned \/ \E c \in CPU : Due(c))
    \/ ~UsesMachine /\ runner = "waiting" /\ fnpc \in {"idle", "over"}
    \/ \E c \in CPU : pc[c] = "fn" /\ fnpc = "idle"
    \/ fnpc \in {"queue", "finished"}
    \/ fnpc = "waiting" /\ (WaitedFor \in inner_done \/ jiffies >= fn_start + SafeWait)
    \/ fnpc = "delay" /\ now >= fn_start + DelayOf
    \/ fnpc = "trylock" /\ GivesUp
    \/ \E c \in CPU : works[c] # <<>> /\ StopperFree(c)

TestClock ==
    /\ \/ ~TestUrgent /\ Advance
       \/ \E c \in CPU : TimerIrq(c)
       \/ Machine /\ Bark
    /\ UNCHANGED testVars

RunStep == RunTest \/ RunReturns

TestOver ==
    /\ Halted \/ runner = "skipped" \/ runner = "returned"
              \/ (fnpc = "trylock" /\ now = MaxNow)
    /\ UNCHANGED allVars

TestNext ==
    \/ ~Halted /\ (RunStep \/ CallbackStep \/ TestClock \/ \E c \in CPU : MachineStep(c))
    \/ TestOver

TestSpec == TestInit /\ [][TestNext]_allVars

(* As in StopMachine; the stopper threads, the callback on one of them and  *)
(* the task that called run_tcNN() keep running, and time passes.           *)
TestFairness ==
    /\ \A c \in CPU : WF_allVars(~Halted /\ MachineStep(c))
    /\ WF_allVars(~Halted /\ CallbackStep)
    /\ WF_allVars(~Halted /\ RunStep)
    /\ WF_allVars(~Halted /\ ~TestUrgent /\ Advance /\ UNCHANGED testVars)
    /\ \A c \in CPU : WF_allVars(~Halted /\ TimerIrq(c) /\ UNCHANGED testVars)

TestFairSpec == TestSpec /\ TestFairness

--------------------------------------------------------------------------------
(* What the test module relies on.                                          *)

TestTypeOK ==
    /\ TypeOK
    /\ tc \in Tests /\ do_panic \in Modes /\ target \in Targets
    /\ runner \in {"start", "waiting", "returned", "skipped"}
    /\ fncpu \in CPU /\ fn_start \in 0 .. now
    /\ fnpc \in {"idle", "queue", "waiting", "delay", "trylock", "finished", "over"}
    /\ works \in [CPU -> Seq((1 .. 2) \X CPU)] /\ \A c \in CPU : Len(works[c]) <= 2
    /\ inner_done \subseteq (1 .. 2) \X CPU /\ wait_failed \in BOOLEAN

(* A nesting test in MODE B ends in the detector's panic, not in its own    *)
(* timeout and not in the watchdog: 3 s come before 5 s and before 11 s.    *)
NestedDeadlockPanics ==
    (tc \in Nesting /\ do_panic /\ runner = "waiting") ~> panicked

(* A nesting test in MODE A returns, and the machine goes on.               *)
NestedTestsReturn ==
    (tc \in Nesting /\ ~do_panic /\ runner = "waiting") ~> (runner = "returned")

(* The callback's verdict, when it lives to give one: it timed out if and   *)
(* only if it had queued the nested work on its own stopper in MODE A.      *)
WaitVerdict ==
    fnpc \in {"finished", "over"} /\ tc \in Nesting
        => wait_failed = (tc \in SelfNested /\ ~do_panic)

(* What section 4 of the dump finds on the stoppers: the works the one      *)
(* callback has queued, in queueing order, two of them in TC06, and one,    *)
(* not a ring, in TC15.                                                     *)
AllPending == \A c \in CPU : works[c] = IF c = NestOn(fncpu) THEN NestedWorks(fncpu) ELSE <<>>

(* When a nesting test panics, it is in RUN, with the callback waiting and  *)
(* every nested work pending.                                               *)
PendingAtPanic ==
    panicked /\ tc \in Nesting => state = RUN /\ fnpc = "waiting" /\ AllPending

(* The circular wait, whatever the timing: in MODE B, and in MODE A when    *)
(* the work is on the callback's own stopper, no nested work runs before    *)
(* the callback has given up.                                               *)
CircularWait ==
    tc \in Nesting /\ (do_panic \/ tc \in SelfNested) =>
        /\ fnpc \in {"waiting", "finished"} => AllPending /\ inner_done = {}
        /\ fnpc \in {"finished", "over"} => wait_failed

(* Behind it: nothing is queued before the callback queues it ...           *)
HasQueued == tc \in Nesting /\ fnpc \notin {"idle", "queue"}

NothingBefore ==
    /\ ~HasQueued => inner_done = {} /\ \A c \in CPU : works[c] = <<>>
    /\ fnpc \in {"queue", "waiting"} => tc \in Nesting
    /\ fnpc \in {"delay", "trylock"} => tc \notin Nesting

(* ... and the callback is on its stopper while it runs.                    *)
CallbackInFn ==
    fnpc \notin {"idle", "over"} => runner = "waiting" /\ (UsesMachine => pc[fncpu] = "fn")

(* A callback that waits has its interrupts on; no other thread has.        *)
IrqsOffButWaiting ==
    \A c \in Threads :
        curstate[c] >= DISABLE_IRQ /\ pc[c] # "done" => ~irq[c] \/ (HasQueued /\ c = fncpu)

(* The times of the patch and of its tests: the threshold is passed before  *)
(* a wait gives up and before the watchdog barks.  With a second CPU some   *)
(* thread polls while the callback waits; and none is stuck from elsewhere. *)
InTime ==
    /\ \E a, b \in CPU : a # b
    /\ Timeout + 1 < SafeWait /\ Timeout + 1 < BarkTime
OnSchedule == InTime /\ Wedged = {}

(* There, everything but a callback takes no time ...                       *)
StartsAtOnce == runner \in {"start", "waiting"} /\ fnpc \in {"idle", "queue"} => now = 0

(* ... who has detected something does not go back to the loop, and one of  *)
(* them at a time waits for the others in the backtrace ...                 *)
DetectsOnce ==
    /\ \A c \in Threads : /\ timed_out[c] <=> pc[c] \in {"dump", "backtrace", "panic"}
                          /\ timed_out[c] => now > Timeout
    /\ \A c, d \in Threads : pc[c] = "backtrace" /\ pc[d] = "backtrace" => c = d

(* ... nobody counts the time a callback takes that does not wait ...       *)
ClockStands ==
    runner \in {"start", "waiting"} /\ tc \notin Nesting =>
        /\ fnpc = "over" => curstate[fncpu] >= RUN
        /\ (\A c \in Threads : pc[c] # "done") => jiffies = 0

(* ... one that waits in MODE B is counted until the threshold ...          *)
PanicsInTime ==
    tc \in Nesting /\ do_panic =>
        /\ fn_start = 0 /\ \A c \in Threads : start_jiffies[c] = 0
        /\ fnpc \in {"idle", "queue", "waiting"} /\ ~barked
        /\ fnpc = "waiting" => irq[fncpu] /\ now <= Timeout + 1
        /\ panicked => fnpc = "waiting"

(* ... and in MODE A another stopper serves the nested work at once.        *)
ServedInTime ==
    tc \in Nesting /\ ~do_panic =>
        /\ ~panicked /\ ~barked
        /\ tc \in CrossNested =>
              /\ ~wait_failed
              /\ runner = "waiting" /\ tc # 15 => HasNext(target)
              /\ fnpc # "idle" => NestOn(fncpu) \in CPU \ {fncpu}
              /\ fnpc = "waiting" /\ WaitedFor \notin inner_done
                    => works[NestOn(fncpu)] = <<WaitedFor>> /\ now = 0

Schedule == StartsAtOnce /\ DetectsOnce /\ ClockStands /\ PanicsInTime /\ ServedInTime

TestIInv ==
    /\ TestTypeOK /\ LockStep /\ AdvanceAlone /\ AckCountIsMissing /\ SomebodyOwes
    /\ IrqsOffButWaiting /\ NothingBefore /\ CallbackInFn /\ CircularWait
    /\ (OnSchedule => Schedule)

(* A nesting test ends before the watchdog barks, by the detector's panic   *)
(* or by the 5 s time-out: with every CPU polling or serving its stopper,   *)
(* no dump has to wait out a CPU that does not answer its backtrace IPI.    *)
NestedBeforeBark == tc \in Nesting => ~barked

(* On a prompt machine whose stop operation spans every CPU, the detector   *)
(* fires only while some thread is missing from PREPARE; or while the       *)
(* callback has given up its CPU to wait; or after the callback, once a CPU *)
(* that has left lets jiffies catch up.  A delay or a lock alone, with the  *)
(* interrupts off, does not make it fire.                                   *)
FiresOnlyWithCause ==
    [][\A c \in Threads : ~timed_out[c] /\ timed_out'[c]
          => \/ state = PREPARE /\ \E t \in Threads : ~Acked(t)
             \/ tc \in Nesting /\ fnpc = "waiting"
             \/ \E t \in Threads : pc[t] = "done"]_allVars

(* TC01, 09 and 12, and TC08 in MODE A, return without a panic.             *)
SafeTestsReturn ==
    (tc \in Returning \/ (tc = 8 /\ ~do_panic)) => <>(runner = "returned")

--------------------------------------------------------------------------------
(* What the test module says, and the patch it tests does not do.           *)

(* TC07: "This test MUST complete without panic."                           *)
IrqOffNeverPanics == tc = 7 => ~panicked

(* TC02, TC17 and TC08 in MODE B print "BUG: should have panicked!" when    *)
(* stop_machine() returns.                                                  *)
DelayAlwaysPanics ==
    tc \in {2, 17} \/ (tc = 8 /\ do_panic) => runner # "returned"

(* TC03, MODE A, is safe: the context on the stack of run_tc03(), which     *)
(* holds the work and its completion, outlives the work.                    *)
ContextOutlivesWork == runner = "returned" => \A c \in CPU : works[c] = <<>>
================================================================================
