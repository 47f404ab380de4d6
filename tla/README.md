# A verification project for the kernel debugging work of `resume`

The repository collects Linux kernel patches, modules and notes about one family
of failures: `stop_machine()` deadlocks on ARM64 Android devices, what triggers
them (kretprobe arming), and what detects them; beside it, an eBPF classifier
that chooses page sizes, an SCMI vendor protocol and a `fw_devlink` report. This
directory holds TLA+ models of the parts that keep state of their own: the deadlock
detector, its test module and its revision with staged dumps, the two ways dwc3-msm
arms its kretprobes, and the page-size classifier with the kernel hook that reads it;
with them the TLC configurations that check the models, and TLAPS proofs about each of
them.

## 1. Inventory

| | component | source | state | operations |
|---|---|---|---|---|
| A | stop_machine deadlock detector | `common-stop_machine-deadlock-panic-production.patch` | `msdata->state`, `thread_ack`; per thread `curstate`, `start_jiffies`, `timed_out`; the IRQ flag of each CPU, `jiffies` | one pass of the loop of `multi_cpu_stop()`, `ack_state()`, `set_state()`, position C, the dump, `panic()` |
| B | test module | `stop_machine_test-1.c` | module parameters, nested works on the stoppers' lists, completions, each callback's `t0` | `run_tc01()` .. `run_tc17()` and their callbacks |
| C | staged dumps (8 s, 8.8 s, panic at 10 s), and the revisions before them | `Stop_machine-dual-allcpu-dump-8s-9s-panic-10s.patch`; `Stop_machine-allcpu-dump-8s-panic-10s.patch`, `stop_machine-focused-dump-percpu-snapshot-*.patch` | `stopper_dump_owner`, per-CPU snapshots and done flags, the second dump's trigger | as A, with snapshot, first dump, race for the dump, waits with deadlines, report, second dump |
| D | mTHP classifier and hook | `auto_classifier_kern_v3-1.c`, `0003-mm-hint-map-per-region-key.patch` | `density_map`, `vma_cache`, `vma_scratch_map`, `hint_map`, `system_map` | a fault on any CPU, process exit, reclaim begin and end, the loader's refresh, LRU reuse, the kernel's read of a hint |
| E | deferred kretprobe registration | `defer-kretprobe-registration.patch` | the delayed work, `dwc3_msm_kretprobe_registered`, each probe | init, the work, exit |
| F | dwc3-msm kretprobe helper | `0001-dwc3-msm-kretprobe-fix-watchdog-deadlock-SM4100-1.patch` | `dwc3_msm_probes`, five tracepoint callbacks, `dwc3_msm_mod_nb`, deferred works | module init and exit, notifier callback, init with roll-back, exit, the handler that defers a work, the work |
| G | SCMI BWPROF protocol | `scmi_proto.c`, `scmi_protocol_v2.c` | one transfer per request | get, do, put; bounds of a reply |
| H | fw_devlink cycle path | `patches_fw_devlink_cycle_path_*.patch` | the path, its depth | push, pop, report |

Everything else is notes, interview questions, build logs, shell scripts and
logging patches against kernel files that are not in the repository; they keep
no state. `PROJECT.json` lists each.

### How the parts interact

E and F arm kretprobes; arming calls `stop_machine()`, whose work on every
stopper thread runs the loop of A. A stopper that is busy (with the scheduler's
load balancing, or with a stop callback that itself waits for a stopper) never
enters the loop: that is the deadlock A detects. B produces it on purpose, in
seventeen ways, and says of each whether the machine must crash. C is the same
detector with two dumps before the panic. The writer and the reader of D meet in
`hint_map` alone. G and H stand alone.

### What is hard

* **Interleaving.** The threads of `multi_cpu_stop()` are synchronised by two words
  alone, `state` and `thread_ack`, written in a fixed order by whoever acks last.
* **Time that stops.** The detector compares `jiffies`, which advance only while
  some CPU can take the tick. From DISABLE_IRQ on none of the stopped CPUs can.
* **Three clocks.** 3 s of `jiffies` (the detector), 5 s (the tests' waits and
  delays, some measured in `jiffies` and some in real time), 10 s (an unanswered
  backtrace IPI), 11 s (the hardware watchdog).
* **Lifetime.** A nested work and its completion live on the stack of the function
  that queued them.
* **Reports made while the world moves.** In C a thread reads what others write about
  themselves, with deadlines for those that never will, while stoppers may still arrive.
* **Maps without locks.** D runs on every CPU of a process at once. It reads a map,
  calls a helper and writes back; LRU maps hand an element to another key meanwhile.
* **Unload at any moment.** E and F race module exit against a work, a notifier and
  running handlers.

## 2. The modules

| module | extends | models |
|---|---|---|
| `StopBarrier` | | what `multi_cpu_stop()` promises: threads go through the phases in lock step |
| `StopMachine` | | component A on one stop operation, the tick, the watchdog |
| `StopMachine_proofs` | `StopMachine`, `TLAPS` | theorems about it |
| `MC_StopMachine` | `StopMachine` | instances for TLC |
| `StopMachineTest` | `StopMachine` | component B on top of A |
| `StopMachineTest_proofs` | `StopMachineTest`, `StopMachine_proofs` | theorems about it |
| `MC_StopMachineTest` | `StopMachineTest` | instances for TLC |
| `StopDump` | `StopMachine` | component C in the loop of A |
| `StopDump_proofs` | `StopDump`, `StopMachine_proofs` | theorems about it |
| `MC_StopDump` | `StopDump` | instance for TLC |
| `Dwc3Kretprobe` | | component F |
| `Dwc3Kretprobe_proofs` | `Dwc3Kretprobe`, `TLAPS` | theorems about it |
| `MC_Dwc3Kretprobe` | `Dwc3Kretprobe` | instance for TLC |
| `DeferKretprobe` | | component E |
| `DeferKretprobe_proofs` | `DeferKretprobe`, `TLAPS` | theorems about it |
| `MC_DeferKretprobe` | `DeferKretprobe` | instance for TLC |
| `MthpClassifier` | | component D |
| `MthpClassifier_proofs` | `MthpClassifier`, `TLAPS` | theorems about it |
| `MC_MthpClassifier` | `MthpClassifier` | instances for TLC |

### StopMachine

`pc[c]` is where the stopper of CPU `c` stands: `queued` (its work is on the list),
`loop` (about to read `msdata->state`), `fn`, `ack`, `reset` and `set` (the two writes
of `set_state()`), `check` (position C), `dump`, `backtrace`, `panic`, `restore`,
`done`. One action is one step another CPU can observe:

| code | actions |
|---|---|
| the stopper takes the work, snapshots `jiffies` (patch lines 353-383) | `Enter` |
| `newstate != curstate`: `local_irq_disable()` or the callback | `NewState`, `FnReturn` |
| `curstate > MULTI_STOP_PREPARE`: touch the watchdogs | `SameState` |
| `ack_state()`; `set_state()`: count first, state second | `AckDec`, `ResetAck`, `SetState` |
| position C: `!timed_out && time_after(...)` (lines 399-433) | `Detect`, `CheckPasses` |
| `stopper_deadlock_dump()`, then `panic()` | `BeginBacktrace`, `EndBacktrace`, `Panic` |
| after the loop | `Restore` |
| the tick, real time, the watchdog | `TimerIrq`, `Tick`, `Bark` |

The parts of `multi_cpu_stop()` the patch leaves unchanged are not in the
repository; they are modelled from the patch's context lines and marked external
in the map. (The patch's message, lines 48-60, and the
test module's header draw a loop in which the active CPU alone acknowledges, on every
pass. The loop being patched has every thread acknowledge every state once, and so has
the model; the active thread's repeated acknowledgement is the variant `SameStateAcks`,
and it breaks `IInv`.) The dump's sections only print, except for section 6: it waits for
every other CPU to take an IPI, or returns at once when another CPU is already in
it. That wait is the action `EndBacktrace`, its end the operator `BacktraceOver`.

Parameters: who is online (`CPU`), whose stoppers take part (`Threads`: all of them
for `stop_machine()`, two for `stop_two_cpus()`), who runs the callback (`Active`),
who never arrives (`Wedged`), who has its interrupts off for reasons of its own
(`IrqOff`), and the times. `Prompt` tells whether a CPU may need a whole tick for a
pass of the loop (it may under a hypervisor or in a long interrupt): the safety of
the state machine is checked and proved without it, the statements about the
detector's times need it.

### StopMachineTest

The module adds the caller (`runner`), the callback (`fncpu`, `fnpc`, `fn_start`), the
works pending on each stopper, and which of them have completed. MODE B
(`do_panic`) runs the callback from `multi_cpu_stop()`; MODE A runs the nesting tests
from `stop_one_cpu()`. The test cases are grouped by what their callbacks do: nest
on their own stopper (3, 4, 6), nest on another (5, 13, 14, 15), burn time (2, 7, 8, 17),
spin on a lock (16), return (1, 9, 12). A wait gives the CPU up with its interrupts on,
which is what makes `jiffies` advance in RUN. `NestOn(c)` is the CPU a nesting callback
queues on when it runs on `c`, `NestedWorks(c)` the works it queues there. A test that
needs a neighbour of its target, or a second CPU, and has none gives up (`NoNeighbour`).

### StopDump

The loop is `StopMachine`'s; what follows a detection is the branch of the dual-dump
patch. `stage[c]` says where in it a thread is, while its `pc` stays at `dump`:

| code (lines of the patch) | actions |
|---|---|
| `timed_out = 1` (849), `stopper_snapshot_self()`: the fields, then `valid` (408-422) | `StagedDetect`, `FillSnapshot`, `Publish` |
| the first `dump_stack()` and its flag (856-866) | `FirstDump` |
| `atomic_cmpxchg(&stopper_dump_owner, -1, cpu)` (869) | `WinOwner`, `LoseOwner` |
| the owner: Sec5, Sec6 (502-614) | `WaitFirst`, `Report` |
| the second dump: trigger, own dump, Sec7, `panic()` (703-750) | `Trigger`, `SecondDump`, `WaitSecond`, `PanicDue` |
| the others: poll, second dump, spin (893-904) | `Poll`, `SecondDump` |

A dump takes up to `DumpTime`. The owner's clock is `ktime_get()`, the model's `now`,
which runs whoever has interrupts off. `Late` names the CPUs whose stoppers may arrive at
any time or never: unlike `Wedged` they may complete the barrier after some thread has
detected. A slot is static per-CPU data (392): until its thread fills it, it reads as
zeroes, which Sec6 would print as `curstate=NONE`. Three variables are history: `printed`,
the threads whose slot Sec6 prints, `reported`, the `curstate` it prints of each, and
`awaited`, the threads whose first dump was over when the second was asked for.

### Dwc3Kretprobe

Two tasks run the helper's code: `helper`, inside the helper's own `insmod` and `rmmod`,
and `dwc`, inside those of dwc3_msm, from which the notifier is called. `pc` and the loop
variables `i`, `j` are theirs; `armed`, `traced`, `works` and `nb` are what the kernel holds
of the helper: registered probes, registered tracepoint callbacks, pending works, the
notifier. Each registration is a step, since each may sleep and each may fail.

| code (lines of the patch) | actions |
|---|---|
| `dwc3_msm_kretprobe_init()` (599-650) | `ArmProbe`, `ArmFails`, `RollBack`, `AllArmed`, `UndoProbe`, `AllTraced` |
| `dwc3_tp_register_all()` (490-514) | `RegisterTrace`, `TraceFails` |
| `dwc3_msm_kretprobe_exit()` (652-666) | `DisarmProbe`, `Untrace`, `Flush` |
| `entry_dwc3_gadget_run_stop()` (277-330), its work (111-128) | `HandlerDefers`, `WorkRuns` |
| `dwc3_msm_mod_notifier_cb()` (672-705) | `NotifyLive`, `NotifyGoing`, `Notified` |
| module init (712-753) and exit (755-759) | `RegisterNotifier`, `CheckLive`, `LoadOver`, `LoadFails`, `Unload`, `UnloadOver` |
| the kernel's loader, for dwc3_msm | `DwcComing`, `DwcLive`, `DwcGoing`, `DwcFreed` |

Of the kernel the model takes: a module's state changes before the notifier chain is
called; `unregister_module_notifier()` waits for a callback that is running;
`register_kretprobe()` fails on a probe already registered and on a function of a
module that is going or gone; `unregister_kretprobe()` and
`tracepoint_synchronize_unregister()` wait for running handlers, and unregistering a probe
that is not registered warns (the deferral patch says so, lines 54-55) and changes
nothing, so that `DisarmProbe` leaves the state as it is. (`WarnsOnlyAfterFailure` follows the
warning in E; here the exit meets it when the notifier's init has failed.) Two probes of
the table are not dwc3_msm's (`Foreign`): `android_work()` and
`usb_ep_set_maxpacket_limit()` (line 555), which belong to the USB gadget core.

### DeferKretprobe

Here dwc3_msm arms its own probes from a delayed work. One task loads and unloads it
(`pc`, `j`), a worker runs `dwc3_msm_kretprobe_work_fn()` (`work`, `i`). The burst of load
balancing the delay is meant to outlast is a stretch of time at the start (`burst`). A
registration that calls `stop_machine()` while the burst lasts may deadlock, and the
detector's panic ends it (`Deadlock`); so may an unregistration. The tick is a second.

| code (lines of the patch) | actions |
|---|---|
| `dwc3_msm_kretprobe_init()` (204-228) | `Load` |
| the timer, the worker (184-202) | `TimerFires`, `WorkBegins`, `StopBegins`, `Registers`, `RegisterFails`, `WorkEnds` |
| `cancel_delayed_work_sync()` (246-251) | `CancelPending`, `CancelWaits` |
| the rest of the exit (253-267) | `CheckFlag`, `Unregister`, `ExitOver` |

Of the kernel the model takes: `cancel_delayed_work_sync()` says whether it has removed a
pending work and otherwise waits for a running one; `unregister_kretprobe()` on what is
not registered warns.

### MthpClassifier

Each task of `Ids` is a thread, which is in a fault (`pc`, `at`) or not; `tgid` gives its
process. The handler is cut wherever another CPU can come between: the lookup in
`vma_cache`, `bpf_find_vma()` into the process's one scratch entry, reading that back, the
lookup in `density_map`, the load and the store of `fill_count++`, the hint. A record is an
element that may change hands while a handler points to it. The count the hint is made from
is read once more (line 370): the handler's own, if the compiler keeps it, or what the
element holds by then (`Reread`). Counts stop at `FILL_VHOT`,
above which all mean the same order.

| code (`auto_classifier_kern_v3-1.c`) | actions, operators |
|---|---|
| entry, region key (277-295) | `Fault`, `Key` |
| the VMA: cache, scratch, exclusion (297-344) | `CacheHit`, `CacheMiss`, `ScratchEmpty`, `ReadScratch`, `TakeKind` |
| the count (346-367) | `LookupDensity`, `InsertRecord`, `LoadFill`, `StoreFill` |
| benefit, cost, hint (369-409) | `Reread`, `FillToOrder`, `Ideal`, `StepDown`, `WriteHint` |
| exit, reclaim (434-466) | `Exit`, `ReclaimBegin`, `ReclaimEnd` |
| the hook of the 0003 patch | `HookKey`, `PreferredOrder` |
| maps and loader | `EvictHint`, `EvictVma`, `EvictDensity`, `Refresh` |
| tasks and address spaces | `Clone`, `Spawn`, `Remap`, `Served` |

What may happen in a behaviour beside faults is fixed at its start by `world`: one of
`Worlds`, which names the happenings, the address spaces, the loader's samples and the
elements of `density_map`. A property that needs, say, one thread per process says so of
the world. `auto_classifier_kern_v3.c` is the same program with one hint per process: the
variant `ProcessKey`, which breaks `HintEarned`. The loader is not in the repository, nor
is the code that copies hints from the BPF map to the kernel's `g_hint_htab`; the model
takes the two as one map. Direct reclaim is entered in faults only.

## 3. The runs

| run | instance | checks |
|---|---|---|
| `stop_barrier` | 3 CPUs, threshold 1 tick, 3 ticks, any interleaving, any speed | `IInv`, `FnRunsAlone`, `NobodyLeavesEarly`, `HangHasCause`, `NoStateSkipped`, `BarrierSpec` (refinement), `StopEnds` (liveness) |
| `test_cases` | 3 CPUs, all fifteen tests, both modes, every target; 3, 5, 10, 11 s | `TestIInv`, `WaitVerdict`, `PendingAtPanic`, `NestedBeforeBark`, `FiresOnlyWithCause`, `NestedDeadlockPanics`, `NestedTestsReturn`, `SafeTestsReturn` (liveness) |
| `dump_staged` | 3 CPUs, two of them late or missing; 400 ms ticks | `DumpIInv`, `SnapshotsWhole`, `DetectionFinal`, `DumpsComplete`, `PanicBeforeBark`, `DetectedPanics`, `StuckPanics` (liveness) |
| `stop_irqoff_cpu` | `stop_two_cpus()`, the other CPU wedged with IRQs off | violates `PanicBeforeBark` |
| `test_tc07` | TC07 | violates `IrqOffNeverPanics` |
| `test_delays` | TC02, TC08, TC17 | violates `DelayAlwaysPanics` |
| `test_tc03_context` | TC03, MODE A | violates `ContextOutlivesWork` |
| `dwc3_life` | 4 probes, 2 tracepoints, 2 works, 2 loads of dwc3_msm | `Dwc3IInv`, `CleanAfterUnload`, `ProbesAllOrNone`, `NoProbeInFreedText`, `UnloadsEnd` (liveness) |
| `dwc3_failed_load` | the same | violates `NoProbeOutlivesHelper` |
| `defer_life` | 3 probes, 2 loads, a delay of 5 s, bursts of 5 s and 6 s | `DeferIInv`, `NothingLeft`, `WarnsOnlyAfterFailure`, `FlagAfterCancel`, `NoStopInBurst`, `UnloadEnds` (liveness) |
| `mthp_hints` | 2 task ids, 3 addresses in 2 regions, 2 records, eight worlds | `MthpIInv`, `OrderNeedsFaults`, `HintEarned`, `PromotesDataOnly`, `HintsWithinGuard`, `HintsOnlyGrow`, `HotRegionPromoted` (liveness) |
| `mthp_hook` | the world with threads | violates `HookFindsHint` |

**Bounds.** Three CPUs tell apart the active thread, the last to acknowledge and a
third that is neither; they also make two CPUs detect at once, which the IPI
backtrace needs (with two, the second detector never meets the first). Time is
bounded by `MaxNow`: past the last threshold of each run (3 ticks with a threshold of
1, where only the order of events matters; 12 s with the patch's own times).
A delay or a wait at the end of time is not cut short: the runs with liveness
properties have no behaviour that needs more.

In `StopDump` the 8 s to the detection are brought down to 2.4 s, six ticks of 400 ms, and
the watchdog's 11 s with them. The windows keep their lengths (800, 800, 1600, 2000 ms),
and the time to the detection stays longer than the time from there to the panic, on
which it depends who can still detect. Two of three stoppers may be late: one that comes
before the detection and one after, one that comes and one that never does, and both.

In `DeferKretprobe` three probes are one before, one at and one after a failure or an
unload; one of the bursts ends as the timer of a module loaded at its start fires, the other
lasts a tick longer: the boundary `NoStopInBurst` is about. In `MthpClassifier`
the thresholds 2, 16 and 64 become 2, 3 and 4, and the VMA cache's 1000 hits become 1: two
increments lost or one region's count in another's record already change the order. Two
addresses share a region, so that it can hold two VMAs. One region is crowded out when a
world gives `density_map` one element. `MthpClassifier` and `Dwc3Kretprobe` have no clock.

In `Dwc3Kretprobe` the four probes stand for `dwc3_gadget_run_stop()`, which defers works,
the two foreign ones and `dwc3_suspend_common()`, in the table's order: there are some before
and some after each failure, and dwc3_msm's own on both sides of the foreign ones. Two
tracepoints are one registered and one
that fails; two loads let dwc3_msm come back while the helper is still inside a step.

**Fairness.** Each stopper thread is weakly fair: it runs at the highest priority and
spins without sleeping, and nothing in the loop can disable its step for ever. Time
advances, and a CPU with interrupts on takes its pending tick. The callback and the
task that called the test are fair in `StopMachineTest`: both are runnable threads.
The watchdog is not: whether it barks is left open once its time has come. In `StopDump`
a late stopper need not arrive; once in the loop it is fair like the others.

In `Dwc3Kretprobe` a task that is inside a system call goes on, and the workqueue runs
its works; whether anybody loads or unloads a module is left open. In `DeferKretprobe`
the worker runs, time passes, and an unload that has begun goes on. A BPF program runs to
its end, which the verifier ensures: so `Handler` is fair in `MthpClassifier`, and faults,
forks and evictions are not.

**What is not assumed.** Nothing orders the threads' steps, the ticks of different
CPUs, or the time a callback takes. In
`Dwc3Kretprobe` the two tasks interleave at every registration, and every registration
may fail. In `MthpClassifier` two handlers interleave at every map access.

## 4. What is proved

`StopMachine_proofs`, for any finite set of threads, any set of active CPUs, any
wedged CPUs, any times, prompt or not:

* `Inductive`: `IInv` is an invariant. It is `TypeOK` and five parts. `LockStep`: a thread
  is at `state` or one behind it, and one behind owes no acknowledgement.
  `AdvanceAlone`: when a thread is between the two writes of `set_state()`, every
  thread has acknowledged and it is the only one there. `AckCountIsMissing`:
  otherwise `thread_ack` is the number of threads that have not acknowledged, so the
  decrement that reaches zero is the last. `SomebodyOwes`: some thread always has an
  acknowledgement or the state's advance ahead of it. `IrqsStayOff`: from DISABLE_IRQ to the end
  a thread's interrupts are off. None is inductive alone: the count needs lock step
  (a thread two states behind would be counted once), lock step needs the count (the
  state advances only when nobody is missing), and both need that the writer is alone.
* `CallbackRunsAlone` and `LeaveTogether`: `FnRunsAlone` and `NobodyLeavesEarly` follow.
* `HangsOnlyWithCause`: `HangHasCause` follows. Until the operation is over some thread has
  something to do, unless a stopper is wedged, a callback has not returned or a dump waits
  for its IPI: the barrier adds no way of its own to hang. With all threads polling a state
  they have acknowledged, `SomebodyOwes` leaves only the state after EXIT, where all are out.
* `EveryStateSeen`: `NoStateSkipped`, an action property.
* `ImplementsBarrier`: `Spec => BarrierSpec`, by the mapping that calls a phase begun
  when `curstate` takes its number and finished when `ack_state()` has counted it.

The lemmas are about one step of one thread, over the parts without the last (`LockInv`), which
need no interrupts, so that the modules that put `Step` into a larger next-state relation
use them as they are.

`StopMachineTest_proofs`, for any number of CPUs, any tests of those modelled, either mode,
any target and any times:

* `TestInductive`: `TestIInv` is an invariant. It is `TestTypeOK`, the lock-step parts of `IInv`,
  `IrqsOffButWaiting` (the thread whose callback waits is the only one with its interrupts
  on: in `StopMachineTest` `IrqsStayOff` is false), `CallbackInFn`, `NothingBefore`,
  `CircularWait` and, on schedule, `Schedule` (below). `CallbackInFn` puts the callback's
  thread in RUN while it waits, so no thread has left `multi_cpu_stop()`, so no stopper
  serves a nested work: that keeps `CircularWait`.
* `NestedNeverServed`: `CircularWait` alone. In MODE B, and in MODE A on the callback's own
  stopper, the wait can only time out, on any machine and at any speed: that the tests are
  the deadlocks they are said to be does not depend on the times the run is given.
* `TestImplementsBarrier`: `TestSpec => BarrierSpec`, by the same mapping.
* `VerdictIsRight`, `PanicFindsWorks`, `NoBarkWhenNested`: `WaitVerdict`, `PendingAtPanic` and
  `NestedBeforeBark`, under `OnSchedule`. `FiresWithCause`: `FiresOnlyWithCause` under `InTime`.

  `InTime` says of the constants that the threshold and one tick are less than the tests'
  5 s and the watchdog's time (patch: 3 s, 5 s, 11 s), and that there are two CPUs or more;
  `OnSchedule` adds that no stopper is wedged from elsewhere. `MC_StopMachineTest` asserts it,
  so the run evaluates it, and the run checks `Schedule` as part of `TestIInv`. On a single CPU
  nobody polls while the callback waits, and its 5 s end the wait. `FiresWithCause` does without
  the assumption on stoppers: a wedged one keeps the stop in PREPARE, which is itself a cause.

  `Schedule` has five parts. `StartsAtOnce`: until the callback waits or delays no time passes,
  as somebody always has something to do (`HangHasCause` again). `DetectsOnce`: who has detected
  is in its dump, past the threshold, and one at a time is in the backtrace. `ClockStands`: `jiffies`
  is still 0 while a callback that does not wait keeps all interrupts off. `PanicsInTime`: a nested
  wait in MODE B lasts at most the threshold and one tick. Of the threads that poll
  meanwhile one at most is in the backtrace, so another can act, or the only one can, as the
  callback's CPU takes its IPI: time waits for it.
  `ServedInTime`: in MODE A the work is on another CPU, whose stopper is free, so it is done
  before any time passes.

`Dwc3Kretprobe_proofs`, for any number of probes, tracepoints, works and loads:

* `Dwc3Invariant`: `Dwc3IInv` is an invariant. It is `Dwc3TypeOK`, `DwcPhase` (where dwc3_msm's
  task is tells the module's state), `TextInv`, `TableShared` and `TableCleared` (below), and
  `UnloadInv`: from the first step of the helper's exit on, the notifier neither runs nor
  can begin, and what the exit has undone so far stays undone. `CleanAfterUnload` is not inductive: that
  no work is pending at the end needs that none can be deferred after the flush, hence
  that no probe is armed by then, hence that the probes left during the loop are those
  it has yet to reach, and that nobody else arms one.
* `NothingLeftBehind`: `CleanAfterUnload` follows.
* `FreedTextUnpatched`: `NoProbeInFreedText` follows. `TextInv` says that while the notifier is
  registered, nothing of dwc3_msm is armed from the end of the notifier's loop on, although
  the helper may itself be inside init at the time: a function of a module that is going
  cannot be armed, and the loop takes back all before it.
* `AllOrNone`: `ProbesAllOrNone` follows, in the first load of dwc3_msm, with the two inits at once
  along the one table. `TableShared`: while dwc3_msm is live the registered probes are split
  between the two tasks, each holding what its own loop says it holds (`Held`), since a
  registration fails on the other's probe; so a task comes to the end of the table only if it
  holds all of it. `TableCleared`: once the exit has been through the table, a helper's init that is
  still under way finds dwc3_msm going and cannot reach the end. This needs that the last
  probe is dwc3_msm's, assumption `TableEnd`. The last is `dwc3_suspend_common()` (line 562 of the
  patch); dwc3_msm's source is not in the repository, and that the function is its own rests
  on its name and on the patch's comments (lines 12-13, 691-695), which say it of all the
  table. Were a foreign probe the last, the helper could arm that one alone and call it done.

`StopDump_proofs`, for any threads, any of them late, any windows, prompt or not:

* `DumpInductive`: `DumpIInv`, that is `IInv`, `DumpTypeOK`, `StagesOK` and, on time,
  `Deadlines` (below). The steps of the loop keep `IInv` by the lemmas of `StopMachine_proofs`; the branch touches the state machine
  only at its two ends. `StagesOK` ties each flag to the stages a thread has been through
  and the orchestrating stages to `stopper_dump_owner`.
* `SnapshotsStayTrue`: `SnapshotsWhole` follows. Of every thread it prints, the owner prints a slot the
  thread has filled, never the zeroes it starts from, and what it prints equals the
  thread's `curstate` up to the panic. It needs that a slot is filled before it is published
  (the variant `FillSnapshotLate` breaks it), that a thread has taken PREPARE before it can
  detect, that nobody in the branch goes back to the loop, and that nobody else writes
  `curstate`.
* `NoCallbackAfterDetection`: by `LockStep`, one thread held in PREPARE keeps `state` at most at
  DISABLE_IRQ, whoever arrives later.
* `DumpImplementsBarrier`: `DumpSpec => BarrierSpec`.
* `PanicFindsAllDumps` and `PanicBeforeTheBark`: `DumpsComplete` and `PanicBeforeBark`, under `OnTime`,
  for any number of CPUs, any of them late but one.

  `OnTime` says of the constants that CPUs are prompt, no stopper is wedged, some stopper is not
  late, and the windows leave room for a console's slowness:
  `LastTrigger + DumpTime < PanicWindow` and `Timeout + 1 + DumpTime + PanicWindow < BarkTime`.
  `MC_StopDump` asserts it. With the patch's 8 s, 800, 800, 1600 and 2000 ms (lines 333-336) and
  the watchdog's 11 s, the first allows a `dump_stack()` less than 1.2 s, and the second
  a tick less than 1 s: on a slower console the watchdog may bark first, as the windows
  count from the end of the owner's first dump.

  `Deadlines` follows the detection to the panic. `DetectsInTime`: nobody has detected, and the time to
  is not over, or the stop has returned. (Somebody who polls detects at the first tick past
  the threshold: a stopper that has yet to come has its interrupts on, and while one is
  missing the others poll in PREPARE.) `OwnedInTime`: before there is an owner, somebody is on its
  way through the first dump. `OwnerInTime` and `SecondInTime`: the owner, and everyone asked for a
  second dump, is in a stage its deadline allows. `DumpsComplete` then says that second dumps
  begun by the last trigger end before the panic.

`DeferKretprobe_proofs`, for any number of probes and loads, any delay and any bursts:

* `DeferInvariant`: `DeferIInv` is an invariant. It says, for each place the loading task and
  the worker can be in together, which part of the table is armed, which has failed, and
  whether the flag can be set. `UnloadIsClean`, `NoWarnWithoutFailure` and `FlagIsSet` follow.
* `DeferralSuffices`: a burst no longer than the delay is over when the work begins. The
  invariant carries that such a burst, as long as the timer runs, has no more left to it than
  the timer.

`MthpClassifier_proofs`, for any tasks, addresses, regions, thresholds and worlds:

* `MthpInvariant`: `MthpIInv` is an invariant. `NothingMadeUp`: no count, stored or in a
  handler's hands, exceeds the number of faults counted; this survives LRU reuse and lost
  increments, which move counts and lose them. `KeysApart`: with one thread per process and
  room in the map, an element is only worked on under its own key. `VmasTrue`: with fixed
  address spaces, the cache and the scratch entry hold VMAs of the process. `HintsBacked`:
  with both, and no exit, no new sample and no hint evicted (`Calm`), the count in a region's one record would earn, for every VMA of
  the region, at least the hint the region has.
* `NoOrderForNothing`, `HintsEarned` and `DataIsPromoted` follow. `GuardKept` is its own
  induction: `system` does not change, and `StepDown` never returns what the guard refuses.
* `HintsGrow`: `HintsOnlyGrow`, an action property. A hint is written for a count no smaller than
  the one that backs the old hint, and more faults never earn less (lemma `PromiseGrows`). It
  needs that no second record of the region comes up (`OneRecord`) and that a hint without a
  record does not exist.

The assumptions are `StopAssumption`, `TestAssumption`, `DumpAssumption`, `Dwc3Assumption`, `TableEnd`,
`DeferAssumption` and `MthpAssumption`, which the runs evaluate. The last one asks that
`1 < FILL_WARM <= FILL_HOT <= FILL_VHOT` and that the VMAs of an address space are disjoint.
`InTime`, `OnSchedule` and `OnTime` are not assumptions of the modules but hypotheses of the
theorems that name them, about the constants alone.

Only model-checked: liveness (`StopEnds`, `NestedDeadlockPanics`, `NestedTestsReturn`,
`SafeTestsReturn`, `DetectedPanics`, `StuckPanics`, `UnloadsEnd`, `UnloadEnds`,
`HotRegionPromoted`), which is out of the prover's reach. Every invariant and every action
property of the passing runs is stated by a theorem. That `NestedDeadlockPanics` is timely
follows from two of them nevertheless: a nested wait in MODE B never lasts longer than the
threshold and a tick (`TestInductive`, its part `PanicsInTime`), and at that moment somebody can
act (lemma `PollersAct`).

## 5. Where the code and its comments disagree

1. `stop_irqoff_cpu`. The patch says the panic "always wins the ramdump capture race".
   In a `stop_two_cpus()` whose other CPU has its interrupts off, the one detecting
   thread waits 10 s in the IPI backtrace and the watchdog barks first. (With two
   detecting CPUs the second finds the backtrace taken and panics at once; this is
   why `NestedBeforeBark` holds of the nesting tests and `PanicBeforeBark` of the staged
   dumps.)
2. `test_tc07`. TC07 "MUST complete without panic". When the callback ends after 5 s,
   the first thread out of EXIT lets its pending tick bring `jiffies` up to date, and a
   thread still in front of position C sees the threshold passed.
3. `test_delays`. TC02, TC08 in MODE B and TC17 print "BUG: should have panicked!" when
   `stop_machine()` returns. Their callbacks run in RUN, with every CPU's interrupts
   off: the frozen `jiffies` let `stop_machine()` return.
4. `test_tc03_context`. In MODE A the nested work is still queued when `stop_one_cpu()`
   returns, and its memory is the returning function's stack.
5. `dwc3_failed_load`. The helper registers its notifier, then looks at dwc3_msm's state,
   as "the notifier will not fire retroactively" (line 732). Between the two it does fire.
   Then both call init, the one in module init fails on a probe that the other has
   registered, its roll-back takes back only what it had armed itself, and the load
   fails: the helper is freed with probes registered.

6. `mthp_hook`. "The kernel hook reads this same key for the faulting address" (line 401). The
   classifier's key has the process's id, `bpf_get_current_pid_tgid() >> 32`, the hook's the
   thread's, `task_pid_nr(current)`: a fault of a thread that is not the leader finds no hint.

Two more ways to leave something behind are in the model without a run, as no line of the
patch says they cannot happen: a load that fails at a tracepoint leaves the callbacks
before it registered (`TraceFails`, `UndoProbe`), and one that fails while a handler's
work is pending does not flush it (`LoadFails`). `ProbesAllOrNone` is stated for one load
of dwc3_msm: while the helper's init is slow, dwc3_msm can go and come again, and the two
inits then share the table.

Of the detector, four more follow from the model at once and have no run: with `stop_two_cpus()` a third
CPU's tick keeps `jiffies` going, so the threshold is not suppressed in DISABLE_IRQ and
RUN as line 168 of the patch says; `timed_out` is one per thread, so it does not prevent
two dumps as the test module says of it (line 1539); TC03 in MODE B panics in RUN and not
in PREPARE (`PendingAtPanic`), and TC15 queues one work and not a ring, as
`stop_machine()` without a mask runs the callback on the first CPU only
(`PendingAtPanic`); TC16 in MODE A never gives up, its 5 s being frozen `jiffies`.

Of the staged dumps (lines of the dual-dump patch), without a run:

* "DISABLE_IRQ/RUN: jiffies frozen, time_after() false" (line 805), and "CPUs in DISABLE_IRQ
  state cannot detect the timeout" (lines 67-68): when the last stopper arrives after one
  thread has detected in PREPARE, the others go on to DISABLE_IRQ, and the tick of the one
  that stays behind keeps `jiffies` going. They detect there, with interrupts off.
* "Signature G: CPU is_active=NO, curstate=NONE" (line 591) can never be printed: a thread detects
  only in a state it has taken up, and its slot is filled before Sec6 can read it
  (`SnapshotsWhole`).
* A CPU whose stopper never arrived is logged as "IRQs disabled (DISABLE_IRQ/RUN)" (lines
  529-531, 602): it is the very deadlock the patch is for, and its interrupts are on.
* The second dump "proves it is a true livelock, not a transient delay" (lines 75-76): a thread
  that has detected takes no further part in the barrier, so there is no progress to see.
* The deadlines count from `ktime_get()` at line 880, after the owner's first dump, and
  not from when `time_after()` fired, as line 621 says.

Of the classifier (lines of `auto_classifier_kern_v3-1.c`), without a run:

* With threads the exclusion of stacks and code is not ensured: two searches share one
  scratch entry (line 318), and what is read back may be the VMA of another address.
* A fault that is only counted "takes its own default path" (line 353) unless a hint of an
  earlier life of the record is still in `hint_map`; nothing removes hints at exit.
* One flag stands for all reclaimers (line 464): the first to end clears it.
* `fill_count` is said to count distinct pages (line 105) and counts faults; the file cap is
  said to be for read-write files (line 379) and is for all.

Of the deferred registration: a registration that fails is logged and the flag is set all
the same, so that the exit unregisters what was never armed, which the patch's own lines
54-55 say triggers a WARN_ON (`WarnsOnlyAfterFailure` says that this is the only way).

## 6. Not modelled

* The dump's printing sections, `sysrq`, and the log format: no state changes.
* TC10 and TC11 (stress and priority threads), TC18 (all tests in sequence) and the CPU
  hotplug of TC09: they exercise the scheduler and hotplug core, which are not here.
* Wrap-around of `jiffies` and of the 32-bit `fill_count`: the intervals and counts are far
  below their range. The loader's `system_map` read while it is half written.
* The bodies of the dwc3 handlers, but for the one that defers a work: they touch dwc3_msm's
  own registers and flags, of which the patch shows fragments.
* The revisions of the detector before the two modelled: the per-CPU snapshot dumps have
  the snapshot and the ownership of `StopDump` with one dump fewer and 3 s instead of 8 s
  (its variant `PollNot`), and differ otherwise in what they print.
* G: each call builds one message and gets, sends and puts one transfer; no state is kept.
* H: a recursive search of the kernel's graph of firmware nodes, of which the patch shows
  the pushes and pops around each call. At its maximum depth of 256 it skips the push and
  still pops, so that the path printed from deeper cycles is short of its last steps.
* The classifier's events for a dashboard, which nothing reads back; its history, patches
  against files that are not here. Notes and scripts: no state.

## 7. Plan

What a next step would take up, in this order:

1. Abstract specifications of what E and D promise, as `StopBarrier` is one of A: a table
   of probes that is armed and taken back as a whole, a hint per region that its faults have
   earned; the detailed modules shown to implement them.
2. `ProbesAllOrNone` does not hold of several loads of dwc3_msm: the statement that does, of
   what two inits at once leave of the table.
3. `FwDevlinkCycle` (H): the path and its depth along a search of a small graph.
4. TC10 and TC11 with a model of kthreads.
