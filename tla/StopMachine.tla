------------------------------ MODULE StopMachine ------------------------------
(***************************************************************************)
(* One stop operation: the state machine of multi_cpu_stop() as it runs on *)
(* every stopper thread (migration/N), with the deadlock detector that     *)
(* common-stop_machine-deadlock-panic-production.patch adds at "position   *)
(* C" of its loop, the clock the detector reads, and the hardware watchdog *)
(* it races.                                                               *)
(*                                                                         *)
(* The loop and ack_state() are the kernel's (external); position C, the   *)
(* snapshot of jiffies, timed_out, the dump and the panic are the patch's. *)
(***************************************************************************)
EXTENDS Integers, FiniteSets

CONSTANTS
    CPU,            (* the online CPUs                                         *)
    Threads,        (* those whose stopper takes part (num_threads of them):   *)
                    (* all for stop_machine(), two for stop_two_cpus()         *)
    Active,         (* those that call msdata->fn in RUN                       *)
    Wedged,         (* those whose stopper is busy and never enters the loop   *)
    IrqOff,         (* CPUs that keep their IRQs off for reasons of their own  *)
    Timeout,        (* STOPPER_TIMEOUT_JIFFIES, in ticks                       *)
    BacktraceWait,  (* how long trigger_all_cpu_backtrace() waits for a CPU    *)
                    (* that cannot take the IPI                                *)
    BarkTime,       (* when the Qualcomm watchdog barks                        *)
    Prompt,         (* TRUE: a CPU never needs a whole tick for a loop pass    *)
    MaxNow          (* bound of the model on time                              *)

ASSUME StopAssumption ==
    /\ IsFiniteSet(Threads)
    /\ Threads \subseteq CPU
    /\ Active \subseteq Threads
    /\ Wedged \subseteq Threads
    /\ IrqOff \subseteq Wedged \cup (CPU \ Threads)
    /\ Timeout \in Nat /\ BacktraceWait \in Nat /\ BarkTime \in Nat
    /\ MaxNow \in Nat /\ Prompt \in BOOLEAN

(* enum multi_stop_state *)
NONE        == 0
PREPARE     == 1
DISABLE_IRQ == 2
RUN         == 3
EXIT        == 4

VARIABLES
    state,          (* msdata->state                                           *)
    thread_ack,     (* msdata->thread_ack                                      *)
    pc,             (* where each stopper thread is                            *)
    curstate,       (* its local curstate                                      *)
    irq,            (* are the CPU's interrupts enabled                        *)
    start_jiffies,  (* its local start_jiffies                                 *)
    timed_out,      (* its local timed_out                                     *)
    dump_at,        (* when its dump began to wait for the other CPUs          *)
    jiffies,        (* the kernel's tick count                                 *)
    now,            (* real time in ticks, whether or not anyone counts them   *)
    panicked,       (* panic() has been called                                 *)
    barked          (* the watchdog has fired                                  *)

barrierVars == <<state, thread_ack, pc, curstate, irq>>
detectVars  == <<start_jiffies, timed_out, dump_at>>
clockVars   == <<jiffies, now>>
haltVars    == <<panicked, barked>>
vars == <<barrierVars, detectVars, clockVars, haltVars>>

PcValues == {"queued", "loop", "fn", "ack", "reset", "set", "check",
             "dump", "backtrace", "panic", "restore", "done"}

Halted == panicked \/ barked

TypeOK ==
    /\ state \in PREPARE .. EXIT + 1
    /\ thread_ack \in 0 .. Cardinality(Threads)
    /\ pc \in [Threads -> PcValues]
    /\ curstate \in [Threads -> NONE .. EXIT]
    /\ irq \in [CPU -> BOOLEAN]
    /\ start_jiffies \in [Threads -> Nat]
    /\ timed_out \in [Threads -> BOOLEAN]
    /\ dump_at \in [Threads -> Nat]
    /\ now \in Nat /\ jiffies \in 0 .. now
    /\ panicked \in BOOLEAN /\ barked \in BOOLEAN

(* set_state(&msdata, MULTI_STOP_PREPARE), then the work is on every stopper *)
Init ==
    /\ state = PREPARE
    /\ thread_ack = Cardinality(Threads)
    /\ pc = [c \in Threads |-> "queued"]
    /\ curstate = [c \in Threads |-> NONE]
    /\ irq = [c \in CPU |-> c \notin IrqOff]
    /\ start_jiffies = [c \in Threads |-> 0]
    /\ timed_out = [c \in Threads |-> FALSE]
    /\ dump_at = [c \in Threads |-> 0]
    /\ jiffies = 0 /\ now = 0
    /\ panicked = FALSE /\ barked = FALSE

--------------------------------------------------------------------------------
(* multi_cpu_stop(), one thread.                                           *)

Goto(c, label) == pc' = [pc EXCEPT ![c] = label]

(* The stopper picks the work up: curstate = NONE, timed_out = 0, and the   *)
(* snapshot of jiffies just before the loop.                               *)
Enter(c) ==
    /\ pc[c] = "queued" /\ c \notin Wedged
    /\ start_jiffies' = [start_jiffies EXCEPT ![c] = jiffies]
    /\ Goto(c, "loop")
    /\ UNCHANGED <<state, thread_ack, curstate, irq, timed_out, dump_at>>
    /\ UNCHANGED <<clockVars, haltVars>>

(* Variant: local_irq_disable() forgotten in DISABLE_IRQ.                    *)
NewStateIrqsOn(c) ==
    /\ pc[c] = "loop" /\ state # curstate[c]
    /\ curstate' = [curstate EXCEPT ![c] = state]
    /\ Goto(c, IF state = RUN /\ c \in Active THEN "fn" ELSE "ack")
    /\ UNCHANGED <<state, thread_ack, irq, detectVars, clockVars, haltVars>>

(* newstate = READ_ONCE(msdata->state) differs from curstate: follow it.    *)
NewState(c) ==
    /\ pc[c] = "loop" /\ state # curstate[c]
    /\ curstate' = [curstate EXCEPT ![c] = state]
    /\ irq' = IF state = DISABLE_IRQ THEN [irq EXCEPT ![c] = FALSE] ELSE irq
    /\ Goto(c, IF state = RUN /\ c \in Active THEN "fn" ELSE "ack")
    /\ UNCHANGED <<state, thread_ack, detectVars, clockVars, haltVars>>

(* Variant: an active thread acks on every pass and not once per state, as   *)
(* in the loop that the test module's header draws.                         *)
SameStateAcks(c) ==
    /\ pc[c] = "loop" /\ state = curstate[c]
    /\ Goto(c, IF c \in Active THEN "ack" ELSE "check")
    /\ UNCHANGED <<state, thread_ack, curstate, irq>>
    /\ UNCHANGED <<detectVars, clockVars, haltVars>>

(* The state has not moved: position B only touches watchdogs.              *)
SameState(c) ==
    /\ pc[c] = "loop" /\ state = curstate[c]
    /\ Goto(c, "check")
    /\ UNCHANGED <<state, thread_ack, curstate, irq>>
    /\ UNCHANGED <<detectVars, clockVars, haltVars>>

(* msdata->fn(msdata->data) returns, after any time at all.                 *)
FnReturn(c) ==
    /\ pc[c] = "fn"
    /\ Goto(c, "ack")
    /\ UNCHANGED <<state, thread_ack, curstate, irq>>
    /\ UNCHANGED <<detectVars, clockVars, haltVars>>

(* Variant: the result of the decrement is not tested.                       *)
AckDecUntested(c) ==
    /\ pc[c] = "ack"
    /\ thread_ack' = thread_ack - 1
    /\ Goto(c, "reset")
    /\ UNCHANGED <<state, curstate, irq, detectVars, clockVars, haltVars>>

(* ack_state(): atomic_dec_and_test(&msdata->thread_ack)                    *)
AckDec(c) ==
    /\ pc[c] = "ack"
    /\ thread_ack' = thread_ack - 1
    /\ Goto(c, IF thread_ack' = 0 THEN "reset" ELSE "check")
    /\ UNCHANGED <<state, curstate, irq, detectVars, clockVars, haltVars>>

(* Variant: set_state() does not refill the count.                           *)
ResetAckForgotten(c) ==
    /\ pc[c] = "reset"
    /\ Goto(c, "set")
    /\ UNCHANGED <<thread_ack, state, curstate, irq>>
    /\ UNCHANGED <<detectVars, clockVars, haltVars>>

(* set_state(), by the last to ack: the count is reset first ...            *)
ResetAck(c) ==
    /\ pc[c] = "reset"
    /\ thread_ack' = Cardinality(Threads)
    /\ Goto(c, "set")
    /\ UNCHANGED <<state, curstate, irq, detectVars, clockVars, haltVars>>

(* ... and only then, after a write barrier, does the state advance.        *)
SetState(c) ==
    /\ pc[c] = "set"
    /\ state' = state + 1
    /\ Goto(c, "check")
    /\ UNCHANGED <<thread_ack, curstate, irq, detectVars, clockVars, haltVars>>

(* Variants: a clock that runs with IRQs off; a threshold twice as long.     *)
ExpiredRealTime(c) == now > start_jiffies[c] + Timeout
ExpiredLate(c) == jiffies > start_jiffies[c] + 2 * Timeout + 1

(* time_after(jiffies, start_jiffies + STOPPER_TIMEOUT_JIFFIES)             *)
Expired(c) == jiffies > start_jiffies[c] + Timeout

(* Variant: the check inside "else if (curstate > MULTI_STOP_PREPARE)".      *)
FiresAtB(c) == curstate[c] > PREPARE /\ ~timed_out[c] /\ Expired(c)

(* Position C: every thread, every pass, whatever its state.                *)
Fires(c) == ~timed_out[c] /\ Expired(c)

Detect(c) ==
    /\ pc[c] = "check" /\ Fires(c)
    /\ timed_out' = [timed_out EXCEPT ![c] = TRUE]
    /\ Goto(c, "dump")
    /\ UNCHANGED <<state, thread_ack, curstate, irq, start_jiffies, dump_at>>
    /\ UNCHANGED <<clockVars, haltVars>>

CheckPasses(c) ==
    /\ pc[c] = "check" /\ ~Fires(c)
    /\ Goto(c, IF curstate[c] = EXIT THEN "restore" ELSE "loop")
    /\ UNCHANGED <<state, thread_ack, curstate, irq>>
    /\ UNCHANGED <<detectVars, clockVars, haltVars>>

(* After the loop: local_irq_restore(flags); the stopper signals done.      *)
Restore(c) ==
    /\ pc[c] = "restore"
    /\ irq' = [irq EXCEPT ![c] = TRUE]
    /\ Goto(c, "done")
    /\ UNCHANGED <<state, thread_ack, curstate>>
    /\ UNCHANGED <<detectVars, clockVars, haltVars>>

--------------------------------------------------------------------------------
(* stopper_deadlock_dump() and panic().  Sections 1-5 and 7 only print;     *)
(* section 6, trigger_all_cpu_backtrace(), waits for every other CPU to     *)
(* take an IPI, unless another CPU is already waiting in it.                *)

(* Variant: a second dump queues up behind the first one's backtrace.        *)
BeginBacktraceQueues(c) ==
    /\ pc[c] = "dump"
    /\ dump_at' = [dump_at EXCEPT ![c] = now]
    /\ Goto(c, "backtrace")
    /\ UNCHANGED <<state, thread_ack, curstate, irq, start_jiffies, timed_out>>
    /\ UNCHANGED <<clockVars, haltVars>>

BeginBacktrace(c) ==
    /\ pc[c] = "dump"
    /\ dump_at' = [dump_at EXCEPT ![c] = now]
    /\ Goto(c, IF \E d \in Threads : pc[d] = "backtrace"
                 THEN "panic" ELSE "backtrace")
    /\ UNCHANGED <<state, thread_ack, curstate, irq, start_jiffies, timed_out>>
    /\ UNCHANGED <<clockVars, haltVars>>

BacktraceOver(c) ==
    \/ \A d \in CPU \ {c} : irq[d]
    \/ now >= dump_at[c] + BacktraceWait
    \/ now = MaxNow   \* the end of the model's time ends the wait

EndBacktrace(c) ==
    /\ pc[c] = "backtrace" /\ BacktraceOver(c)
    /\ Goto(c, "panic")
    /\ UNCHANGED <<state, thread_ack, curstate, irq>>
    /\ UNCHANGED <<detectVars, clockVars, haltVars>>

Panic(c) ==
    /\ pc[c] = "panic"
    /\ panicked' = TRUE
    /\ UNCHANGED <<barrierVars, detectVars, clockVars, barked>>

--------------------------------------------------------------------------------
(* Time.  The tick interrupt of any CPU with IRQs on brings jiffies up to   *)
(* real time; while no CPU can take it, jiffies is frozen.                  *)

(* Work that a prompt machine does within the tick it becomes due: all but  *)
(* fn, which may take as long as it likes.                                  *)
Due(c) ==
    \/ pc[c] = "queued" /\ c \notin Wedged
    \/ pc[c] \in {"ack", "reset", "set", "dump", "panic", "restore"}
    \/ pc[c] \in {"loop", "check"} /\ state # curstate[c]
    \/ pc[c] \in {"loop", "check"} /\ Fires(c)
    \/ pc[c] = "backtrace" /\ BacktraceOver(c)

Urgent ==
    \/ jiffies < now /\ \E c \in CPU : irq[c]
    \/ \E c \in Threads : Due(c)

Advance ==
    /\ now < MaxNow
    /\ now' = now + 1
    /\ UNCHANGED <<barrierVars, detectVars, jiffies, haltVars>>

Tick ==
    /\ Prompt => ~Urgent
    /\ Advance

TimerIrq(c) ==
    /\ irq[c] /\ jiffies < now
    /\ jiffies' = now
    /\ UNCHANGED <<barrierVars, detectVars, now, haltVars>>

(* Nobody pets the watchdog while the stoppers, of its own priority, spin.  *)
Bark ==
    /\ now >= BarkTime
    /\ ~ \A c \in Threads : pc[c] = "done"
    /\ barked' = TRUE
    /\ UNCHANGED <<barrierVars, detectVars, clockVars, panicked>>

--------------------------------------------------------------------------------
Step(c) ==
    \/ Enter(c) \/ NewState(c) \/ SameState(c) \/ FnReturn(c)
    \/ AckDec(c) \/ ResetAck(c) \/ SetState(c)
    \/ Detect(c) \/ CheckPasses(c) \/ Restore(c)
    \/ BeginBacktrace(c) \/ EndBacktrace(c) \/ Panic(c)

Clock == Tick \/ Bark \/ \E c \in CPU : TimerIrq(c)

(* stop_machine() has returned: every stopper has signalled done.           *)
Returned == \A c \in Threads : pc[c] = "done"

Terminated == (Halted \/ Returned) /\ UNCHANGED vars

Next ==
    \/ ~Halted /\ \E c \in Threads : Step(c)
    \/ ~Halted /\ Clock
    \/ Terminated

Spec == Init /\ [][Next]_vars

(* A stopper thread has the highest priority and spins: it keeps running.   *)
(* Time passes, and a pending tick is taken.                                *)
Fairness ==
    /\ \A c \in Threads : WF_vars(~Halted /\ Step(c))
    /\ WF_vars(~Halted /\ Tick)
    /\ \A c \in CPU : WF_vars(~Halted /\ TimerIrq(c))

FairSpec == Spec /\ Fairness

--------------------------------------------------------------------------------
(* What the state machine guarantees.                                       *)

(* c has read msdata->state and counted itself off for it in ack_state().   *)
Acked(c) == curstate[c] = state /\ pc[c] \notin {"fn", "ack"}

Missing == {c \in Threads : ~Acked(c)}

Setting(c) == pc[c] \in {"reset", "set"}

(* While a callback runs on any CPU, every thread of the stop operation     *)
(* spins with its interrupts off: this is what stop_machine() is for.       *)
FnRunsAlone ==
    \A c \in Threads :
        pc[c] = "fn" => /\ curstate[c] = RUN
                        /\ \A t \in Threads : ~irq[t] /\ pc[t] # "done"

(* No thread leaves the stop while another may still be in front of or      *)
(* inside the callback.                                                     *)
NobodyLeavesEarly ==
    (\E c \in Threads : pc[c] \in {"restore", "done"})
        => \A t \in Threads : curstate[t] >= RUN /\ pc[t] # "fn"

(* thread_ack, which the dump prints as "CPUs NOT yet acked", is that       *)
(* number whenever no thread is between the two writes of set_state().      *)
AckCountIsMissing ==
    (\A c \in Threads : ~Setting(c))
        => thread_ack = Cardinality(Missing)

(* The barrier does not hang by itself: while it is not over, some thread    *)
(* has a step of its own to take, unless a stopper is wedged, a callback has *)
(* not returned, or a thread that has detected the deadlock is in its dump.  *)
HangHasCause ==
    \/ \E c \in Threads : Due(c) \/ c \in Wedged \/ pc[c] \in {"fn", "backtrace"}
    \/ Returned

(* Every thread sees every state: none is skipped and none comes back.      *)
NoStateSkipped ==
    [][\A c \in Threads : curstate'[c] \in {curstate[c], curstate[c] + 1}]_vars

(* The lock-step contract, as a refinement.                                 *)
Barrier == INSTANCE StopBarrier WITH
    LastPhase <- EXIT,
    begun     <- curstate,
    finished  <- [c \in Threads |-> IF pc[c] \in {"fn", "ack"}
                                    THEN curstate[c] - 1 ELSE curstate[c]]

BarrierSpec == Barrier!Spec

(* The inductive invariant behind these.  No thread is more than one state  *)
(* behind, and one that is behind owes no acknowledgement ...               *)
LockStep ==
    \A c \in Threads :
        /\ \/ curstate[c] = state
           \/ curstate[c] = state - 1 /\ pc[c] \notin {"fn", "ack", "reset", "set"}
        /\ pc[c] = "queued" => curstate[c] = NONE
        /\ pc[c] = "loop" => curstate[c] < EXIT
        /\ pc[c] = "fn" => curstate[c] = RUN /\ c \in Active
        /\ pc[c] \in {"restore", "done"} => curstate[c] = EXIT

(* ... the state is advanced by one thread alone, after all have acked ...  *)
AdvanceAlone ==
    \A c \in Threads : Setting(c) =>
        /\ \A t \in Threads : Acked(t) /\ (Setting(t) => t = c)
        /\ thread_ack = IF pc[c] = "reset" THEN 0 ELSE Cardinality(Threads)

(* ... at any time some thread is yet to acknowledge or to set the state ... *)
SomebodyOwes ==
    Threads # {} => \E c \in Threads : Setting(c) \/ ~Acked(c)

(* ... and interrupts stay off from DISABLE_IRQ until the thread is done.   *)
IrqsStayOff ==
    \A c \in Threads :
        curstate[c] >= DISABLE_IRQ /\ pc[c] # "done" => ~irq[c]

IInv ==
    TypeOK /\ LockStep /\ AdvanceAlone /\ AckCountIsMissing /\ SomebodyOwes /\ IrqsStayOff

--------------------------------------------------------------------------------
(* What the detector guarantees, and what its comments say of it.           *)

(* The panic comes before the watchdog barks.                               *)
PanicBeforeBark == ~barked

(* Without a wedged stopper the operation ends: it returns, unless the      *)
(* detector or the watchdog, because of a thread that came late, brings the *)
(* machine down.                                                            *)
StopEnds == <>(Returned \/ Halted)
================================================================================
