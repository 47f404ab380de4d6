------------------------------ MODULE StopBarrier ------------------------------
(***************************************************************************)
(* What multi_cpu_stop() promises its caller, without clocks, counters or  *)
(* interrupts: a set of threads walks through the phases 1 .. LastPhase in  *)
(* lock step.  A thread may begin phase k+1 only when every thread has     *)
(* finished phase k.  StopMachine implements this specification.           *)
(***************************************************************************)
EXTENDS Naturals

CONSTANTS Threads,   (* the stopper threads of one stop operation *)
          LastPhase  (* MULTI_STOP_EXIT                           *)

VARIABLES begun,     (* begun[t]: the last phase thread t has begun    *)
          finished   (* finished[t]: the last phase it has finished    *)

vars == <<begun, finished>>

Init ==
    /\ begun = [t \in Threads |-> 0]
    /\ finished = [t \in Threads |-> 0]

(* Thread t enters its next phase; nobody may still be in the one before. *)
Begin(t) ==
    /\ begun[t] = finished[t]
    /\ begun[t] < LastPhase
    /\ \A u \in Threads : finished[u] >= begun[t]
    /\ begun' = [begun EXCEPT ![t] = @ + 1]
    /\ UNCHANGED finished

(* Thread t has done the work of its phase. *)
Finish(t) ==
    /\ finished[t] < begun[t]
    /\ finished' = [finished EXCEPT ![t] = begun[t]]
    /\ UNCHANGED begun

Next == \E t \in Threads : Begin(t) \/ Finish(t)

Spec == Init /\ [][Next]_vars
================================================================================
