---------------------------- MODULE MC_StopMachine -----------------------------
(* StopMachine on three CPUs.  The configurations differ in who takes part,  *)
(* who is wedged and how long the clock runs.                                *)
EXTENDS StopMachine

CONSTANTS c1, c2, c3

ThreeCPUs == {c1, c2, c3}

(* c1 is cpumask_first(cpu_online_mask): alone active when no mask is given. *)
First  == {c1}
Nobody == {}
Second == {c2}

(* stop_two_cpus() *)
Pair == {c1, c2}
================================================================================
