--------------------------- MODULE MC_StopMachineTest ---------------------------
(* StopMachineTest on three CPUs, a tick being a second: the patch's 3 s, the *)
(* 10 s an unanswered backtrace IPI is waited for, the watchdog's 11 s.       *)
EXTENDS StopMachineTest

ThreeCPUs == 0 .. 2
First     == {0}
Nobody    == {}
Both      == {FALSE, TRUE}
ModeA     == {FALSE}
ModeB     == {TRUE}

(* The values of "tc" a configuration runs. *)
AllTests   == (1 .. 9) \cup (12 .. 17)
DelayTests == {2, 8, 17}
TC03 == {3}
TC07 == {7}

(* These times are those the detector is made for.                            *)
ASSUME Punctual == OnSchedule
================================================================================
