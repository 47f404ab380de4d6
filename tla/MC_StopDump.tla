------------------------------- MODULE MC_StopDump -------------------------------
(* StopDump on three CPUs, two of whose stoppers may be late.  The tick is    *)
(* 400 ms; the 8 s to the detection are brought down to 2.4 s, which is still *)
(* more than the 2 s from there to the panic, and the watchdog's 11 s with    *)
(* them.                                                                      *)
EXTENDS StopDump

CONSTANTS c1, c2, c3

ThreeCPUs == {c1, c2, c3}
First     == {c1}
LastTwo   == {c2, c3}
NoCPU     == {}

(* The machine of this run is one on which the timing works out.              *)
ASSUME Punctual == OnTime
================================================================================
