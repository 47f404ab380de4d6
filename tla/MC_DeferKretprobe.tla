--------------------------- MODULE MC_DeferKretprobe ----------------------------
(* DeferKretprobe with three probes and two loads; a burst that is over as    *)
(* the timer of a module loaded at its start fires, and one that lasts a tick *)
(* longer.                                                                    *)
EXTENDS DeferKretprobe

TwoBursts == {5, 6}
================================================================================
