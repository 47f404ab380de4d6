-------------------------- MODULE DeferKretprobe_proofs --------------------------
(***************************************************************************)
(* The unload of dwc3_msm with deferred registration: proved of            *)
(* DeferKretprobe for any number of probes, any delay and any bursts, from *)
(* the invariant DeferIInv.                                                *)
(***************************************************************************)
EXTENDS DeferKretprobe, TLAPS

LEMMA DeferInit == Init => DeferIInv
<1> USE DeferAssumption
<1> SUFFICES ASSUME Init PROVE DeferIInv
  OBVIOUS
<1>1. DeferTypeOK
  <2>1. /\ length \in Nat /\ burst \in 0 .. length /\ loads \in 0 .. MaxLoads
        /\ j \in 1 .. NProbes + 1 /\ i \in 1 .. NProbes + 1 /\ left \in Nat
    BY DEF Init
  <2> QED
    BY <2>1 DEF Init, DeferTypeOK
<1>2. WorkOK
  BY DEF Init, WorkOK
<1>3. BurstOver
  BY DEF Init, BurstOver
<1> QED
  BY <1>1, <1>2, <1>3 DEF DeferIInv

(* The load and the work.                                                   *)
LEMMA WorkKeeps ==
    ASSUME DeferIInv, ~panicked, Load \/ TimerFires \/ WorkStep PROVE DeferIInv'
<1> USE DeferAssumption DEF DeferIInv, clock, task, probes
<1>1. CASE Load
  <2>1. DeferTypeOK'
    <3>1. loads' \in 0 .. MaxLoads /\ j' \in 1 .. NProbes + 1 /\ left' \in Nat
      BY <1>1 DEF DeferTypeOK, Load
    <3> QED
      BY <1>1, <3>1 DEF DeferTypeOK, Load
  <2>2. WorkOK' /\ BurstOver'
    BY <1>1 DEF DeferTypeOK, WorkOK, BurstOver, Load
  <2> QED
    BY <2>1, <2>2
<1>2. CASE TimerFires
  <2>1. DeferTypeOK'
    BY <1>2 DEF DeferTypeOK, TimerFires
  <2>2. WorkOK' /\ BurstOver'
    BY <1>2 DEF DeferTypeOK, WorkOK, BurstOver, TimerFires
  <2> QED
    BY <2>1, <2>2
<1>3. CASE WorkBegins
  <2>1. DeferTypeOK'
    BY <1>3 DEF DeferTypeOK, WorkBegins
  <2>2. WorkOK' /\ BurstOver'
    BY <1>3 DEF DeferTypeOK, WorkOK, BurstOver, WorkBegins, Probes
  <2> QED
    BY <2>1, <2>2
<1>4. CASE StopBegins
  <2>1. DeferTypeOK'
    BY <1>4 DEF DeferTypeOK, StopBegins
  <2>2. WorkOK' /\ BurstOver'
    BY <1>4 DEF DeferTypeOK, WorkOK, BurstOver, StopBegins
  <2> QED
    BY <2>1, <2>2
<1>5. CASE Registers \/ RegisterFails
  <2>1. i \in Probes /\ work = "running" /\ pc \notin {"check", "unregister", "absent"}
    BY <1>5 DEF Registers, RegisterFails, WorkOK, DeferTypeOK, Probes
  <2>2. DeferTypeOK'
    <3>1. i' \in 1 .. NProbes + 1
      BY <1>5, <2>1 DEF Registers, RegisterFails, Probes
    <3>2. armed' \subseteq Probes /\ failed' \subseteq Probes
      <4>1. armed' \subseteq armed \cup {i} /\ failed' \subseteq failed \cup {i}
        BY <1>5 DEF Registers, RegisterFails
      <4> QED
        BY <2>1, <4>1 DEF DeferTypeOK
    <3>3. UNCHANGED <<length, burst, panicked, loads, j, pc, work, left, registered, warned>>
          /\ stopping' = FALSE
      BY <1>5 DEF Registers, RegisterFails
    <3> QED
      BY <3>1, <3>2, <3>3 DEF DeferTypeOK
  <2>3. \A p \in Probes : p < i' => p \in armed' \cup failed'
    <3>1. i' = i + 1 /\ i \in (armed \cup failed)'
          /\ armed \cup failed \subseteq (armed \cup failed)'
      <4>1. CASE Registers
        BY <4>1 DEF Registers
      <4>2. CASE RegisterFails
        BY <4>2 DEF RegisterFails
      <4> QED
        BY <1>5, <4>1, <4>2
    <3>2. \A p \in Probes : p < i + 1 => p < i \/ p = i
      BY <2>1 DEF Probes
    <3> QED
      BY <2>1, <3>1, <3>2 DEF WorkOK
  <2>4. WorkOK' /\ BurstOver'
    BY <1>5, <2>1, <2>3 DEF WorkOK, BurstOver, Registers, RegisterFails
  <2> QED
    BY <2>2, <2>4
<1>6. CASE WorkEnds
  <2>1. DeferTypeOK'
    BY <1>6 DEF DeferTypeOK, WorkEnds
  <2>2. \A p \in Probes : p \in armed \cup failed
    BY <1>6 DEF WorkOK, DeferTypeOK, WorkEnds, Probes
  <2>3. pc \in {"loaded", "cancel"} /\ j = 1 /\ ~stopping
    BY <1>6 DEF WorkOK, DeferTypeOK, WorkEnds
  <2>4. WorkOK' /\ BurstOver'
    BY <1>6, <2>2, <2>3 DEF DeferTypeOK, WorkOK, BurstOver, WorkEnds, Probes
  <2> QED
    BY <2>1, <2>4
<1> QED
  BY <1>1, <1>2, <1>3, <1>4, <1>5, <1>6 DEF WorkStep

(* The unload.                                                              *)
LEMMA ExitKeeps ==
    ASSUME DeferIInv, ~panicked, Unload \/ ExitStep PROVE DeferIInv'
<1> USE DeferAssumption DEF DeferIInv, clock, task, worker, probes
<1>1. CASE Unload
  BY <1>1 DEF DeferTypeOK, WorkOK, BurstOver, Unload
<1>2. CASE CancelPending
  BY <1>2 DEF DeferTypeOK, WorkOK, BurstOver, CancelPending
<1>3. CASE CancelWaits
  BY <1>3 DEF DeferTypeOK, WorkOK, BurstOver, CancelWaits
<1>4. CASE CheckFlag
  BY <1>4 DEF DeferTypeOK, WorkOK, BurstOver, CheckFlag
<1>5. CASE Unregister
  <2>1. j \in Probes /\ work = "idle" /\ registered
    BY <1>5 DEF Unregister, WorkOK, DeferTypeOK, Probes
  <2>2. j \in armed \cup failed
    BY <1>5, <2>1 DEF Unregister, WorkOK, DeferTypeOK, Probes
  <2>3. DeferTypeOK' /\ BurstOver'
    BY <1>5, <2>1 DEF DeferTypeOK, BurstOver, Unregister, Probes
  <2>4. WorkOK'
    <3>1. \A p \in Probes : IF p < j' THEN p \notin armed' ELSE p \in armed' \cup failed'
      BY <1>5, <2>1 DEF DeferTypeOK, WorkOK, Unregister, Probes
    <3>2. warned' \subseteq failed' /\ pc' = "unregister" /\ work' = "idle" /\ registered'
          /\ ~stopping'
      BY <1>5, <2>1, <2>2 DEF WorkOK, Unregister
    <3> QED
      BY <3>1, <3>2 DEF WorkOK
  <2> QED
    BY <2>3, <2>4
<1>6. CASE ExitOver
  <2>1. armed = {} /\ work = "idle" /\ ~stopping
    BY <1>6 DEF ExitOver, WorkOK, DeferTypeOK, Probes
  <2> QED
    BY <1>6, <2>1 DEF DeferTypeOK, WorkOK, BurstOver, ExitOver
<1> QED
  BY <1>1, <1>2, <1>3, <1>4, <1>5, <1>6 DEF ExitStep

(* Time, and what the burst may do.                                         *)
LEMMA TimeKeeps ==
    ASSUME DeferIInv, ~panicked, Tick \/ Deadlock PROVE DeferIInv'
<1> USE DeferAssumption DEF DeferIInv, clock, task, worker, probes
<1>1. CASE Tick
  BY <1>1 DEF DeferTypeOK, WorkOK, BurstOver, Tick, Less
<1>2. CASE Deadlock
  <2>1. pc # "absent" \/ stopping
    BY <1>2 DEF Deadlock
  <2>2. length > Defer
    BY <1>2 DEF Deadlock, BurstOver, WorkOK, DeferTypeOK
  <2> QED
    BY <1>2, <2>2 DEF DeferTypeOK, WorkOK, BurstOver, Deadlock
<1> QED
  BY <1>1, <1>2

(* In every state: the work and the unload agree on which probes are         *)
(* registered, have failed, or have been unregistered, and on the burst.     *)
THEOREM DeferInvariant == DeferSpec => []DeferIInv
<1>1. DeferIInv /\ [DeferNext]_vars => DeferIInv'
  <2> SUFFICES ASSUME DeferIInv, [DeferNext]_vars PROVE DeferIInv'
    OBVIOUS
  <2>1. CASE UNCHANGED vars
    BY <2>1 DEF vars, clock, task, worker, probes, DeferIInv, DeferTypeOK, WorkOK, BurstOver
  <2>2. CASE DeferNext
    BY <2>1, <2>2, WorkKeeps, ExitKeeps, TimeKeeps DEF DeferNext, Waits, AtRest
  <2> QED
    BY <2>1, <2>2
<1> QED
  BY <1>1, DeferInit, PTL DEF DeferSpec

(* The unload unregisters no probe that has not been tried.                  *)
THEOREM NoWarnWithoutFailure == DeferSpec => []WarnsOnlyAfterFailure
<1>1. DeferIInv => WarnsOnlyAfterFailure
  BY DEF DeferIInv, WorkOK, WarnsOnlyAfterFailure
<1> QED
  BY <1>1, DeferInvariant, PTL

(* Nothing of the module is left when it is gone.                            *)
THEOREM UnloadIsClean == DeferSpec => []NothingLeft
<1>1. DeferIInv => NothingLeft
  BY DEF DeferIInv, WorkOK, NothingLeft
<1> QED
  BY <1>1, DeferInvariant, PTL

(* The second guard of the unload never stops it.                            *)
THEOREM FlagIsSet == DeferSpec => []FlagAfterCancel
<1>1. DeferIInv => FlagAfterCancel
  BY DEF DeferIInv, WorkOK, FlagAfterCancel
<1> QED
  BY <1>1, DeferInvariant, PTL

(* A burst that is over within the delay never meets a stop_machine() call.  *)
THEOREM DeferralSuffices == DeferSpec => []NoStopInBurst
<1>1. DeferIInv => NoStopInBurst
  BY DEF DeferIInv, BurstOver, NoStopInBurst
<1> QED
  BY <1>1, DeferInvariant, PTL
================================================================================
